------------------------- MODULE MemoryCheckProofs --------------------------
(***************************************************************************)
(* Proofs about module MemoryCheck, for logs of any length over any        *)
(* indices, clauses and hashes.                                            *)
(***************************************************************************)
EXTENDS MemoryCheck, FiniteSetTheorems, TLAPS

(* Comparing neighbours orders the whole prefix compared so far: the       *)
(* strengthening that makes ReadsReturnCommitted inductive.  It is about   *)
(* hashes; what they say of clauses is known when zeros has been compared. *)
PrefixOrdered ==
  cheat =>
    \A j, k \in 1 .. i :
      j < k => \/ sorted_record[j].index < sorted_record[k].index
               \/ /\ sorted_record[j].index = sorted_record[k].index
                  /\ sorted_record[j].hash = sorted_record[k].hash

Checked ==
  /\ pc \in {"multiset", "returned", "compared"} => cheat /\ i = RecordSize
  /\ pc \in {"returned", "compared"} =>
       check_set_euqality(HRecord(sorted_record), HRecord(access_record))

Hashed ==
  \A k \in 1 .. RecordSize :
    ZeroBlock(access_record[k]) /\ ZeroBlock(sorted_record[k])

ZerosMeaning ==
  /\ pc \notin {"hash", "rejected"} => (zeros => Hashed)
  /\ pc = "compared" => zeros

IInv == TypeOK /\ PrefixOrdered /\ Checked /\ ZerosMeaning

LEMMA SortedType ==
  ASSUME NEW r \in [1 .. RecordSize -> SortedEntries],
         NEW m \in 1 .. RecordSize
  PROVE  /\ r[m] \in SortedEntries
         /\ r[m].index \in Indices /\ r[m].index \in Int
<1>1. r[m] \in SortedEntries
  OBVIOUS
<1>2. r[m].index \in Indices
  BY <1>1 DEF SortedEntries
<1>3. Indices \subseteq Int
  BY MemoryCheckAssumption
<1> QED
  BY <1>1, <1>2, <1>3

Column(s) == DOMAIN s = 1 .. RecordSize

(* Equal multisets have the same elements.                                 *)
LEMMA MultisetContains ==
  ASSUME NEW s, Column(s), NEW r, Column(r),
         check_set_euqality(s, r),
         NEW j \in 1 .. RecordSize
  PROVE  \E k \in 1 .. RecordSize : s[k] = r[j]
<1>1. DOMAIN s = 1 .. RecordSize /\ DOMAIN r = 1 .. RecordSize
  BY DEF Column
<1>2. IsFiniteSet(1 .. RecordSize)
  BY MemoryCheckAssumption, FS_Interval
<1>3. IsFiniteSet(Occurrences(s, r[j])) /\ IsFiniteSet(Occurrences(r, r[j]))
  BY <1>1, <1>2, FS_Subset DEF Occurrences
<1>4. Cardinality(Occurrences(s, r[j])) = Cardinality(Occurrences(r, r[j]))
  BY <1>1 DEF check_set_euqality
<1>5. Occurrences(r, r[j]) # {}
  BY <1>1 DEF Occurrences
<1>6. Occurrences(s, r[j]) # {}
  BY <1>3, <1>4, <1>5, FS_EmptySet
<1> QED
  BY <1>1, <1>6 DEF Occurrences

(* Blocks of entries that carry the hashes of their clauses tell the       *)
(* entries apart.                                                          *)
LEMMA BlocksDiffer ==
  ASSUME NEW e \in LogEntries \cup SortedEntries, ZeroBlock(e),
         NEW f \in LogEntries \cup SortedEntries, ZeroBlock(f),
         hash_and_mac(e.hash, e.index) = hash_and_mac(f.hash, f.index)
  PROVE  e = f
<1>1. /\ e.index \in Indices \cup LogIndices /\ e.hash \in Clauses
      /\ f.index \in Indices \cup LogIndices /\ f.hash \in Clauses
  BY DEF LogEntries, SortedEntries, ZeroBlock
<1>2. e.index = f.index /\ e.hash = f.hash
  BY <1>1, HashAndMacAssumption
<1>3. /\ e = [index |-> e.index, clause |-> e.clause, hash |-> e.hash]
      /\ f = [index |-> f.index, clause |-> f.clause, hash |-> f.hash]
  BY DEF LogEntries, SortedEntries
<1> QED
  BY <1>2, <1>3 DEF ZeroBlock

LEMMA TypeStep == TypeOK /\ [Next]_vars => TypeOK'
<1> SUFFICES ASSUME TypeOK, [Next]_vars
             PROVE  TypeOK'
  OBVIOUS
<1> USE MemoryCheckAssumption DEF TypeOK
<1>0. CASE GetHash
  <2>1. zeros' \in BOOLEAN
    BY <1>0 DEF GetHash
  <2> QED
    BY <1>0, <2>1 DEF GetHash
<1>1. CASE Compare
  <2>1. cheat' \in BOOLEAN
    BY <1>1 DEF Compare
  <2> QED
    BY <1>1, <2>1 DEF Compare
<1>2. CASE Order
  BY <1>2 DEF Order
<1>3. CASE Multiset
  BY <1>3 DEF Multiset
<1>4. CASE CompareDigests
  BY <1>4 DEF CompareDigests
<1>5. CASE UNCHANGED vars
  BY <1>5 DEF vars
<1> QED
  BY <1>0, <1>1, <1>2, <1>3, <1>4, <1>5 DEF Next

(* The type of the state, for logs of every length.                        *)
THEOREM TypeCorrect == Spec => []TypeOK
<1>1. Init => TypeOK
  BY MemoryCheckAssumption DEF Init, TypeOK
<1> QED
  BY <1>1, TypeStep, PTL DEF Spec

LEMMA InitInvariant == Init => IInv
BY MemoryCheckAssumption
   DEF Init, IInv, TypeOK, PrefixOrdered, Checked, ZerosMeaning

(* The loop body keeps the prefix ordered: the new entry is compared only  *)
(* with its neighbour, the order with the earlier ones is transitive.      *)
LEMMA CompareKeepsOrder ==
  ASSUME IInv, Compare
  PROVE  PrefixOrdered'
<1>1. /\ i \in 1 .. RecordSize /\ i < RecordSize /\ i' = i + 1
      /\ sorted_record' = sorted_record
      /\ sorted_record \in [1 .. RecordSize -> SortedEntries]
      /\ cheat' = (cheat /\ eq(sorted_record[i], sorted_record[i + 1]))
  BY DEF IInv, TypeOK, Compare
<1> SUFFICES ASSUME cheat', NEW j \in 1 .. i + 1, NEW k \in 1 .. i + 1, j < k
             PROVE  \/ sorted_record[j].index < sorted_record[k].index
                    \/ /\ sorted_record[j].index = sorted_record[k].index
                       /\ sorted_record[j].hash = sorted_record[k].hash
  BY <1>1 DEF PrefixOrdered
<1>2. cheat /\ eq(sorted_record[i], sorted_record[i + 1])
  BY <1>1
<1>3. CASE k <= i
  BY <1>1, <1>2, <1>3 DEF IInv, PrefixOrdered
<1>4. CASE k = i + 1
  <2>1. \A m \in 1 .. RecordSize :
          /\ sorted_record[m].index \in Indices
          /\ sorted_record[m].index \in Int
    BY <1>1, SortedType
  <2>2. \/ j = i
        \/ sorted_record[j].index < sorted_record[i].index
        \/ /\ sorted_record[j].index = sorted_record[i].index
           /\ sorted_record[j].hash = sorted_record[i].hash
    BY <1>1, <1>2, <1>4 DEF IInv, PrefixOrdered
  <2>3. i + 1 \in 1 .. RecordSize /\ j \in 1 .. RecordSize
    BY <1>1, <1>4, MemoryCheckAssumption
  <2>4. \/ sorted_record[i].index < sorted_record[i + 1].index
        \/ /\ sorted_record[i].index = sorted_record[i + 1].index
           /\ sorted_record[i].hash = sorted_record[i + 1].hash
    <3>1. geq(sorted_record[i].index, sorted_record[i + 1].index)
            <=> sorted_record[i].index >= sorted_record[i + 1].index
      BY <1>1, <2>1, <2>3, GeqAssumption
    <3> QED
      BY <1>1, <1>2, <2>1, <2>3, <3>1 DEF eq
  <2> QED
    BY <1>1, <1>4, <2>1, <2>2, <2>3, <2>4
<1> QED
  BY <1>1, <1>3, <1>4

LEMMA StepInvariant == IInv /\ [Next]_vars => IInv'
<1> SUFFICES ASSUME IInv, [Next]_vars
             PROVE  IInv'
  OBVIOUS
<1>1. TypeOK'
  BY TypeStep DEF IInv
<1>2. CASE GetHash
  <2>1. PrefixOrdered' /\ Checked'
    BY <1>2 DEF IInv, GetHash, PrefixOrdered, Checked
  <2>2. ZerosMeaning'
    BY <1>2 DEF GetHash, ZerosMeaning, Hashed
  <2> QED
    BY <1>1, <2>1, <2>2 DEF IInv
<1>3. CASE Compare
  BY <1>1, <1>3, CompareKeepsOrder, MemoryCheckAssumption
     DEF IInv, TypeOK, Compare, Checked, ZerosMeaning, Hashed
<1>4. CASE Order
  BY <1>1, <1>4, MemoryCheckAssumption
     DEF IInv, TypeOK, Order, Checked, PrefixOrdered, ZerosMeaning, Hashed
<1>5. CASE Multiset
  BY <1>1, <1>5 DEF IInv, TypeOK, Multiset, Checked, PrefixOrdered,
                    ZerosMeaning, Hashed, HRecord
<1>6. CASE CompareDigests
  BY <1>1, <1>6 DEF IInv, TypeOK, CompareDigests, Checked, PrefixOrdered,
                    ZerosMeaning, Hashed, HRecord
<1>7. CASE UNCHANGED vars
  BY <1>1, <1>7 DEF IInv, vars, Checked, PrefixOrdered, ZerosMeaning,
                    Hashed, HRecord
<1> QED
  BY <1>2, <1>3, <1>4, <1>5, <1>6, <1>7 DEF Next

(* An entry of the log is an entry of the sorted copy, once the blocks     *)
(* that tie both to their clauses have been compared.                      *)
LEMMA LogEntrySorted ==
  ASSUME IInv, pc = "compared", NEW j \in 1 .. RecordSize
  PROVE  \E p \in 1 .. RecordSize : sorted_record[p] = access_record[j]
<1>1. /\ access_record \in [1 .. RecordSize -> LogEntries]
      /\ sorted_record \in [1 .. RecordSize -> SortedEntries]
      /\ Hashed
      /\ check_set_euqality(HRecord(sorted_record), HRecord(access_record))
  BY DEF IInv, TypeOK, ZerosMeaning, Checked
<1>2. PICK p \in 1 .. RecordSize :
        HRecord(sorted_record)[p] = HRecord(access_record)[j]
  <2>1. Column(HRecord(sorted_record)) /\ Column(HRecord(access_record))
    BY DEF HRecord, Column
  <2> QED
    BY <1>1, <2>1, MultisetContains
<1>3. sorted_record[p] \in SortedEntries /\ access_record[j] \in LogEntries
  BY <1>1
<1>4. hash_and_mac(sorted_record[p].hash, sorted_record[p].index)
        = hash_and_mac(access_record[j].hash, access_record[j].index)
  BY <1>2 DEF HRecord
<1> QED
  BY <1>1, <1>3, <1>4, BlocksDiffer DEF Hashed

LEMMA InvariantImplies == IInv => ReadsReturnCommitted
<1> SUFFICES ASSUME IInv, pc = "compared",
                    NEW j \in 1 .. RecordSize, NEW k \in 1 .. RecordSize,
                    access_record[j].index = access_record[k].index
             PROVE  access_record[j].clause = access_record[k].clause
  BY DEF ReadsReturnCommitted, OneClause
<1>1. PICK p \in 1 .. RecordSize : sorted_record[p] = access_record[j]
  BY LogEntrySorted
<1>2. PICK q \in 1 .. RecordSize : sorted_record[q] = access_record[k]
  BY LogEntrySorted
<1>3. sorted_record[p].index \in Int /\ sorted_record[q].index \in Int
  BY SortedType DEF IInv, TypeOK
<1>4. \/ p = q
      \/ sorted_record[p].index < sorted_record[q].index
      \/ sorted_record[q].index < sorted_record[p].index
      \/ sorted_record[p].hash = sorted_record[q].hash
  BY MemoryCheckAssumption DEF IInv, Checked, PrefixOrdered
<1>5. sorted_record[p].hash = sorted_record[q].hash
  BY <1>1, <1>2, <1>3, <1>4
<1>6. Hashed
  BY DEF IInv, ZerosMeaning
<1> QED
  BY <1>1, <1>2, <1>5, <1>6 DEF Hashed, ZeroBlock

(* When check() has let a log pass and the blocks of its hashes have been  *)
(* compared, entries of one index hold one clause.                         *)
THEOREM MemoryCheckSound == Spec => []ReadsReturnCommitted
BY InitInvariant, StepInvariant, InvariantImplies, PTL DEF Spec

(* A comparison by the top bit of the difference meets GeqAssumption as    *)
(* long as no index has that bit: the order check() relies on.             *)
THEOREM DifferenceOrders ==
  ASSUME NEW h \in Nat \ {0}, NEW v \in 0 .. h - 1, NEW w \in 0 .. h - 1
  PROVE  (v - w) % (2 * h) < h <=> v >= w
<1>1. CASE v >= w
  <2>1. v - w \in 0 .. 2 * h - 1
    BY <1>1
  <2>2. (v - w) % (2 * h) = v - w
    BY <2>1
  <2> QED
    BY <1>1, <2>2
<1>2. CASE v < w
  <2>1. (v - w) % (2 * h) = v - w + 2 * h
    BY <1>2
  <2> QED
    BY <1>2, <2>1
<1> QED
  BY <1>1, <1>2
-----------------------------------------------------------------------------
NoAlarm ==
  Truthful => cheat /\ (pc # "hash" => zeros) /\ pc # "rejected"

(* Neighbours of a truthful copy are in order: entries of one index are    *)
(* entries of the log, which gives them one clause.                        *)
LEMMA TruthfulAdjacent ==
  ASSUME TypeOK, Truthful, NEW m \in 1 .. RecordSize, m < RecordSize
  PROVE  eq(sorted_record[m], sorted_record[m + 1])
<1>1. m + 1 \in 1 .. RecordSize /\ m < m + 1
  BY MemoryCheckAssumption
<1>2. /\ sorted_record \in [1 .. RecordSize -> SortedEntries]
      /\ access_record \in [1 .. RecordSize -> LogEntries]
  BY DEF TypeOK
<1>3. /\ check_set_euqality(access_record, sorted_record)
      /\ Column(access_record) /\ Column(sorted_record)
  BY <1>2 DEF Column, Truthful, check_set_euqality
<1>4. PICK p \in 1 .. RecordSize : access_record[p] = sorted_record[m]
  BY <1>3, MultisetContains
<1>5. PICK q \in 1 .. RecordSize : access_record[q] = sorted_record[m + 1]
  BY <1>1, <1>3, MultisetContains
<1>6. /\ sorted_record[m].index \in Indices
      /\ sorted_record[m + 1].index \in Indices
      /\ sorted_record[m].index \in Int
      /\ sorted_record[m + 1].index \in Int
      /\ sorted_record[m].index <= sorted_record[m + 1].index
  BY <1>1, <1>2, SortedType DEF Truthful
<1>7. sorted_record[m].index = sorted_record[m + 1].index
        => sorted_record[m].clause = sorted_record[m + 1].clause
  BY <1>4, <1>5 DEF Truthful, OneClause
<1>8. /\ sorted_record[m].hash = sorted_record[m].clause
      /\ sorted_record[m + 1].hash = sorted_record[m + 1].clause
  BY <1>1 DEF Truthful, ZeroBlock
<1>9. geq(sorted_record[m].index, sorted_record[m + 1].index)
        <=> sorted_record[m].index >= sorted_record[m + 1].index
  BY <1>6, GeqAssumption
<1> QED
  BY <1>6, <1>7, <1>8, <1>9 DEF eq

(* The entries of two truthful records that share a block are one entry.   *)
LEMMA BlockOccurrences ==
  ASSUME NEW r, DOMAIN r = 1 .. RecordSize,
         NEW s, DOMAIN s = 1 .. RecordSize,
         \A k \in 1 .. RecordSize :
           /\ r[k] \in LogEntries \cup SortedEntries /\ ZeroBlock(r[k])
           /\ s[k] \in LogEntries \cup SortedEntries /\ ZeroBlock(s[k]),
         NEW j \in 1 .. RecordSize
  PROVE  Occurrences(HRecord(s), HRecord(r)[j]) = Occurrences(s, r[j])
<1>1. DOMAIN HRecord(s) = 1 .. RecordSize
  BY DEF HRecord
<1>2. \A k \in 1 .. RecordSize : HRecord(s)[k] = HRecord(r)[j] <=> s[k] = r[j]
  <2> SUFFICES ASSUME NEW k \in 1 .. RecordSize,
                      HRecord(s)[k] = HRecord(r)[j]
               PROVE  s[k] = r[j]
    BY DEF HRecord
  <2>1. hash_and_mac(s[k].hash, s[k].index)
          = hash_and_mac(r[j].hash, r[j].index)
    BY DEF HRecord
  <2> QED
    BY <2>1, BlocksDiffer
<1> QED
  BY <1>1, <1>2 DEF Occurrences

LEMMA TruthfulMultiset ==
  ASSUME TypeOK, Truthful
  PROVE  check_set_euqality(HRecord(sorted_record), HRecord(access_record))
<1> DEFINE R == access_record
           S == sorted_record
<1>1. /\ DOMAIN R = 1 .. RecordSize /\ DOMAIN S = 1 .. RecordSize
      /\ \A k \in 1 .. RecordSize :
           /\ R[k] \in LogEntries \cup SortedEntries /\ ZeroBlock(R[k])
           /\ S[k] \in LogEntries \cup SortedEntries /\ ZeroBlock(S[k])
  BY DEF TypeOK, Truthful
<1>2. /\ DOMAIN HRecord(R) = 1 .. RecordSize
      /\ DOMAIN HRecord(S) = 1 .. RecordSize
  BY DEF HRecord
<1>3. check_set_euqality(S, R)
  BY DEF Truthful
<1> HIDE DEF R, S
<1> SUFFICES ASSUME NEW x \in {HRecord(S)[k] : k \in DOMAIN HRecord(S)}
                               \cup {HRecord(R)[k] : k \in DOMAIN HRecord(R)}
             PROVE  Cardinality(Occurrences(HRecord(S), x))
                      = Cardinality(Occurrences(HRecord(R), x))
  BY DEF check_set_euqality, R, S
<1>4. CASE \E j \in 1 .. RecordSize : x = HRecord(S)[j]
  <2>1. PICK j \in 1 .. RecordSize : x = HRecord(S)[j]
    BY <1>4
  <2>2. Occurrences(HRecord(S), x) = Occurrences(S, S[j])
    BY <1>1, <2>1, BlockOccurrences
  <2>3. Occurrences(HRecord(R), x) = Occurrences(R, S[j])
    BY <1>1, <2>1, BlockOccurrences
  <2>4. Cardinality(Occurrences(S, S[j])) = Cardinality(Occurrences(R, S[j]))
    BY <1>1, <1>3 DEF check_set_euqality
  <2> QED
    BY <2>2, <2>3, <2>4
<1>5. CASE \E j \in 1 .. RecordSize : x = HRecord(R)[j]
  <2>1. PICK j \in 1 .. RecordSize : x = HRecord(R)[j]
    BY <1>5
  <2>2. Occurrences(HRecord(S), x) = Occurrences(S, R[j])
    BY <1>1, <2>1, BlockOccurrences
  <2>3. Occurrences(HRecord(R), x) = Occurrences(R, R[j])
    BY <1>1, <2>1, BlockOccurrences
  <2>4. Cardinality(Occurrences(S, R[j])) = Cardinality(Occurrences(R, R[j]))
    BY <1>1, <1>3 DEF check_set_euqality
  <2> QED
    BY <2>2, <2>3, <2>4
<1> QED
  BY <1>2, <1>4, <1>5

LEMMA NoAlarmStep == TypeOK /\ NoAlarm /\ [Next]_vars => NoAlarm'
<1> SUFFICES ASSUME TypeOK, NoAlarm, [Next]_vars, Truthful'
             PROVE  cheat' /\ (pc' # "hash" => zeros') /\ pc' # "rejected"
  BY DEF NoAlarm
<1>1. Truthful
  BY DEF Next, GetHash, Compare, Order, Multiset, CompareDigests, vars,
         Truthful, OneClause
<1>2. cheat /\ (pc # "hash" => zeros) /\ pc # "rejected"
  BY <1>1 DEF NoAlarm
<1>3. CASE GetHash
  BY <1>1, <1>2, <1>3 DEF GetHash, Truthful
<1>4. CASE Compare
  <2>1. eq(sorted_record[i], sorted_record[i + 1])
    BY <1>1, <1>4, TruthfulAdjacent DEF Compare, TypeOK
  <2> QED
    BY <1>2, <1>4, <2>1 DEF Compare
<1>5. CASE Order
  BY <1>2, <1>5 DEF Order
<1>6. CASE Multiset
  BY <1>1, <1>2, <1>6, TruthfulMultiset DEF Multiset
<1>7. CASE CompareDigests
  BY <1>2, <1>7 DEF CompareDigests
<1>8. CASE UNCHANGED vars
  BY <1>2, <1>8 DEF vars
<1> QED
  BY <1>3, <1>4, <1>5, <1>6, <1>7, <1>8 DEF Next

(* The honest prover's check() never fails: a log of a memory with its     *)
(* sorted copy and the hashes of its clauses passes every comparison.      *)
THEOREM MemoryCheckComplete == Spec => []TruthfulAccepted
<1>1. Init => NoAlarm
  BY DEF Init, NoAlarm
<1>2. NoAlarm => TruthfulAccepted
  BY DEF NoAlarm, TruthfulAccepted
<1> QED
  BY <1>1, <1>2, NoAlarmStep, TypeCorrect, PTL DEF Spec

-----------------------------------------------------------------------------
(* The products that check_set_euqality compares, by the batched loops of  *)
(* module BatchProduct: for every batch size, length and width of size_t.  *)
CONSTANTS Modulus, Sizes, Batches

VARIABLES size, batch, index, factors, product_pc

Product == INSTANCE BatchProduct WITH i <- index, pc <- product_pc

(* The loops have multiplied exactly the first index factors, and leave    *)
(* the vector only where the bound has wrapped.                            *)
ProductProgress ==
  /\ product_pc = "first" => index = 0
  /\ product_pc \notin {"first", "outside"} => 1 <= index /\ index <= size
  /\ product_pc = "done" => index = size
  /\ product_pc # "outside" =>
       \A k \in 0 .. size - 1 : factors[k] = (IF k < index THEN 1 ELSE 0)
  /\ product_pc = "outside" => size < 1 \/ size < batch - 1

PInv == Product!BatchProductAssumption /\ Product!TypeOK /\ ProductProgress

(* The bound of the first loop does not wrap for a vector that holds       *)
(* enough entries.                                                         *)
LEMMA BoundExact ==
  ASSUME size \in 0 .. Modulus - 1, batch \in 1 .. Modulus,
         Modulus \in Nat, batch - 1 <= size
  PROVE  Product!Bound = size - (batch - 1)
BY DEF Product!Bound

(* Multiplying the factors from index to j - 1 keeps the product of the    *)
(* first ones complete.                                                    *)
LEMMA MultiplyNext ==
  ASSUME PInv, NEW j \in Nat, index < j,
         product_pc \in {"first", "batches", "rest"},
         NEW next_pc \in {"batches", "rest"},
         Product!Multiply(index .. j - 1, next_pc), index' = j,
         j <= size + batch,
         j <= size \/ size < 1 \/ size < batch - 1,
         UNCHANGED <<size, batch>>
  PROVE  PInv'
<1> USE DEF PInv, Product!TypeOK
<1>1. size \in Nat /\ batch \in Nat
  BY DEF Product!BatchProductAssumption
<1>2. CASE index .. j - 1 \subseteq 0 .. size - 1
  <2>1. j <= size
    <3>1. index \in Nat /\ j - 1 \in index .. j - 1
      BY <1>1
    <3>2. j - 1 \in 0 .. size - 1
      BY <1>2, <3>1
    <3> QED BY <1>1, <3>2
  <2>2. \A k \in 0 .. size - 1 :
          factors'[k] = factors[k] + (IF k \in index .. j - 1 THEN 1 ELSE 0)
    BY <1>2 DEF Product!Multiply
  <2>3. \A k \in 0 .. size - 1 : factors[k] = (IF k < index THEN 1 ELSE 0)
    BY DEF ProductProgress
  <2>4. \A k \in 0 .. size - 1 : factors'[k] = (IF k < j THEN 1 ELSE 0)
    BY <1>1, <2>2, <2>3
  <2>5. factors' \in [0 .. size - 1 -> {0, 1}]
    <3>1. factors' = [k \in 0 .. size - 1 |-> factors'[k]]
      BY <1>2 DEF Product!Multiply
    <3> QED BY <2>4, <3>1
  <2>6. product_pc' = next_pc
    BY <1>2 DEF Product!Multiply
  <2> QED BY <1>1, <2>1, <2>4, <2>5, <2>6 DEF ProductProgress
<1>3. CASE ~ (index .. j - 1 \subseteq 0 .. size - 1)
  <2>1. product_pc' = "outside" /\ factors' = factors
    BY <1>3 DEF Product!Multiply
  <2>2. ~ (j <= size)
    BY <1>1, <1>3
  <2> QED BY <1>1, <2>1, <2>2 DEF ProductProgress
<1> QED BY <1>2, <1>3

LEMMA ProductInit == Product!BatchProductAssumption /\ Product!Init => PInv
BY DEF Product!BatchProductAssumption, Product!Init, PInv, Product!TypeOK,
  ProductProgress

LEMMA ProductNext == PInv /\ [Product!Next]_Product!vars => PInv'
<1> SUFFICES ASSUME PInv, [Product!Next]_Product!vars PROVE PInv'
  OBVIOUS
<1>0. /\ size \in 0 .. Modulus - 1 /\ batch \in 1 .. Modulus
      /\ Modulus \in Nat /\ index \in Nat
  BY DEF Product!BatchProductAssumption, PInv, Product!TypeOK
<1>1. CASE Product!First
  <2>1. index = 0 /\ index .. 1 - 1 = {0}
    BY <1>1 DEF Product!First, PInv, ProductProgress
  <2>2. Product!Multiply(index .. 1 - 1, "batches") /\ index' = 1
    BY <1>1, <2>1 DEF Product!First
  <2>3. /\ 1 \in Nat /\ index < 1
        /\ 1 <= size + batch /\ (1 <= size \/ size < 1)
    BY <1>0, <2>1
  <2>4. product_pc = "first" /\ UNCHANGED <<size, batch>>
    BY <1>1 DEF Product!First
  <2> QED BY <2>2, <2>3, <2>4, MultiplyNext
<1>2. CASE Product!Batch
  <2> DEFINE j == index + batch
  <2>1. 1 <= index /\ index <= size
    BY <1>2 DEF Product!Batch, PInv, ProductProgress
  <2>2. j <= size \/ size < batch - 1
    BY <1>0, <1>2, BoundExact DEF Product!Batch
  <2>3. Product!Multiply(index .. j - 1, "batches")
    <3>1. j - 1 = index + batch - 1
      BY <1>0
    <3> QED BY <1>2, <3>1 DEF Product!Batch
  <2> QED BY <1>0, <1>2, <2>1, <2>2, <2>3, MultiplyNext DEF Product!Batch
<1>3. CASE Product!BatchesDone
  BY <1>3 DEF Product!BatchesDone, PInv, Product!TypeOK, ProductProgress
<1>4. CASE Product!Rest
  <2> DEFINE j == index + 1
  <2>1. index .. j - 1 = {index}
    BY <1>0
  <2>2. Product!Multiply(index .. j - 1, "rest") /\ index' = j
    BY <1>4, <2>1 DEF Product!Rest
  <2>3. j \in Nat /\ index < j /\ j <= size /\ j <= size + batch
    BY <1>0, <1>4 DEF Product!Rest
  <2> HIDE DEF j
  <2> QED BY <1>4, <2>2, <2>3, MultiplyNext DEF Product!Rest
<1>5. CASE Product!RestDone
  BY <1>0, <1>5 DEF Product!RestDone, PInv, Product!TypeOK, ProductProgress
<1>6. CASE UNCHANGED Product!vars
  BY <1>6 DEF Product!vars, PInv, Product!TypeOK, ProductProgress
<1> QED BY <1>1, <1>2, <1>3, <1>4, <1>5, <1>6 DEF Product!Next

LEMMA ProductInvariant ==
  ASSUME Product!BatchProductAssumption
  PROVE  Product!Spec => []PInv
<1>1. Product!Init => PInv
  BY ProductInit
<1> QED BY <1>1, ProductNext, PTL DEF Product!Spec

(* The type invariant, for every set of lengths and batch sizes.           *)
THEOREM ProductTypeCorrect ==
  ASSUME Product!BatchProductAssumption
  PROVE  Product!Spec => []Product!TypeOK
<1>1. PInv => Product!TypeOK
  BY DEF PInv
<1> QED BY <1>1, ProductInvariant, PTL

(* Whatever the batch size and the length, a product that is finished has  *)
(* every factor exactly once: the four variants compute the same product.  *)
THEOREM ProductComplete ==
  ASSUME Product!BatchProductAssumption
  PROVE  Product!Spec => []Product!EachFactorOnce
<1>1. PInv => Product!EachFactorOnce
  BY DEF Product!BatchProductAssumption, PInv, Product!TypeOK,
    ProductProgress, Product!EachFactorOnce
<1> QED BY <1>1, ProductInvariant, PTL

(* With at least batch - 1 entries (and one), no variant reads past the    *)
(* end of its vectors.                                                     *)
THEOREM ProductInBounds ==
  ASSUME Product!BatchProductAssumption
  PROVE  Product!Spec => []Product!InBounds
<1>1. PInv => Product!InBounds
  BY DEF Product!BatchProductAssumption, PInv, Product!TypeOK,
    ProductProgress, Product!InBounds
<1> QED BY <1>1, ProductInvariant, PTL
=============================================================================
