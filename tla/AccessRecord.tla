---------------------------- MODULE AccessRecord ----------------------------
(***************************************************************************)
(* The entries of the access records of clauseRAM.h and the two            *)
(* comparisons check() makes on them, for an honest prover.                *)
(*                                                                         *)
(* An entry pairs an index with the clause read there.  The honest prover  *)
(* commits the hash of each clause, so that the clause stands for it: the  *)
(* random linear combination of getHash and hash_and_mac is drawn after    *)
(* the commitments and tells different entries apart, and the product      *)
(* compared by check_set_euqality at a later random point tells different  *)
(* multisets apart.  What check() establishes when other hashes may be     *)
(* committed is the subject of MemoryCheck, which takes from this module   *)
(* only check_set_euqality.                                                *)
(***************************************************************************)
EXTENDS Integers, Sequences, FiniteSets

Entry(index, clause) == [index |-> index, clause |-> clause]

(* operator< of vector<uint64_t>, on clauses of equal length.              *)
ClauseLess(c, d) ==
  \E k \in DOMAIN c : c[k] < d[k] /\ \A j \in 1 .. k - 1 : c[j] = d[j]

(* Faulty variant: the record is sorted by clause.                         *)
EntryLess_clause(e, f) == ClauseLess(e.clause, f.clause)

(* operator< of pair<uint64_t, clause_raw>.                                *)
EntryLess(e, f) ==
  \/ e.index < f.index
  \/ e.index = f.index /\ ClauseLess(e.clause, f.clause)

(* The bit revealed for two neighbours of the honest prover's sorted       *)
(* record.  Its log has an entry of init() for every clause, so that the   *)
(* indices of neighbours are equal or consecutive; the order of the        *)
(* fixed-width words is needed for no others.                              *)
Adjacent(e, f) ==
  \/ ~ (e.index >= f.index)
  \/ e.index = f.index /\ e.clause = f.clause

(* std::sort: every entry comes after those less than it, and after those  *)
(* that are neither less nor greater and stood before it.                  *)
Precedes(s, j, k) ==
  \/ EntryLess(s[j], s[k])
  \/ ~ EntryLess(s[k], s[j]) /\ j < k

Rank(s) ==
  [k \in DOMAIN s |-> Cardinality({j \in DOMAIN s : Precedes(s, j, k)})]

sort(s) ==
  LET rank == Rank(s)
  IN  [m \in DOMAIN s |-> s[CHOOSE k \in DOMAIN s : rank[k] = m - 1]]

Ascending(s) == \A k \in 1 .. Len(s) - 1 : Adjacent(s[k], s[k + 1])

Occurrences(s, e) == {k \in DOMAIN s : s[k] = e}

(* check_set_euqality: the two records have the same entries with the same *)
(* multiplicities.                                                         *)
check_set_euqality(s, r) ==
  \A e \in {s[k] : k \in DOMAIN s} \cup {r[k] : k \in DOMAIN r} :
    Cardinality(Occurrences(s, e)) = Cardinality(Occurrences(r, e))
=============================================================================
