---------------------------- MODULE MemoryCheck -----------------------------
(***************************************************************************)
(* The verifier's side of clauseRAM::check(): what it establishes about a  *)
(* committed log, whatever the prover commits as that log, as the sorted   *)
(* copy next to it and as the hashes of the clauses in both.  Module       *)
(* ClauseRAM takes check() in one step and honest logs; here the loop runs *)
(* one pair of neighbours at a time, as the code reveals them.             *)
(*                                                                         *)
(* check() compares hashes, and getHash commits a hash afresh, when the    *)
(* factors of update_hash are known: only the block it leaves in the       *)
(* accumulator ties the hash to the clause.  The comparison of that block  *)
(* is a step of its own, after check() has returned; after the last        *)
(* check() of a run there is none.                                         *)
(***************************************************************************)
EXTENDS AccessRecord

CONSTANTS
  RecordSize,   (* record_size                                             *)
  IndexRange,   (* 2^index_sz                                              *)
  Indices,      (* indices committed with index_sz bits                    *)
  LogIndices,   (* those of the log: init() commits one bit more           *)
  Clauses,
  Hashes,       (* 128-bit values; the hash of a clause is denoted by the  *)
                (* clause: update_hash draws the factors after all clauses *)
                (* are committed, so that they tell the clauses apart      *)
  geq(_, _),    (* Integer::geq on index_sz bits (external)                *)
  hash_and_mac(_, _)   (* the block combined from a hash and an index      *)

ASSUME MemoryCheckAssumption ==
  /\ RecordSize \in Nat \ {0}
  /\ IndexRange \in Nat \ {0}
  /\ Indices \subseteq 0 .. IndexRange - 1
  /\ LogIndices \subseteq 0 .. 2 * IndexRange - 1
  /\ Clauses \subseteq Hashes

(* What check() takes the external comparison to be: the order of the      *)
(* indices a prover commits.                                               *)
ASSUME GeqAssumption == \A v, w \in Indices : geq(v, w) <=> v >= w

(* update_hash draws the two factors of hash_and_mac after the clauses and *)
(* the indices are committed: the blocks tell them apart.  Nothing is said *)
(* of a hash that is no clause's: the prover commits it knowing the        *)
(* factors, and may give its entry the block of any other.                 *)
ASSUME HashAndMacAssumption ==
  \A v, w \in Indices \cup LogIndices : \A c, d \in Clauses :
    hash_and_mac(c, v) = hash_and_mac(d, w) => v = w /\ c = d

VARIABLES
  access_record,   (* the log                                              *)
  sorted_record,   (* sorted_index, sorted_clause, sorted_hash_value       *)
  zeros,           (* the blocks getHash gave to check_zero_MAC are zero   *)
  i,               (* the neighbours compared next                         *)
  cheat,           (* every pair so far was in order (the code's name)     *)
  pc

vars == <<access_record, sorted_record, zeros, i, cheat, pc>>

LogEntries == [index : LogIndices, clause : Clauses, hash : Hashes]

SortedEntries == [index : Indices, clause : Clauses, hash : Hashes]

(* The record and, for each clause in it, what will be committed as its    *)
(* hash.                                                                   *)
Init ==
  /\ access_record \in [1 .. RecordSize -> LogEntries]
  /\ sorted_record \in [1 .. RecordSize -> SortedEntries]
  /\ zeros = TRUE
  /\ i = 1
  /\ cheat = TRUE
  /\ pc = "hash"

(* The block of getHash is zero when what is committed is the hash.        *)
ZeroBlock(e) == e.hash = e.clause

(* Faulty variant: the blocks of the sorted copy only.                     *)
GetHash_sorted ==
  /\ pc = "hash"
  /\ zeros' = \A k \in 1 .. RecordSize : ZeroBlock(sorted_record[k])
  /\ pc' = "compare"
  /\ UNCHANGED <<access_record, sorted_record, i, cheat>>

(* The loop that hashes both records: two blocks in each iteration.        *)
GetHash ==
  /\ pc = "hash"
  /\ zeros' = \A k \in 1 .. RecordSize :
                ZeroBlock(access_record[k]) /\ ZeroBlock(sorted_record[k])
  /\ pc' = "compare"
  /\ UNCHANGED <<access_record, sorted_record, i, cheat>>

(* Faulty variant: neighbours of one index are refused.                    *)
eq_strict(e, f) == ~ geq(e.index, f.index)

(* The bit revealed for two neighbours of the sorted record.               *)
eq(e, f) ==
  \/ ~ geq(e.index, f.index)
  \/ e.index = f.index /\ e.hash = f.hash

(* Faulty variant: the loop goes to record_size, and compares the last     *)
(* entry with whatever follows it.                                         *)
Compare_past ==
  /\ pc = "compare"
  /\ i <= RecordSize
  /\ \E f \in IF i < RecordSize THEN {sorted_record[i + 1]}
                                ELSE SortedEntries :
       cheat' = (cheat /\ eq(sorted_record[i], f))
  /\ i' = i + 1
  /\ UNCHANGED <<access_record, sorted_record, zeros, pc>>

(* One iteration of the loop over neighbours; it does not stop early.      *)
Compare ==
  /\ pc = "compare"
  /\ i < RecordSize
  /\ cheat' = (cheat /\ eq(sorted_record[i], sorted_record[i + 1]))
  /\ i' = i + 1
  /\ UNCHANGED <<access_record, sorted_record, zeros, pc>>

(* The loop has ended: error("[check] cheat!") unless all were in order.   *)
Order ==
  /\ pc = "compare"
  /\ i >= RecordSize
  /\ pc' = IF cheat THEN "multiset" ELSE "rejected"
  /\ UNCHANGED <<access_record, sorted_record, zeros, i, cheat>>

HRecord(r) ==
  [k \in 1 .. RecordSize |-> hash_and_mac(r[k].hash, r[k].index)]

Multiset ==
  /\ pc = "multiset"
  /\ pc' = IF check_set_euqality(HRecord(sorted_record),
                                 HRecord(access_record))
           THEN "returned" ELSE "rejected"
  /\ UNCHANGED <<access_record, sorted_record, zeros, i, cheat>>

(* check_zero_MAC(zero_block, 1) in main, for a check() that came before   *)
(* it.  The last check() of a run stays at "returned".                     *)
CompareDigests ==
  /\ pc = "returned"
  /\ pc' = IF zeros THEN "compared" ELSE "rejected"
  /\ UNCHANGED <<access_record, sorted_record, zeros, i, cheat>>

Next == GetHash \/ Compare \/ Order \/ Multiset \/ CompareDigests

Spec == Init /\ [][Next]_vars

-----------------------------------------------------------------------------
TypeOK ==
  /\ access_record \in [1 .. RecordSize -> LogEntries]
  /\ sorted_record \in [1 .. RecordSize -> SortedEntries]
  /\ zeros \in BOOLEAN
  /\ i \in 1 .. RecordSize
  /\ cheat \in BOOLEAN
  /\ pc \in {"hash", "compare", "multiset", "returned", "compared",
             "rejected"}

(* The log of a memory: entries of one index hold one clause.              *)
OneClause(r) ==
  \A j, k \in 1 .. RecordSize :
    r[j].index = r[k].index => r[j].clause = r[k].clause

(* When check() has let a log pass and the blocks of getHash have been     *)
(* compared as well, no two entries of the log give the same index         *)
(* different clauses: every read returned what init() committed there,     *)
(* although only neighbours were compared, and both the sorted copy and    *)
(* the hashes were supplied by the prover.                                 *)
ReadsReturnCommitted == pc = "compared" => OneClause(access_record)

(* The log of a memory next to its own entries in the order of indices,    *)
(* with the hashes of the clauses in both.                                 *)
Truthful ==
  /\ OneClause(access_record)
  /\ \A k \in 1 .. RecordSize :
       ZeroBlock(access_record[k]) /\ ZeroBlock(sorted_record[k])
  /\ check_set_euqality(sorted_record, access_record)
  /\ \A j, k \in 1 .. RecordSize :
       j < k => sorted_record[j].index <= sorted_record[k].index

(* Such a log is never refused, however the entries of one index are       *)
(* ordered among themselves.                                               *)
TruthfulAccepted == Truthful => pc # "rejected"
=============================================================================
