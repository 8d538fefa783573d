----------------------------- MODULE ClauseRAM ------------------------------
(***************************************************************************)
(* clauseRAM (clauseRAM.h): a memory of committed clauses, read at indices *)
(* only the prover knows.  Every read is logged; check() compares the log  *)
(* with a sorted copy of it, after every 2n reads of a memory of n clauses *)
(* and once more at the end.                                               *)
(*                                                                         *)
(* The variables are the prover's view of the class: the values behind the *)
(* commitments and the clear copies it sorts.  The process ends in error() *)
(* when a comparison fails.                                                *)
(***************************************************************************)
EXTENDS AccessRecord

CONSTANTS
  IndexRange,   (* 2^INDEX_SZ, the values of a committed index             *)
  Memories      (* the clause vectors init() is called with                *)

ASSUME ClauseRAMAssumption ==
  /\ IndexRange \in Nat \ {0}
  /\ Memories \subseteq Seq(Seq(Int))

VARIABLES
  clear_mem,             (* the clauses in the clear                       *)
  clear_access_record,   (* log in the clear                               *)
  access_record,         (* log as committed                               *)
  step,                  (* reads since the last check                     *)
  errored                (* the process ended inside check()               *)

vars == <<clear_mem, clear_access_record, access_record, step, errored>>

n == Len(clear_mem)

(* Integer(INDEX_SZ, v, ALICE) commits the low INDEX_SZ bits of v; init()  *)
(* commits its indices with one bit more.                                  *)
Committed_wide(v) == v % (2 * IndexRange)        (* faulty: never wraps    *)
CommittedInit_one_based(v) == v - 1              (* faulty: one too low    *)
Committed(v) == v % IndexRange
CommittedInit(v) == v % (2 * IndexRange)

(* Faulty variant: the oldest entries are dropped, not the newest.         *)
resize_front(s, len) == SubSeq(s, Len(s) - len + 1, Len(s))

resize(s, len) == SubSeq(s, 1, len)

(* The constructor.                                                        *)
Fresh ==
  /\ clear_mem = <<>>
  /\ clear_access_record = <<>>
  /\ access_record = <<>>
  /\ step = 0
  /\ errored = FALSE

(* init(data) on a fresh object: every clause is logged as a read.         *)
init(data) ==
  /\ clear_mem' = data
  /\ clear_access_record' = [k \in 1 .. Len(data) |-> Entry(k - 1, data[k])]
  /\ access_record' =
       [k \in 1 .. Len(data) |-> Entry(CommittedInit(k - 1), data[k])]
  /\ UNCHANGED <<step, errored>>

(* The prover sorts the clear log and commits it again.                    *)
sorted(clear) ==
  LET s == sort(clear)
  IN  [k \in 1 .. Len(s) |-> Entry(Committed(s[k].index), s[k].clause)]

(* The product of fewer than three entries never ends: the loop bound      *)
(* X.size() - 3 of vector_inn_prdt_bch4 wraps and the loop runs off the    *)
(* vectors until the process is killed.                                    *)
BatchMin == 3

CheckPasses(clear, record) ==
  LET s == sorted(clear)
  IN  /\ Len(record) >= BatchMin
      /\ Ascending(s)
      /\ check_set_euqality(s, record)

(* Faulty variant: the committed log is not cut back.                      *)
CheckRecords_keep(clear, record, reads) ==
  /\ clear_access_record' = resize(clear, n)
  /\ IF CheckPasses(clear, record)
     THEN access_record' = record /\ step' = 0 /\ UNCHANGED errored
     ELSE access_record' = record /\ step' = reads /\ errored' = TRUE
  /\ UNCHANGED clear_mem

(* check() on the given logs.  The clear log is cut back to the entries of *)
(* init() on entry, the committed one and step only on success.            *)
CheckRecords(clear, record, reads) ==
  /\ clear_access_record' = resize(clear, n)
  /\ IF CheckPasses(clear, record)
     THEN /\ access_record' = resize(record, n)
          /\ step' = 0
          /\ UNCHANGED errored
     ELSE access_record' = record /\ step' = reads /\ errored' = TRUE
  /\ UNCHANGED clear_mem

-----------------------------------------------------------------------------
(* Faulty variant: the automatic check comes one read late.                *)
get_late(index) ==
  LET entry  == Entry(index, clear_mem[index + 1])
      clear  == Append(clear_access_record, entry)
      record == Append(access_record, entry)
  IN  /\ ~ errored
      /\ IF step = 2 * n
         THEN CheckRecords(clear, record, step + 1)
         ELSE /\ clear_access_record' = clear
              /\ access_record' = record
              /\ step' = step + 1
              /\ UNCHANGED <<clear_mem, errored>>

(* get(index) for an index below the size of the memory.                   *)
get(index) ==
  LET entry  == Entry(index, clear_mem[index + 1])
      clear  == Append(clear_access_record, entry)
      record == Append(access_record, entry)
  IN  /\ ~ errored
      /\ IF step + 1 = 2 * n
         THEN CheckRecords(clear, record, step + 1)
         ELSE /\ clear_access_record' = clear
              /\ access_record' = record
              /\ step' = step + 1
              /\ UNCHANGED <<clear_mem, errored>>

check ==
  /\ ~ errored
  /\ CheckRecords(clear_access_record, access_record, step)

Init == Fresh

Load ==
  /\ ~ errored
  /\ clear_mem = <<>>
  /\ \E data \in Memories : init(data)

Get == \E v \in 0 .. n - 1 : get(Committed(v))

Check == clear_mem # <<>> /\ check

Next == Load \/ Get \/ Check

Spec == Init /\ [][Next]_vars

-----------------------------------------------------------------------------
Entries == [index : Nat, clause : Seq(Int)]

Records == Seq(Entries)

TypeOK ==
  /\ clear_mem \in Memories \cup {<<>>}
  /\ clear_access_record \in Records
  /\ access_record \in Records
  /\ step \in Nat
  /\ errored \in BOOLEAN

(* Whatever checks happened in between, the committed log starts with the  *)
(* n entries of init() and every later entry holds the clause init() put   *)
(* at its index: a read never returns another clause, and check() never    *)
(* cuts away an entry of init() or keeps one of a checked read.            *)
RecordCoherent ==
  /\ Len(access_record) >= n
  /\ \A k \in 1 .. n :
       access_record[k] = Entry(CommittedInit(k - 1), clear_mem[k])
  /\ \A k \in n + 1 .. Len(access_record) :
       /\ access_record[k].index < n
       /\ access_record[k].clause = clear_mem[access_record[k].index + 1]

(* The clear log the prover sorts and the committed log the verifier holds *)
(* stay entry for entry equal, though check() cuts them back at different  *)
(* moments (up to the width of the indices of init()).                     *)
ClearMirrorsCommitted ==
  ~ errored =>
    /\ Len(clear_access_record) = Len(access_record)
    /\ \A k \in DOMAIN access_record :
         /\ access_record[k].index =
              CommittedInit(clear_access_record[k].index)
         /\ access_record[k].clause = clear_access_record[k].clause

(* step counts the reads logged since the last check, and the log never    *)
(* holds 2n reads between two calls: the memory check() needs is bounded.  *)
LogBounded ==
  ~ errored => /\ step = Len(access_record) - n
               /\ n > 0 => step < 2 * n

(* The honest prover passes every check, the automatic ones and the final  *)
(* one, however often and wherever it read, as long as its memory has no   *)
(* more clauses than an index can name and enough for one batch.           *)
CheckNeverFails == BatchMin <= n /\ n <= IndexRange => ~ errored

(* A memory with more clauses than an index of INDEX_SZ bits can name      *)
(* never passes a check: the sorted copy cannot match the wider indices of *)
(* init(), so such a proof is refused, not checked on the wrong clauses.   *)
OversizeRejected ==
  [][n > IndexRange /\ (Check \/ step' < step) => errored']_vars
=============================================================================
