-------------------------- MODULE ClauseRAMProofs ---------------------------
(***************************************************************************)
(* Proofs about module ClauseRAM, for memories and indices of any size.    *)
(***************************************************************************)
EXTENDS ClauseRAM, FiniteSetTheorems, FunctionTheorems, TLAPS

(* Every entry of a clear log is a read of the memory.                     *)
Reads(c) ==
  \A m \in 1 .. Len(c) :
    c[m].index < n /\ c[m].clause = clear_mem[c[m].index + 1]

IInv ==
  /\ TypeOK /\ RecordCoherent /\ ClearMirrorsCommitted /\ LogBounded
  /\ Reads(clear_access_record)

(* n, but as the facts the provers need about it.                          *)
LEMMA MemoryType ==
  ASSUME TypeOK
  PROVE  clear_mem \in Seq(Seq(Int)) /\ n \in Nat /\ DOMAIN clear_mem = 1 .. n
<1>1. Memories \subseteq Seq(Seq(Int))
  BY ClauseRAMAssumption
<1>2. clear_mem \in Seq(Seq(Int))
  <2>1. CASE clear_mem \in Memories
    BY <1>1, <2>1
  <2>2. CASE clear_mem = <<>>
    BY <2>2
  <2> QED
    BY <2>1, <2>2 DEF TypeOK
<1> QED
  BY <1>2 DEF n

(* Conversions of an index; one that INDEX_SZ bits can name is kept.       *)
LEMMA CommittedIndex ==
  ASSUME NEW v \in Nat
  PROVE  /\ Committed(v) \in Nat
         /\ Committed(v) <= v
         /\ CommittedInit(v) \in Nat
         /\ CommittedInit(Committed(v)) = Committed(v)
<1>1. IndexRange \in Nat /\ IndexRange > 0
  BY ClauseRAMAssumption
<1>2. PICK w \in Nat : w = 2 * IndexRange /\ w > IndexRange
  BY <1>1
<1>3. v % IndexRange \in 0 .. IndexRange - 1 /\ v % IndexRange <= v
  BY <1>1
<1>4. v % w \in Nat
  BY <1>1, <1>2
<1>5. (v % IndexRange) % w = v % IndexRange
  <2> DEFINE r == v % IndexRange
  <2>1. r \in Nat /\ r < w
    BY <1>1, <1>2, <1>3
  <2> HIDE DEF r
  <2>2. r % w = r
    BY <1>1, <1>2, <2>1
  <2> QED
    BY <2>2 DEF r
<1> QED
  BY <1>2, <1>3, <1>4, <1>5 DEF Committed, CommittedInit

LEMMA EntryType ==
  ASSUME NEW r \in Records, NEW m \in 1 .. Len(r)
  PROVE  r[m] \in Entries /\ r[m].index \in Nat /\ r[m].clause \in Seq(Int)
<1>1. r[m] \in Entries
  BY DEF Records
<1> QED
  BY <1>1 DEF Entries

LEMMA NewEntry ==
  ASSUME NEW v \in Nat, NEW c \in Seq(Int)
  PROVE  /\ Entry(v, c) \in Entries
         /\ Entry(v, c).index = v
         /\ Entry(v, c).clause = c
BY DEF Entry, Entries

LEMMA InitInvariant == Init => IInv
<1> SUFFICES ASSUME Fresh
             PROVE  IInv
  BY DEF Init
<1>1. Len(clear_mem) = 0 /\ Len(access_record) = 0 /\ n = 0
  BY DEF Fresh, n
<1>2. TypeOK
  <2>1. <<>> \in Records
    BY DEF Records
  <2> QED
    BY <2>1 DEF Fresh, TypeOK
<1>3. RecordCoherent
  BY <1>1 DEF RecordCoherent
<1>4. ClearMirrorsCommitted
  BY DEF Fresh, ClearMirrorsCommitted
<1>5. LogBounded
  BY <1>1 DEF Fresh, LogBounded
<1>6. Reads(clear_access_record)
  BY DEF Fresh, Reads
<1> QED
  BY <1>2, <1>3, <1>4, <1>5, <1>6 DEF IInv

LEMMA LoadInvariant ==
  ASSUME IInv, Load
  PROVE  IInv'
<1>1. PICK data \in Memories : init(data)
  BY DEF Load
<1>2. data \in Seq(Seq(Int))
  <2>1. Memories \subseteq Seq(Seq(Int))
    BY ClauseRAMAssumption
  <2> QED
    BY <2>1
<1>3. clear_mem' = data /\ n' = Len(data) /\ Len(data) \in Nat
  BY <1>1, <1>2 DEF init, n
<1>4. \A m \in 1 .. Len(data) :
        /\ data[m] \in Seq(Int)
        /\ m - 1 \in Nat
        /\ CommittedInit(m - 1) \in Nat
  <2> SUFFICES ASSUME NEW m \in 1 .. Len(data)
               PROVE  /\ data[m] \in Seq(Int)
                      /\ m - 1 \in Nat
                      /\ CommittedInit(m - 1) \in Nat
    OBVIOUS
  <2>1. m - 1 \in Nat
    BY <1>3
  <2>2. data[m] \in Seq(Int)
    BY <1>2
  <2> QED
    BY <2>1, <2>2, CommittedIndex
<1>5. /\ clear_access_record' \in Records
      /\ Len(clear_access_record') = Len(data)
      /\ \A m \in 1 .. Len(data) :
           clear_access_record'[m] = Entry(m - 1, data[m])
  BY <1>1, <1>3, <1>4, NewEntry DEF init, Records
<1>6. /\ access_record' \in Records
      /\ Len(access_record') = Len(data)
      /\ \A m \in 1 .. Len(data) :
           access_record'[m] = Entry(CommittedInit(m - 1), data[m])
  BY <1>1, <1>3, <1>4, NewEntry DEF init, Records
<1>7. step' = step /\ errored' = errored
  BY <1>1 DEF init
<1>8. ~ errored /\ step = 0
  <2>1. ~ errored /\ Len(clear_mem) = 0 /\ n = 0
    BY DEF Load, n
  <2>2. access_record \in Records
    BY DEF IInv, TypeOK
  <2>3. \A m \in 1 .. Len(access_record) : access_record[m].index \in Nat
    BY <2>2, EntryType
  <2>4. Len(access_record) \in Nat
    BY <2>2 DEF Records
  <2>5. \A m \in n + 1 .. Len(access_record) : access_record[m].index < n
    BY DEF IInv, RecordCoherent
  <2>6. Len(access_record) = 0
    BY <2>1, <2>3, <2>4, <2>5
  <2> QED
    BY <2>1, <2>6 DEF IInv, LogBounded
<1>9. TypeOK'
  BY <1>3, <1>5, <1>6, <1>7 DEF IInv, TypeOK
<1>10. RecordCoherent'
  BY <1>3, <1>6 DEF RecordCoherent
<1>11. ClearMirrorsCommitted'
  <2>1. DOMAIN access_record' = 1 .. Len(data)
    BY <1>6 DEF Records
  <2>2. \A m \in 1 .. Len(data) :
          /\ access_record'[m].index =
               CommittedInit(clear_access_record'[m].index)
          /\ access_record'[m].clause = clear_access_record'[m].clause
    <3> SUFFICES ASSUME NEW m \in 1 .. Len(data)
                 PROVE  /\ access_record'[m].index
                             = CommittedInit(clear_access_record'[m].index)
                        /\ access_record'[m].clause
                             = clear_access_record'[m].clause
      OBVIOUS
    <3>1. clear_access_record'[m] = Entry(m - 1, data[m])
      BY <1>5
    <3>2. access_record'[m] = Entry(CommittedInit(m - 1), data[m])
      BY <1>6
    <3> QED
      BY <1>4, <3>1, <3>2, NewEntry
  <2> QED
    BY <1>5, <1>6, <2>1, <2>2 DEF ClearMirrorsCommitted
<1>12. LogBounded'
  BY <1>3, <1>6, <1>7, <1>8 DEF LogBounded
<1>13. Reads(clear_access_record)'
  <2> SUFFICES ASSUME NEW m \in 1 .. Len(data)
               PROVE  /\ clear_access_record'[m].index < Len(data)
                      /\ clear_access_record'[m].clause
                           = data[clear_access_record'[m].index + 1]
    BY <1>3, <1>5 DEF Reads
  <2>1. /\ clear_access_record'[m].index = m - 1
        /\ clear_access_record'[m].clause = data[m]
    BY <1>4, <1>5, NewEntry
  <2> QED
    BY <1>3, <2>1
<1> QED
  BY <1>9, <1>10, <1>11, <1>12, <1>13 DEF IInv

-----------------------------------------------------------------------------
(* The invariant of the logs, for logs that are not yet in the variables.  *)
Coherent(r) ==
  /\ Len(r) >= n
  /\ \A m \in 1 .. n : r[m] = Entry(CommittedInit(m - 1), clear_mem[m])
  /\ \A m \in n + 1 .. Len(r) :
       r[m].index < n /\ r[m].clause = clear_mem[r[m].index + 1]

Mirrors(c, r) ==
  /\ Len(c) = Len(r)
  /\ \A m \in 1 .. Len(r) :
       r[m].index = CommittedInit(c[m].index) /\ r[m].clause = c[m].clause

LEMMA LogsOfState ==
  ASSUME IInv, ~ errored
  PROVE  /\ Coherent(access_record)
         /\ Mirrors(clear_access_record, access_record)
<1>1. DOMAIN access_record = 1 .. Len(access_record)
  BY DEF IInv, TypeOK, Records
<1> QED
  BY <1>1 DEF IInv, RecordCoherent, ClearMirrorsCommitted, Coherent, Mirrors

LEMMA Resize ==
  ASSUME NEW r \in Records, NEW m \in Nat, m <= Len(r)
  PROVE  /\ resize(r, m) \in Records
         /\ Len(resize(r, m)) = m
         /\ \A j \in 1 .. m : resize(r, m)[j] = r[j]
BY DEF Records, resize

(* The invariant from its parts, after a step that keeps the memory.       *)
LEMMA Assemble ==
  ASSUME TypeOK, TypeOK', UNCHANGED clear_mem, Coherent(access_record'),
         Reads(clear_access_record)',
         ~ errored' => /\ Mirrors(clear_access_record', access_record')
                       /\ step' = Len(access_record') - n
                       /\ n > 0 => step' < 2 * n
  PROVE  IInv'
<1>1. n' = n
  BY DEF n
<1>2. DOMAIN access_record' = 1 .. Len(access_record')
  BY DEF TypeOK, Records
<1>3. RecordCoherent'
  BY <1>1 DEF RecordCoherent, Coherent
<1>4. ClearMirrorsCommitted'
  BY <1>2 DEF ClearMirrorsCommitted, Mirrors
<1>5. LogBounded'
  BY <1>1 DEF LogBounded
<1> QED
  BY <1>3, <1>4, <1>5 DEF IInv

(* A log cut back to its first entries is still one of reads.              *)
LEMMA ReadsResized ==
  ASSUME NEW c \in Records, NEW m \in Nat, m <= Len(c), Reads(c)
  PROVE  Reads(resize(c, m))
<1>1. Len(c) \in Nat
  BY DEF Records
<1>2. \A j \in 1 .. m : j \in 1 .. Len(c)
  BY <1>1
<1> QED
  BY <1>2, Resize DEF Reads

(* check() restores the invariant: whether it passes or not, the log it    *)
(* leaves is coherent.                                                     *)
LEMMA CheckRecordsInvariant ==
  ASSUME TypeOK, ~ errored,
         NEW clear \in Records, NEW record \in Records, NEW reads \in Nat,
         Coherent(record), Mirrors(clear, record), Reads(clear),
         CheckRecords(clear, record, reads)
  PROVE  IInv'
<1>1. n \in Nat /\ n <= Len(record) /\ n <= Len(clear)
  BY MemoryType DEF Coherent, Mirrors, Records
<1>2. /\ UNCHANGED clear_mem
      /\ clear_access_record' = resize(clear, n)
  BY DEF CheckRecords
<1>3. /\ resize(clear, n) \in Records
      /\ Len(resize(clear, n)) = n
      /\ \A j \in 1 .. n : resize(clear, n)[j] = clear[j]
  BY <1>1, Resize
<1>6. Reads(clear_access_record)'
  <2>1. Reads(resize(clear, n))
    BY <1>1, ReadsResized
  <2>2. n' = n
    BY <1>2 DEF n
  <2> QED
    BY <1>2, <2>1, <2>2 DEF Reads
<1>4. CASE CheckPasses(clear, record)
  <2>1. access_record' = resize(record, n) /\ step' = 0 /\ errored' = errored
    BY <1>4 DEF CheckRecords
  <2>2. /\ resize(record, n) \in Records
        /\ Len(resize(record, n)) = n
        /\ \A j \in 1 .. n : resize(record, n)[j] = record[j]
    BY <1>1, Resize
  <2>3. TypeOK'
    BY <1>2, <1>3, <2>1, <2>2 DEF TypeOK
  <2>4. Coherent(access_record')
    BY <1>1, <2>1, <2>2 DEF Coherent
  <2>5. Mirrors(clear_access_record', access_record')
    <3>1. \A j \in 1 .. n : j \in 1 .. Len(record)
      BY <1>1 DEF Records
    <3> QED
      BY <1>2, <1>3, <2>1, <2>2, <3>1 DEF Mirrors
  <2>6. step' = Len(access_record') - n /\ (n > 0 => step' < 2 * n)
    BY <1>1, <2>1, <2>2
  <2> QED
    BY <1>2, <1>6, <2>3, <2>4, <2>5, <2>6, Assemble
<1>5. CASE ~ CheckPasses(clear, record)
  <2>1. access_record' = record /\ step' = reads /\ errored' = TRUE
    BY <1>5 DEF CheckRecords
  <2>2. TypeOK'
    BY <1>2, <1>3, <2>1 DEF TypeOK
  <2> QED
    BY <1>2, <1>6, <2>1, <2>2, Assemble
<1> QED
  BY <1>4, <1>5

(* The entry a read appends to both logs.                                  *)
ReadEntry(v) == Entry(Committed(v), clear_mem[Committed(v) + 1])

ClearAfter(v) == Append(clear_access_record, ReadEntry(v))
RecordAfter(v) == Append(access_record, ReadEntry(v))

(* A read appends the clause init() put at its index to both logs.         *)
LEMMA GetLogs ==
  ASSUME IInv, ~ errored, NEW v \in 0 .. n - 1
  PROVE  /\ ClearAfter(v) \in Records /\ RecordAfter(v) \in Records
         /\ Len(RecordAfter(v)) = Len(access_record) + 1
         /\ Len(access_record) \in Nat
         /\ Coherent(RecordAfter(v))
         /\ Mirrors(ClearAfter(v), RecordAfter(v))
         /\ Reads(ClearAfter(v))
<1> DEFINE index  == Committed(v)
           entry  == Entry(index, clear_mem[index + 1])
           clear  == Append(clear_access_record, entry)
           record == Append(access_record, entry)
<1>1. TypeOK
  BY DEF IInv
<1>2. /\ n \in Nat
      /\ clear_mem \in Seq(Seq(Int))
      /\ n = Len(clear_mem)
  BY <1>1, MemoryType DEF n
<1>3. index \in Nat /\ index < n /\ CommittedInit(index) = index
  <2>1. v \in Nat /\ v < n
    BY <1>2
  <2>2. /\ index \in Nat /\ index <= v
        /\ CommittedInit(index) = index
    BY <2>1, CommittedIndex
  <2> HIDE DEF index
  <2> QED
    BY <1>2, <2>1, <2>2
<1>4. clear_mem[index + 1] \in Seq(Int)
  <2>1. index + 1 \in 1 .. Len(clear_mem)
    BY <1>2, <1>3
  <2> QED
    BY <1>2, <2>1
<1>5. /\ entry \in Entries
      /\ entry.index = index
      /\ entry.clause = clear_mem[index + 1]
  BY <1>3, <1>4, NewEntry
<1>6. access_record \in Records /\ clear_access_record \in Records
  BY <1>1 DEF TypeOK
<1>7. Coherent(access_record) /\ Mirrors(clear_access_record, access_record)
  BY <1>1, LogsOfState
<1> HIDE DEF index, entry
<1>8. /\ record \in Records
      /\ Len(record) = Len(access_record) + 1
      /\ \A m \in 1 .. Len(access_record) : record[m] = access_record[m]
      /\ record[Len(access_record) + 1] = entry
  BY <1>5, <1>6 DEF Records
<1>9. /\ clear \in Records
      /\ Len(clear) = Len(clear_access_record) + 1
      /\ \A m \in 1 .. Len(clear_access_record) :
           clear[m] = clear_access_record[m]
      /\ clear[Len(clear_access_record) + 1] = entry
  BY <1>5, <1>6 DEF Records
<1>10. Len(access_record) \in Nat
  BY <1>6 DEF Records
<1> HIDE DEF clear, record
<1>11. Coherent(record)
  <2>1. \A m \in n + 1 .. Len(record) :
          m \in n + 1 .. Len(access_record) \/ m = Len(access_record) + 1
    <3>1. PICK len \in Nat :
            len = Len(access_record) /\ Len(record) = len + 1
      BY <1>8, <1>10
    <3>2. n \in Nat /\ len \in Nat
      BY <1>2, <3>1
    <3>3. \A a, b \in Nat :
            \A m \in a + 1 .. b + 1 : m \in a + 1 .. b \/ m = b + 1
      OBVIOUS
    <3>4. \A m \in n + 1 .. len + 1 : m \in n + 1 .. len \/ m = len + 1
      BY <3>2, <3>3
    <3> QED
      BY <3>1, <3>4
  <2>2. \A m \in 1 .. n : m \in 1 .. Len(access_record)
    BY <1>2, <1>7, <1>10 DEF Coherent
  <2>3. \A m \in n + 1 .. Len(access_record) : m \in 1 .. Len(access_record)
    BY <1>2, <1>10
  <2>4. Len(record) >= n
    BY <1>2, <1>7, <1>8, <1>10 DEF Coherent
  <2>5. \A m \in 1 .. n :
          record[m] = Entry(CommittedInit(m - 1), clear_mem[m])
    BY <1>7, <1>8, <2>2 DEF Coherent
  <2>6. ASSUME NEW m \in n + 1 .. Len(record)
        PROVE  /\ record[m].index < n
               /\ record[m].clause = clear_mem[record[m].index + 1]
    <3>1. CASE m \in n + 1 .. Len(access_record)
      BY <1>7, <1>8, <2>3, <3>1 DEF Coherent
    <3>2. CASE m = Len(access_record) + 1
      BY <1>3, <1>5, <1>8, <3>2
    <3> QED
      BY <2>1, <3>1, <3>2
  <2> QED
    BY <2>4, <2>5, <2>6 DEF Coherent
<1>12. Mirrors(clear, record)
  <2>1. \A m \in 1 .. Len(record) :
          m \in 1 .. Len(access_record) \/ m = Len(access_record) + 1
    BY <1>8, <1>10
  <2> QED
    BY <1>3, <1>5, <1>7, <1>8, <1>9, <1>10, <2>1 DEF Mirrors
<1>14. Reads(clear)
  <2>1. \A m \in 1 .. Len(clear) :
          m \in 1 .. Len(clear_access_record)
            \/ m = Len(clear_access_record) + 1
    <3>1. Len(clear_access_record) \in Nat
      BY <1>6 DEF Records
    <3> QED
      BY <1>9, <3>1
  <2> QED
    BY <1>3, <1>5, <1>9, <2>1 DEF IInv, Reads
<1>15. clear = ClearAfter(v) /\ record = RecordAfter(v)
  BY DEF clear, record, entry, index, ClearAfter, RecordAfter, ReadEntry
<1> QED
  BY <1>8, <1>9, <1>10, <1>11, <1>12, <1>14, <1>15

LEMMA GetInvariant ==
  ASSUME IInv, NEW v \in 0 .. n - 1, get(Committed(v))
  PROVE  IInv'
<1> DEFINE clear  == ClearAfter(v)
           record == RecordAfter(v)
<1>1. TypeOK /\ ~ errored /\ n \in Nat
  BY MemoryType DEF IInv, get
<1>2. /\ clear \in Records /\ record \in Records
      /\ Len(record) = Len(access_record) + 1
      /\ Len(access_record) \in Nat
      /\ Coherent(record) /\ Mirrors(clear, record) /\ Reads(clear)
  BY <1>1, GetLogs
<1>3. CASE step + 1 = 2 * n
  <2>1. CheckRecords(clear, record, step + 1)
    BY <1>3 DEF get, ClearAfter, RecordAfter, ReadEntry
  <2>2. step + 1 \in Nat
    BY <1>1 DEF TypeOK
  <2> QED
    BY <1>1, <1>2, <2>1, <2>2, CheckRecordsInvariant
<1>4. CASE step + 1 # 2 * n
  <2>1. /\ clear_access_record' = clear
        /\ access_record' = record
        /\ step' = step + 1
        /\ UNCHANGED <<clear_mem, errored>>
    BY <1>4 DEF get, ClearAfter, RecordAfter, ReadEntry
  <2>2. TypeOK'
    BY <1>1, <1>2, <2>1 DEF TypeOK
  <2>3. /\ step \in Nat /\ step = Len(access_record) - n
        /\ n > 0 => step < 2 * n
    BY <1>1 DEF IInv, LogBounded, TypeOK
  <2>4. step' = Len(access_record') - n /\ (n > 0 => step' < 2 * n)
    <3>1. PICK len \in Nat :
            len = Len(access_record) /\ Len(record) = len + 1
      BY <1>2
    <3>2. step' = step + 1 /\ Len(access_record') = len + 1
      BY <2>1, <3>1
    <3>3. step' = Len(access_record') - n
      BY <1>1, <2>3, <3>1, <3>2
    <3>4. ASSUME n > 0
          PROVE  step' < 2 * n
      <4>1. PICK w \in Nat : w = 2 * n
        BY <1>1
      <4>2. step \in Nat /\ step < w /\ step + 1 # w
        BY <1>4, <2>3, <3>4, <4>1
      <4>3. step + 1 < w
        BY <4>2
      <4> QED
        BY <3>2, <4>1, <4>3
    <3> QED
      BY <3>3, <3>4
  <2>5. Reads(clear_access_record)'
    <3>1. n' = n
      BY <2>1 DEF n
    <3> QED
      BY <1>2, <2>1, <3>1 DEF Reads
  <2> QED
    BY <1>1, <1>2, <2>1, <2>2, <2>4, <2>5, Assemble
<1> QED
  BY <1>3, <1>4

LEMMA StepInvariant == IInv /\ [Next]_vars => IInv'
<1> SUFFICES ASSUME IInv, [Next]_vars
             PROVE  IInv'
  OBVIOUS
<1>1. CASE Load
  BY <1>1, LoadInvariant
<1>2. CASE Get
  BY <1>2, GetInvariant DEF Get
<1>3. CASE Check
  <2>1. /\ TypeOK
        /\ ~ errored
        /\ Reads(clear_access_record)
        /\ CheckRecords(clear_access_record, access_record, step)
    BY <1>3 DEF Check, check, IInv
  <2>2. /\ clear_access_record \in Records
        /\ access_record \in Records
        /\ step \in Nat
    BY <2>1 DEF TypeOK
  <2> QED
    BY <2>1, <2>2, LogsOfState, CheckRecordsInvariant
<1>4. CASE UNCHANGED vars
  BY <1>4 DEF vars, IInv, TypeOK, RecordCoherent, ClearMirrorsCommitted,
              LogBounded, Reads, n
<1> QED
  BY <1>1, <1>2, <1>3, <1>4 DEF Next

(* Every logged read holds the clause init() put at its index, through all *)
(* automatic and final checks, for memories and index widths of any size.  *)
THEOREM ReadsCoherent == Spec => []RecordCoherent
<1>1. IInv => RecordCoherent
  BY DEF IInv
<1> QED
  BY <1>1, InitInvariant, StepInvariant, PTL DEF Spec

(* The prover's clear log and the committed one stay entry for entry the   *)
(* same.                                                                   *)
THEOREM LogsMirror == Spec => []ClearMirrorsCommitted
<1>1. IInv => ClearMirrorsCommitted
  BY DEF IInv
<1> QED
  BY <1>1, InitInvariant, StepInvariant, PTL DEF Spec

(* Both logs are sequences of entries of typed clauses.                    *)
THEOREM TypeCorrect == Spec => []TypeOK
<1>1. IInv => TypeOK
  BY DEF IInv
<1> QED
  BY <1>1, InitInvariant, StepInvariant, PTL DEF Spec

(* The log never holds more than 2n reads between two calls.               *)
THEOREM LogIsBounded == Spec => []LogBounded
<1>1. IInv => LogBounded
  BY DEF IInv
<1> QED
  BY <1>1, InitInvariant, StepInvariant, PTL DEF Spec

-----------------------------------------------------------------------------
(* p puts the entries of s in the order of their indices.                  *)
Sorts(p, s) ==
  /\ p \in Bijection(DOMAIN s, DOMAIN s)
  /\ DOMAIN sort(s) = DOMAIN s
  /\ \A m \in DOMAIN s : sort(s)[m] = s[p[m]]
  /\ \A l, m \in DOMAIN s : l < m => s[p[l]].index <= s[p[m]].index

(* One clause per index, as in the log of a memory that does not change.   *)
OneClause(s) ==
  \A j, k \in DOMAIN s : s[j].index = s[k].index => s[j].clause = s[k].clause

LEMMA ReadsOneClause ==
  ASSUME NEW c \in Records, Reads(c)
  PROVE  OneClause(c)
<1>1. DOMAIN c = 1 .. Len(c)
  BY DEF Records
<1> QED
  BY <1>1 DEF Reads, OneClause

(* Entries of different clauses never have the same index, so that the     *)
(* order of the entries is the order of their indices.                     *)
LEMMA PrecedesByIndex ==
  ASSUME NEW s \in Records, OneClause(s),
         NEW j \in DOMAIN s, NEW k \in DOMAIN s
  PROVE  /\ Precedes(s, j, k) <=>
              \/ s[j].index < s[k].index
              \/ s[j].index = s[k].index /\ j < k
         /\ s[j].index \in Nat /\ s[k].index \in Nat /\ j \in Nat /\ k \in Nat
<1>1. j \in 1 .. Len(s) /\ k \in 1 .. Len(s) /\ Len(s) \in Nat
  BY DEF Records
<1>2. /\ s[j] \in Entries /\ s[k] \in Entries
      /\ s[j].index \in Nat /\ s[k].index \in Nat
      /\ s[j].clause \in Seq(Int) /\ s[k].clause \in Seq(Int)
  BY <1>1, EntryType
<1>3. CASE s[j].index = s[k].index
  <2>1. s[j].clause = s[k].clause
    BY <1>3 DEF OneClause
  <2>2. /\ ~ ClauseLess(s[j].clause, s[k].clause)
        /\ ~ ClauseLess(s[k].clause, s[j].clause)
    BY <1>2, <2>1 DEF ClauseLess
  <2>3. ~ EntryLess(s[j], s[k]) /\ ~ EntryLess(s[k], s[j])
    BY <1>2, <1>3, <2>2 DEF EntryLess
  <2> QED
    BY <1>1, <1>2, <1>3, <2>3 DEF Precedes
<1>4. CASE s[j].index # s[k].index
  <2>1. /\ EntryLess(s[j], s[k]) <=> s[j].index < s[k].index
        /\ EntryLess(s[k], s[j]) <=> s[k].index < s[j].index
    BY <1>4 DEF EntryLess
  <2> QED
    BY <1>1, <1>2, <1>4, <2>1 DEF Precedes
<1> QED
  BY <1>3, <1>4

(* Precedes is a strict total order of the positions.                      *)
LEMMA PrecedesOrder ==
  ASSUME NEW s \in Records, OneClause(s),
         NEW i \in DOMAIN s, NEW j \in DOMAIN s, NEW k \in DOMAIN s
  PROVE  /\ ~ Precedes(s, j, j)
         /\ Precedes(s, i, j) /\ Precedes(s, j, k) => Precedes(s, i, k)
         /\ j # k => Precedes(s, j, k) \/ Precedes(s, k, j)
<1>1. ~ Precedes(s, j, j)
  BY PrecedesByIndex
<1>2. ASSUME Precedes(s, i, j), Precedes(s, j, k)
      PROVE  Precedes(s, i, k)
  <2>1. /\ \/ s[i].index < s[j].index
           \/ s[i].index = s[j].index /\ i < j
        /\ s[i].index \in Nat /\ s[j].index \in Nat /\ i \in Nat /\ j \in Nat
    BY <1>2, PrecedesByIndex
  <2>2. /\ \/ s[j].index < s[k].index
           \/ s[j].index = s[k].index /\ j < k
        /\ s[k].index \in Nat /\ k \in Nat
    BY <1>2, PrecedesByIndex
  <2>3. \/ s[i].index < s[k].index
        \/ s[i].index = s[k].index /\ i < k
    BY <2>1, <2>2
  <2> QED
    BY <2>3, PrecedesByIndex
<1>3. j # k => Precedes(s, j, k) \/ Precedes(s, k, j)
  <2>1. /\ Precedes(s, j, k) <=>
             \/ s[j].index < s[k].index
             \/ s[j].index = s[k].index /\ j < k
        /\ s[j].index \in Nat /\ s[k].index \in Nat /\ j \in Nat /\ k \in Nat
    BY PrecedesByIndex
  <2>2. Precedes(s, k, j) <=>
             \/ s[k].index < s[j].index
             \/ s[k].index = s[j].index /\ k < j
    BY PrecedesByIndex
  <2> QED
    BY <2>1, <2>2
<1> QED
  BY <1>1, <1>2, <1>3

(* The positions an entry comes after.                                     *)
Below(s, k) == {j \in DOMAIN s : Precedes(s, j, k)}

LEMMA BelowProperties ==
  ASSUME NEW s \in Records, OneClause(s), NEW k \in DOMAIN s
  PROVE  /\ IsFiniteSet(Below(s, k))
         /\ Rank(s)[k] = Cardinality(Below(s, k))
         /\ Rank(s)[k] \in 0 .. Len(s) - 1
<1>1. DOMAIN s = 1 .. Len(s) /\ Len(s) \in Nat
  BY DEF Records
<1>2. IsFiniteSet(DOMAIN s) /\ Cardinality(DOMAIN s) = Len(s)
  <2>1. /\ IsFiniteSet(1 .. Len(s))
        /\ Cardinality(1 .. Len(s)) = IF 1 > Len(s) THEN 0 ELSE Len(s) - 1 + 1
    BY <1>1, FS_Interval
  <2> QED
    BY <1>1, <2>1
<1>3. Below(s, k) \subseteq DOMAIN s
  BY DEF Below
<1>4. k \notin Below(s, k)
  BY PrecedesOrder DEF Below
<1>5. /\ IsFiniteSet(Below(s, k))
      /\ Cardinality(Below(s, k)) <= Len(s)
      /\ Cardinality(Below(s, k)) # Len(s)
  BY <1>2, <1>3, <1>4, FS_Subset
<1>6. Cardinality(Below(s, k)) \in Nat
  BY <1>5, FS_CardinalityType
<1>7. Rank(s)[k] = Cardinality(Below(s, k))
  BY DEF Rank, Below
<1> QED
  BY <1>1, <1>5, <1>6, <1>7

LEMMA RankRises ==
  ASSUME NEW s \in Records, OneClause(s),
         NEW j \in DOMAIN s, NEW k \in DOMAIN s, Precedes(s, j, k)
  PROVE  Rank(s)[j] < Rank(s)[k]
<1>1. j \in Below(s, k) /\ j \notin Below(s, j)
  BY PrecedesOrder DEF Below
<1>2. Below(s, j) \subseteq Below(s, k)
  BY PrecedesOrder DEF Below
<1>3. /\ IsFiniteSet(Below(s, k))
      /\ Rank(s)[j] = Cardinality(Below(s, j)) /\ Rank(s)[j] \in Int
      /\ Rank(s)[k] = Cardinality(Below(s, k)) /\ Rank(s)[k] \in Int
  BY BelowProperties
<1>4. Cardinality(Below(s, j)) <= Cardinality(Below(s, k))
  BY <1>2, <1>3, FS_Subset
<1>5. Cardinality(Below(s, j)) # Cardinality(Below(s, k))
  BY <1>1, <1>2, <1>3, FS_Subset
<1> QED
  BY <1>3, <1>4, <1>5

(* The ranks of the entries are the numbers below the length, each once.   *)
LEMMA Ranks ==
  ASSUME NEW s \in Records, OneClause(s)
  PROVE  /\ \A k \in DOMAIN s : Rank(s)[k] \in 0 .. Len(s) - 1
         /\ \A j, k \in DOMAIN s : Rank(s)[j] = Rank(s)[k] => j = k
         /\ \A i \in 0 .. Len(s) - 1 : \E k \in DOMAIN s : Rank(s)[k] = i
<1> DEFINE N == 0 .. Len(s) - 1
<1>1. DOMAIN s = 1 .. Len(s) /\ Len(s) \in Nat /\ Len(s) - 1 \in Int
  BY DEF Records
<1>2. IsFiniteSet(DOMAIN s) /\ Cardinality(DOMAIN s) = Len(s)
  <2>1. /\ IsFiniteSet(1 .. Len(s))
        /\ Cardinality(1 .. Len(s)) = IF 1 > Len(s) THEN 0 ELSE Len(s) - 1 + 1
    BY <1>1, FS_Interval
  <2> QED
    BY <1>1, <2>1
<1>3. IsFiniteSet(N) /\ Cardinality(N) = Len(s)
  <2> DEFINE top == Len(s) - 1
  <2>1. 0 \in Int /\ top \in Int
    BY <1>1
  <2> HIDE DEF top
  <2>2. /\ IsFiniteSet(0 .. top)
        /\ Cardinality(0 .. top) = IF 0 > top THEN 0 ELSE top - 0 + 1
    BY <2>1, FS_Interval
  <2> QED
    BY <1>1, <2>2 DEF top
<1> HIDE DEF N
<1>4. \A k \in DOMAIN s : Rank(s)[k] \in N
  BY BelowProperties DEF N
<1>5. Rank(s) \in [DOMAIN s -> N]
  BY <1>4 DEF Rank
<1>6. ASSUME NEW j \in DOMAIN s, NEW k \in DOMAIN s, j # k
      PROVE  Rank(s)[j] # Rank(s)[k]
  <2>1. Rank(s)[j] < Rank(s)[k] \/ Rank(s)[k] < Rank(s)[j]
    BY <1>6, PrecedesOrder, RankRises
  <2>2. Rank(s)[j] \in Int /\ Rank(s)[k] \in Int
    BY BelowProperties
  <2> QED
    BY <2>1, <2>2
<1>7. \A j, k \in DOMAIN s : Rank(s)[j] = Rank(s)[k] => j = k
  BY <1>6
<1>8. Rank(s) \in Injection(DOMAIN s, N)
  BY <1>5, <1>7, Fun_IsInj
<1>9. Rank(s) \in Surjection(DOMAIN s, N)
  BY <1>2, <1>3, <1>8, FS_Injection
<1>10. \A i \in N : \E k \in DOMAIN s : Rank(s)[k] = i
  BY <1>9, Fun_SurjectionProperties
<1> QED
  BY <1>4, <1>7, <1>10 DEF N

(* What std::sort does to a log, without looking at how.                   *)
LEMMA SortSorts ==
  ASSUME NEW s \in Records, OneClause(s)
  PROVE  \E p : Sorts(p, s)
<1> DEFINE D == DOMAIN s
           r == Rank(s)
           p == [m \in D |-> CHOOSE k \in D : r[k] = m - 1]
<1>1. D = 1 .. Len(s) /\ Len(s) \in Nat
  BY DEF Records
<1>2. /\ \A k \in D : r[k] \in 0 .. Len(s) - 1
      /\ \A j, k \in D : r[j] = r[k] => j = k
      /\ \A i \in 0 .. Len(s) - 1 : \E k \in D : r[k] = i
  BY Ranks
<1>3. ASSUME NEW m \in D
      PROVE  p[m] \in D /\ r[p[m]] = m - 1
  <2>1. m - 1 \in 0 .. Len(s) - 1
    BY <1>1
  <2> QED
    BY <1>2, <2>1
<1>4. /\ DOMAIN sort(s) = D
      /\ \A m \in D : sort(s)[m] = s[p[m]]
  BY DEF sort
<1> HIDE DEF p, r
<1>5. p \in [D -> D]
  BY <1>3 DEF p
<1>6. \A l, m \in D : p[l] = p[m] => l = m
  BY <1>1, <1>3
<1>7. ASSUME NEW k \in D
      PROVE  \E m \in D : p[m] = k
  <2>1. r[k] + 1 \in D /\ r[k] \in Int
    BY <1>1, <1>2
  <2>2. p[r[k] + 1] \in D /\ r[p[r[k] + 1]] = r[k]
    BY <1>3, <2>1
  <2> QED
    BY <1>2, <2>1, <2>2
<1>8. p \in Bijection(D, D)
  BY <1>5, <1>6, <1>7, Fun_IsBij
<1>9. ASSUME NEW l \in D, NEW m \in D, l < m
      PROVE  s[p[l]].index <= s[p[m]].index
  <2>1. /\ p[l] \in D /\ p[m] \in D /\ r[p[l]] = l - 1 /\ r[p[m]] = m - 1
        /\ l \in Nat /\ m \in Nat
    BY <1>1, <1>3
  <2>2. ~ Precedes(s, p[m], p[l])
    <3>1. ASSUME Precedes(s, p[m], p[l])
          PROVE  FALSE
      <4>1. r[p[m]] < r[p[l]]
        BY <2>1, <3>1, RankRises DEF r
      <4> QED
        BY <1>9, <2>1, <4>1
    <3> QED
      BY <3>1
  <2>3. p[l] # p[m]
    BY <1>6, <1>9, <2>1
  <2>4. Precedes(s, p[l], p[m])
    BY <2>1, <2>2, <2>3, PrecedesOrder
  <2> QED
    BY <2>1, <2>4, PrecedesByIndex
<1>10. Sorts(p, s)
  BY <1>4, <1>8, <1>9 DEF Sorts
<1> QED
  BY <1>10

(* What check_set_euqality compares, when one record is the other in some  *)
(* other order.                                                            *)
LEMMA RearrangedEqual ==
  ASSUME NEW D, IsFiniteSet(D), NEW s, NEW r, DOMAIN s = D, DOMAIN r = D,
         NEW p \in Bijection(D, D), \A m \in D : s[m] = r[p[m]]
  PROVE  check_set_euqality(s, r)
<1>1. /\ \A m \in D : p[m] \in D
      /\ \A l, m \in D : p[l] = p[m] => l = m
      /\ \A k \in D : \E m \in D : p[m] = k
  BY Fun_BijectionProperties
<1>2. ASSUME NEW e
      PROVE  Cardinality(Occurrences(s, e)) = Cardinality(Occurrences(r, e))
  <2> DEFINE A == Occurrences(s, e)
             B == Occurrences(r, e)
             q == [m \in A |-> p[m]]
  <2>1. /\ A \subseteq D /\ B \subseteq D
        /\ \A m \in D : m \in A <=> s[m] = e
        /\ \A m \in D : m \in B <=> r[m] = e
    BY DEF Occurrences
  <2> HIDE DEF A, B
  <2>2. q \in [A -> B]
    BY <1>1, <2>1
  <2>3. \A l, m \in A : q[l] = q[m] => l = m
    BY <1>1, <2>1
  <2>4. ASSUME NEW k \in B
        PROVE  \E m \in A : q[m] = k
    <3>1. PICK m \in D : p[m] = k
      BY <1>1, <2>1
    <3>2. m \in A
      BY <2>1, <3>1
    <3> QED
      BY <3>1, <3>2
  <2>5. q \in Bijection(A, B)
    BY <2>2, <2>3, <2>4, Fun_IsBij
  <2>6. ExistsBijection(A, B)
    BY <2>5 DEF ExistsBijection
  <2>7. IsFiniteSet(A)
    BY <2>1, FS_Subset
  <2>8. Cardinality(A) = Cardinality(B)
    BY <2>6, <2>7, FS_Bijection
  <2> QED
    BY <2>8 DEF A, B
<1> QED
  BY <1>2 DEF check_set_euqality

LEMMA LogDomain ==
  ASSUME NEW r \in Records
  PROVE  /\ DOMAIN r = 1 .. Len(r) /\ Len(r) \in Nat
         /\ IsFiniteSet(DOMAIN r)
<1>1. DOMAIN r = 1 .. Len(r) /\ Len(r) \in Nat
  BY DEF Records
<1> QED
  BY <1>1, FS_Interval

(* The sorted copy, entry by entry.                                        *)
LEMMA SortedEntries ==
  ASSUME NEW c \in Records, NEW p, Sorts(p, c)
  PROVE  /\ sorted(c) = [m \in DOMAIN c |->
                           Entry(Committed(c[p[m]].index), c[p[m]].clause)]
         /\ \A m \in DOMAIN c : p[m] \in DOMAIN c
         /\ Len(sorted(c)) = Len(c)
<1>1. p \in [DOMAIN c -> DOMAIN c] /\ DOMAIN c = 1 .. Len(c) /\ Len(c) \in Nat
  BY LogDomain, Fun_BijectionProperties DEF Sorts
<1>2. DOMAIN sort(c) = 1 .. Len(c) /\ Len(sort(c)) = Len(c)
  <2>1. sort(c) = [m \in 1 .. Len(c) |-> sort(c)[m]]
    BY <1>1 DEF sort
  <2>2. sort(c) \in Seq({sort(c)[m] : m \in 1 .. Len(c)})
    BY <1>1, <2>1
  <2> QED
    BY <1>1, <2>1, <2>2
<1>3. \A m \in 1 .. Len(c) : sort(c)[m] = c[p[m]]
  BY <1>1 DEF Sorts
<1>4. sorted(c) = [m \in 1 .. Len(c) |->
                     Entry(Committed(sort(c)[m].index), sort(c)[m].clause)]
  BY <1>2 DEF sorted
<1>5. sorted(c) = [m \in DOMAIN c |->
                     Entry(Committed(c[p[m]].index), c[p[m]].clause)]
  BY <1>1, <1>3, <1>4
<1>6. Len(sorted(c)) = Len(c)
  <2>1. sorted(c) \in Seq({sorted(c)[m] : m \in 1 .. Len(c)})
    BY <1>1, <1>4
  <2> QED
    BY <1>1, <1>4, <2>1
<1> QED
  BY <1>1, <1>5, <1>6

(* The two logs of a memory are the same while an index can name each of   *)
(* its clauses.                                                            *)
LEMMA LogsEqual ==
  ASSUME TypeOK, n <= IndexRange, NEW c \in Records, NEW r \in Records,
         Reads(c), Mirrors(c, r)
  PROVE  /\ Len(c) = Len(r)
         /\ \A m \in DOMAIN c : /\ r[m] = c[m]
                                /\ Committed(c[m].index) = c[m].index
                                /\ c[m] \in Entries
<1>1. IndexRange \in Nat /\ IndexRange > 0 /\ n \in Nat
  BY ClauseRAMAssumption, MemoryType
<1>2. DOMAIN c = 1 .. Len(c) /\ DOMAIN r = 1 .. Len(r) /\ Len(c) = Len(r)
  BY LogDomain DEF Mirrors
<1>3. ASSUME NEW m \in 1 .. Len(c)
      PROVE  /\ r[m] = c[m] /\ Committed(c[m].index) = c[m].index
             /\ c[m] \in Entries
  <2> DEFINE i == c[m].index
  <2>1. c[m] \in Entries /\ r[m] \in Entries /\ i \in Nat
    BY <1>2, <1>3, EntryType
  <2>2. i < n
    BY <1>3 DEF Reads
  <2> HIDE DEF i
  <2>3. i < IndexRange /\ i < 2 * IndexRange
    BY <1>1, <2>1, <2>2
  <2>4. i % IndexRange = i /\ i % (2 * IndexRange) = i
    BY <1>1, <2>1, <2>3
  <2>5. r[m].index = c[m].index /\ r[m].clause = c[m].clause
    BY <1>2, <1>3, <2>4 DEF Mirrors, CommittedInit, i
  <2>6. r[m] = c[m]
    BY <2>1, <2>5 DEF Entries
  <2> QED
    BY <2>1, <2>4, <2>6 DEF Committed, i
<1> QED
  BY <1>2, <1>3

(* An honest prover's logs pass check().                                   *)
LEMMA HonestCheckPasses ==
  ASSUME TypeOK, n <= IndexRange, NEW c \in Records, NEW r \in Records,
         Reads(c), Mirrors(c, r), Len(r) >= BatchMin
  PROVE  CheckPasses(c, r)
<1>1. /\ Len(c) = Len(r)
      /\ \A m \in DOMAIN c : /\ r[m] = c[m]
                             /\ Committed(c[m].index) = c[m].index
                             /\ c[m] \in Entries
  BY LogsEqual
<1>2. PICK p : Sorts(p, c)
  BY SortSorts, ReadsOneClause
<1>3. /\ DOMAIN c = 1 .. Len(c) /\ DOMAIN r = DOMAIN c /\ Len(c) \in Nat
      /\ IsFiniteSet(DOMAIN c)
  BY <1>1, LogDomain
<1> DEFINE s == sorted(c)
<1>4. /\ DOMAIN s = DOMAIN c /\ Len(s) = Len(c)
      /\ \A m \in DOMAIN c : p[m] \in DOMAIN c
      /\ \A m \in DOMAIN c :
           s[m] = Entry(Committed(c[p[m]].index), c[p[m]].clause)
  BY <1>2, SortedEntries
<1> HIDE DEF s
<1>5. ASSUME NEW m \in DOMAIN c
      PROVE  s[m] = c[p[m]] /\ s[m] = r[p[m]]
  <2>1. /\ p[m] \in DOMAIN c /\ c[p[m]] \in Entries
        /\ s[m] = Entry(c[p[m]].index, c[p[m]].clause) /\ r[p[m]] = c[p[m]]
    BY <1>1, <1>4
  <2>2. Entry(c[p[m]].index, c[p[m]].clause) = c[p[m]]
    BY <2>1 DEF Entry, Entries
  <2> QED
    BY <2>1, <2>2
<1>6. Ascending(s)
  <2> SUFFICES ASSUME NEW k \in 1 .. Len(s) - 1
               PROVE  Adjacent(s[k], s[k + 1])
    BY DEF Ascending
  <2>1. k \in DOMAIN c /\ k + 1 \in DOMAIN c /\ k < k + 1
    BY <1>3, <1>4
  <2>2. /\ s[k] = c[p[k]] /\ s[k + 1] = c[p[k + 1]]
        /\ p[k] \in DOMAIN c /\ p[k + 1] \in DOMAIN c
    BY <1>4, <1>5, <2>1
  <2>3. c[p[k]].index <= c[p[k + 1]].index
    BY <1>2, <2>1 DEF Sorts
  <2>4. c[p[k]].index \in Nat /\ c[p[k + 1]].index \in Nat
    BY <1>3, <2>2, EntryType
  <2>5. c[p[k]].index = c[p[k + 1]].index
          => c[p[k]].clause = c[p[k + 1]].clause
    BY <2>2, ReadsOneClause DEF OneClause
  <2> QED
    BY <2>2, <2>3, <2>4, <2>5 DEF Adjacent
<1>7. check_set_euqality(s, r)
  BY <1>2, <1>3, <1>4, <1>5, RearrangedEqual DEF Sorts
<1>8. /\ Len(r) >= BatchMin
      /\ Ascending(sorted(c)) /\ check_set_euqality(sorted(c), r)
  BY <1>6, <1>7 DEF s
<1> QED
  BY <1>8 DEF CheckPasses

(* No logs of a memory with a clause that no index can name pass check():  *)
(* init() committed that clause's index with one bit more.                 *)
LEMMA OversizeCheckFails ==
  ASSUME TypeOK, n > IndexRange, NEW c \in Records, NEW r \in Records,
         Reads(c), Coherent(r)
  PROVE  ~ CheckPasses(c, r)
<1> DEFINE w == IndexRange
           e == r[w + 1]
           s == sorted(c)
<1>1. w \in Nat /\ w > 0 /\ n \in Nat
  BY ClauseRAMAssumption, MemoryType
<1>2. w + 1 \in 1 .. n /\ w + 1 \in DOMAIN r
  BY <1>1, LogDomain DEF Coherent
<1>3. e.index = w
  <2>1. e = Entry(CommittedInit((w + 1) - 1), clear_mem[w + 1])
    BY <1>2 DEF Coherent
  <2>2. (w + 1) - 1 = w /\ w % (2 * w) = w
    BY <1>1
  <2> QED
    BY <2>1, <2>2 DEF Entry, CommittedInit
<1>4. PICK p : Sorts(p, c)
  BY SortSorts, ReadsOneClause
<1>5. ASSUME NEW m \in DOMAIN s
      PROVE  s[m].index # w
  <2>1. /\ m \in DOMAIN c /\ p[m] \in DOMAIN c
        /\ s[m] = Entry(Committed(c[p[m]].index), c[p[m]].clause)
    BY <1>4, <1>5, SortedEntries
  <2>2. c[p[m]].index \in Nat
    BY <2>1, LogDomain, EntryType
  <2>3. c[p[m]].index % w < w /\ c[p[m]].index % w \in Nat
    BY <1>1, <2>2
  <2>4. s[m].index = c[p[m]].index % w
    BY <2>1 DEF Entry, Committed
  <2> QED
    BY <1>1, <2>3, <2>4
<1>6. Occurrences(s, e) = {}
  BY <1>3, <1>5 DEF Occurrences
<1>7. Cardinality(Occurrences(s, e)) = 0
  BY <1>6, FS_EmptySet
<1>8. w + 1 \in Occurrences(r, e)
  BY <1>2 DEF Occurrences
<1>9. IsFiniteSet(Occurrences(r, e))
  <2>1. Occurrences(r, e) \subseteq DOMAIN r
    BY DEF Occurrences
  <2> QED
    BY <2>1, LogDomain, FS_Subset
<1>10. Cardinality(Occurrences(r, e)) # 0
  BY <1>8, <1>9, FS_EmptySet
<1>11. ~ check_set_euqality(s, r)
  BY <1>2, <1>7, <1>10 DEF check_set_euqality
<1> QED
  BY <1>11 DEF CheckPasses

-----------------------------------------------------------------------------
(* What check() decides, on the logs of an honest prover.                  *)
LEMMA CheckDecides ==
  ASSUME TypeOK, ~ errored,
         NEW clear \in Records, NEW record \in Records, NEW reads,
         Coherent(record), Mirrors(clear, record), Reads(clear),
         CheckRecords(clear, record, reads)
  PROVE  /\ CheckNeverFails'
         /\ n > IndexRange => errored'
<1>1. n' = n /\ n \in Nat /\ IndexRange \in Nat
  BY MemoryType, ClauseRAMAssumption DEF CheckRecords, n
<1>2. ASSUME BatchMin <= n, n <= IndexRange
      PROVE  ~ errored'
  <2>1. Len(record) \in Nat /\ Len(record) >= n
    BY LogDomain DEF Coherent
  <2>2. Len(record) >= BatchMin
    BY <1>1, <1>2, <2>1 DEF BatchMin
  <2>3. CheckPasses(clear, record)
    BY <1>2, <2>2, HonestCheckPasses
  <2> QED
    BY <2>3 DEF CheckRecords
<1>3. ASSUME n > IndexRange
      PROVE  errored'
  <2>1. ~ CheckPasses(clear, record)
    BY <1>3, OversizeCheckFails
  <2> QED
    BY <2>1 DEF CheckRecords
<1> QED
  BY <1>1, <1>2, <1>3 DEF CheckNeverFails

LEMMA CheckStep ==
  ASSUME IInv, Check
  PROVE  /\ CheckNeverFails'
         /\ n > IndexRange => errored'
<1>1. /\ TypeOK /\ ~ errored
      /\ clear_access_record \in Records /\ access_record \in Records
      /\ Reads(clear_access_record)
      /\ CheckRecords(clear_access_record, access_record, step)
  BY DEF Check, check, IInv, TypeOK
<1> QED
  BY <1>1, LogsOfState, CheckDecides

LEMMA GetStep ==
  ASSUME IInv, NEW v \in 0 .. n - 1, get(Committed(v))
  PROVE  /\ CheckNeverFails'
         /\ n > IndexRange /\ step' < step => errored'
<1> DEFINE clear  == ClearAfter(v)
           record == RecordAfter(v)
<1>1. TypeOK /\ ~ errored /\ step \in Nat
  BY DEF IInv, TypeOK, get
<1>2. /\ clear \in Records /\ record \in Records
      /\ Coherent(record) /\ Mirrors(clear, record) /\ Reads(clear)
  BY <1>1, GetLogs
<1>3. CASE step + 1 = 2 * n
  <2>1. CheckRecords(clear, record, step + 1)
    BY <1>3 DEF get, ClearAfter, RecordAfter, ReadEntry
  <2> QED
    BY <1>1, <1>2, <2>1, CheckDecides
<1>4. CASE step + 1 # 2 * n
  <2>1. step' = step + 1 /\ errored' = errored
    BY <1>4 DEF get
  <2> QED
    BY <1>1, <2>1 DEF CheckNeverFails
<1> QED
  BY <1>3, <1>4

LEMMA NeverFailsStep ==
  ASSUME IInv, CheckNeverFails, [Next]_vars
  PROVE  CheckNeverFails'
<1>1. CASE Load
  <2>1. errored' = FALSE
    BY <1>1 DEF Load, init, IInv, TypeOK
  <2> QED
    BY <2>1 DEF CheckNeverFails
<1>2. CASE Get
  BY <1>2, GetStep DEF Get
<1>3. CASE Check
  BY <1>3, CheckStep
<1>4. CASE UNCHANGED vars
  BY <1>4 DEF vars, CheckNeverFails, n
<1> QED
  BY <1>1, <1>2, <1>3, <1>4 DEF Next

(* An honest prover passes every check, the automatic ones in get() and    *)
(* the final one, whatever it reads and however often: the sorted copy is  *)
(* ascending with one clause per index, and has the entries of the log.    *)
THEOREM HonestChecksPass == Spec => []CheckNeverFails
<1>1. Init => CheckNeverFails
  BY DEF Init, Fresh, CheckNeverFails
<1>2. IInv /\ CheckNeverFails /\ [Next]_vars => CheckNeverFails'
  BY NeverFailsStep
<1> QED
  BY <1>1, <1>2, InitInvariant, StepInvariant, PTL DEF Spec

(* A memory of more clauses than an index can name never passes a check,   *)
(* neither an automatic one nor the final one.                             *)
THEOREM OversizeNeverPasses == Spec => OversizeRejected
<1>1. ASSUME IInv, [Next]_vars, n > IndexRange, Check \/ step' < step
      PROVE  errored'
  <2>1. step \in Nat
    BY <1>1 DEF IInv, TypeOK
  <2>2. CASE Check
    BY <1>1, <2>2, CheckStep
  <2>3. CASE Get /\ step' < step
    BY <1>1, <2>3, GetStep DEF Get
  <2>4. CASE (Load \/ UNCHANGED vars) /\ step' < step
    BY <2>1, <2>4 DEF Load, init, vars
  <2> QED
    BY <1>1, <2>2, <2>3, <2>4 DEF Next
<1>2. IInv /\ [Next]_vars
        => [n > IndexRange /\ (Check \/ step' < step) => errored']_vars
  BY <1>1
<1> QED
  BY <1>2, InitInvariant, StepInvariant, PTL DEF Spec, OversizeRejected
=============================================================================
