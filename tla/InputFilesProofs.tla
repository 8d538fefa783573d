-------------------------- MODULE InputFilesProofs ---------------------------
(***************************************************************************)
(* Theorems about module InputFiles, for info files of any length and      *)
(* contents, proof files of any number of items of any width, cut or       *)
(* broken at any word, and every reading of numbers.                       *)
(***************************************************************************)
EXTENDS InputFiles, FiniteSetTheorems, WellFoundedInduction, TLAPS

LEMMA LeastNumber ==
  ASSUME NEW T \in SUBSET Nat, T # {}
  PROVE  \E m \in T : \A n \in T : m <= n
<1> DEFINE R == OpToRel(<, Nat)
<1>1. IsWellFoundedOn(R, Nat)
  BY NatLessThanWellFounded
<1>2. R = {ss \in Nat \X Nat : ss[1] < ss[2]}
  BY DEF OpToRel
<1> HIDE DEF R
<1>3. PICK m \in T : \A n \in T : ~ (<<n, m>> \in R)
  BY <1>1, WFMin, T \subseteq Nat
<1>4. ASSUME NEW n \in T PROVE m <= n
  <2>1. ~ (<<n, m>> \in R)
    BY <1>3
  <2>2. ~ (n < m)
    BY <1>2, <2>1
  <2> QED
    BY <2>2
<1> QED
  BY <1>4

-----------------------------------------------------------------------------
(* FlattenSeq adds one sequence after the other.                           *)
Flattens(f, n, seqs) ==
  f = [i \in 1 .. n |-> IF i = 1 THEN seqs[i] ELSE f[i - 1] \o seqs[i]]

LEMMA FlattenExists ==
  ASSUME NEW S, NEW seqs \in Seq(Seq(S)), NEW n \in 1 .. Len(seqs)
  PROVE  \E f : Flattens(f, n, seqs)
<1> DEFINE T == {m \in 1 .. Len(seqs) : ~ \E f : Flattens(f, m, seqs)}
<1> SUFFICES ASSUME T # {} PROVE FALSE
  OBVIOUS
<1>1. PICK m \in T : \A j \in T : m <= j
  BY LeastNumber, T \in SUBSET Nat
<1>2. CASE m = 1
  <2> DEFINE f == [i \in 1 .. 1 |-> seqs[1]]
  <2>1. Flattens(f, 1, seqs)
    BY DEF Flattens
  <2> QED
    BY <1>2, <2>1
<1>3. CASE m # 1
  <2>1. m \in Nat /\ m - 1 \in 1 .. Len(seqs) /\ m \in 1 .. Len(seqs)
    BY <1>3
  <2> HIDE DEF T
  <2>0. m - 1 \notin T
    <3>1. ~ (m <= m - 1)
      BY <2>1
    <3> QED
      BY <1>1, <3>1
  <2> USE DEF T
  <2>2. PICK f : Flattens(f, m - 1, seqs)
    BY <2>0, <2>1
  <2> DEFINE g == [i \in 1 .. m |->
                     IF i = m THEN f[m - 1] \o seqs[m] ELSE f[i]]
  <2>3. ASSUME NEW i \in 1 .. m
        PROVE  g[i] = IF i = 1 THEN seqs[i] ELSE g[i - 1] \o seqs[i]
    <3>1. CASE i = m
      <4>1. m - 1 \in 1 .. m /\ m - 1 # m /\ m \in 1 .. m
        BY <2>1
      <4>2. g[m - 1] = f[m - 1] /\ g[m] = f[m - 1] \o seqs[m]
        BY <4>1
      <4> HIDE DEF g
      <4> QED
        BY <1>3, <3>1, <4>2
    <3>2. CASE i # m
      <4>1. i \in 1 .. m - 1
        BY <2>1, <3>2
      <4>2. f[i] = IF i = 1 THEN seqs[i] ELSE f[i - 1] \o seqs[i]
        BY <2>2, <4>1 DEF Flattens
      <4>3. g[i] = f[i]
        BY <3>2
      <4>4. i # 1 => i - 1 \in 1 .. m /\ i - 1 # m
        BY <2>1, <4>1
      <4>5. i # 1 => g[i - 1] = f[i - 1]
        BY <4>4
      <4> HIDE DEF g
      <4> QED
        BY <4>2, <4>3, <4>5
    <3> QED
      BY <3>1, <3>2
  <2>4. g = [i \in 1 .. m |-> g[i]]
    OBVIOUS
  <2> HIDE DEF g
  <2>5. Flattens(g, m, seqs)
    BY <2>3, <2>4 DEF Flattens
  <2> QED
    BY <2>5
<1> QED
  BY <1>2, <1>3

LEMMA FlattenSteps ==
  ASSUME NEW S, NEW seqs \in Seq(Seq(S)), seqs # <<>>
  PROVE  \E f : Flattens(f, Len(seqs), seqs) /\ FlattenSeq(seqs) = f[Len(seqs)]
<1> DEFINE flatten == CHOOSE f : Flattens(f, Len(seqs), seqs)
<1>1. Len(seqs) \in 1 .. Len(seqs)
  OBVIOUS
<1>2. Flattens(flatten, Len(seqs), seqs)
  BY <1>1, FlattenExists
<1>3. FlattenSeq(seqs) = flatten[Len(seqs)]
  BY <1>1 DEF FlattenSeq, Flattens
<1> QED
  BY <1>2, <1>3

-----------------------------------------------------------------------------
(* The witness words of each line, and those of the first n lines.         *)
Witnesses == [m \in DOMAIN file |-> Witness(file[m])]

UpTo(n) ==
  IF n = 0 THEN <<>> ELSE (CHOOSE f : /\ Flattens(f, Len(file), Witnesses)
                                      /\ Words = f[Len(file)])[n]

LEMMA WitnessType ==
  ASSUME NEW l \in Seq(STRING)
  PROVE  Witness(l) \in Seq(STRING)
<1>1. CASE Key(l) = "c1_sat:"
  <2>1. l # <<>>
    BY <1>1 DEF Key
  <2>2. Tail(l) \in Seq(STRING)
    BY <2>1
  <2> QED
    BY <1>1, <2>2 DEF Witness
<1>2. CASE Key(l) # "c1_sat:"
  <2>1. <<>> \in Seq(STRING)
    OBVIOUS
  <2> QED
    BY <1>2, <2>1 DEF Witness
<1> QED
  BY <1>1, <1>2

LEMMA LineWitness ==
  ASSUME file \in Seq(Seq(STRING)), NEW m \in 1 .. Len(file)
  PROVE  Witness(file[m]) \in Seq(STRING)
<1>1. file[m] \in Seq(STRING)
  OBVIOUS
<1> QED
  BY <1>1, WitnessType

LEMMA UpToSteps ==
  ASSUME file \in Seq(Seq(STRING))
  PROVE  /\ Words = UpTo(Len(file))
         /\ UpTo(0) = <<>>
         /\ \A n \in 1 .. Len(file) :
              UpTo(n) = IF n = 1 THEN Witness(file[1])
                        ELSE UpTo(n - 1) \o Witness(file[n])
<1> DEFINE W == Witnesses
<1>1. W \in Seq(Seq(STRING)) /\ Len(W) = Len(file)
  <2>1. W = [m \in 1 .. Len(file) |-> Witness(file[m])]
        /\ Len(file) \in Nat
    BY DEF Witnesses
  <2>2. \A m \in 1 .. Len(file) : Witness(file[m]) \in Seq(STRING)
    BY LineWitness
  <2> HIDE DEF W
  <2> QED
    BY <2>1, <2>2
<1>2. \A m \in 1 .. Len(file) : W[m] = Witness(file[m])
  BY DEF Witnesses
<1>3. Words = FlattenSeq(W)
  BY DEF Words, Witnesses
<1>4. UpTo(0) = <<>>
  BY DEF UpTo
<1> HIDE DEF W
<1>5. CASE file = <<>>
  <2>1. Len(file) = 0 /\ Len(W) = 0 /\ W = <<>>
    BY <1>1, <1>5
  <2>2. FlattenSeq(W) = <<>>
    BY <2>1 DEF FlattenSeq
  <2> QED
    BY <1>3, <1>4, <2>1, <2>2
<1>6. CASE file # <<>>
  <2>1. W # <<>> /\ Len(file) \in Nat /\ Len(file) > 0
    BY <1>1, <1>6
  <2> DEFINE f == CHOOSE g : /\ Flattens(g, Len(file), W)
                             /\ Words = g[Len(file)]
  <2>2. \E g : Flattens(g, Len(file), W) /\ Words = g[Len(file)]
    BY <1>1, <1>3, <2>1, FlattenSteps
  <2>3. Flattens(f, Len(file), W) /\ Words = f[Len(file)]
    BY <2>2
  <2>4. \A n : n # 0 => UpTo(n) = f[n]
    BY DEF UpTo, W
  <2> HIDE DEF f
  <2>5. ASSUME NEW n \in 1 .. Len(file)
        PROVE  f[n] = IF n = 1 THEN W[n] ELSE f[n - 1] \o W[n]
    BY <2>3 DEF Flattens
  <2>6. ASSUME NEW n \in 1 .. Len(file)
        PROVE  UpTo(n) = IF n = 1 THEN Witness(file[1])
                         ELSE UpTo(n - 1) \o Witness(file[n])
    <3>1. CASE n = 1
      <4>1. 1 \in 1 .. Len(file) /\ 1 # 0
        BY <3>1
      <4>2. UpTo(1) = f[1] /\ f[1] = W[1] /\ W[1] = Witness(file[1])
        BY <1>2, <2>4, <2>5, <4>1
      <4> QED
        BY <3>1, <4>2
    <3>2. CASE n # 1
      <4>1. n - 1 # 0 /\ n # 0
        BY <3>2
      <4> QED
        BY <1>2, <2>4, <2>5, <3>2, <4>1
    <3> QED
      BY <3>1, <3>2
  <2>7. Words = UpTo(Len(file))
    BY <2>1, <2>3, <2>4
  <2> QED
    BY <1>4, <2>6, <2>7
<1> QED
  BY <1>5, <1>6

(* The words of the first n lines contain those of each of them.           *)
Includes(n) ==
  \A m \in 1 .. n : \A j \in DOMAIN Witness(file[m]) :
    \E l \in DOMAIN UpTo(n) : UpTo(n)[l] = Witness(file[m])[j]

LEMMA UpToNext ==
  ASSUME file \in Seq(Seq(STRING)), NEW n \in 1 .. Len(file),
         UpTo(n - 1) \in Seq(STRING), Includes(n - 1)
  PROVE  /\ UpTo(n) = UpTo(n - 1) \o Witness(file[n])
         /\ UpTo(n) \in Seq(STRING)
         /\ Includes(n)
<1> DEFINE u == UpTo(n - 1)
           w == Witness(file[n])
<1>1. u \in Seq(STRING) /\ w \in Seq(STRING)
  BY LineWitness
<1>2. UpTo(n) = u \o w
  <2>1. CASE n = 1
    <3>1. u = <<>> /\ UpTo(n) = w
      BY <2>1, UpToSteps
    <3> HIDE DEF u, w
    <3> QED
      BY <1>1, <3>1
  <2>2. CASE n # 1
    BY <2>2, UpToSteps
  <2> QED
    BY <2>1, <2>2
<1> HIDE DEF u, w
<1>3. /\ u \o w \in Seq(STRING)
      /\ DOMAIN (u \o w) = 1 .. Len(u) + Len(w)
      /\ \A l \in DOMAIN u : l \in DOMAIN (u \o w) /\ (u \o w)[l] = u[l]
      /\ \A j \in DOMAIN w : /\ Len(u) + j \in DOMAIN (u \o w)
                             /\ (u \o w)[Len(u) + j] = w[j]
  BY <1>1
<1>4. ASSUME NEW m \in 1 .. n, NEW j \in DOMAIN Witness(file[m])
      PROVE  \E l \in DOMAIN UpTo(n) : UpTo(n)[l] = Witness(file[m])[j]
  <2>1. CASE m = n
    BY <1>2, <1>3, <2>1 DEF w
  <2>2. CASE m # n
    <3>1. m \in 1 .. n - 1
      BY <2>2
    <3>2. PICK l \in DOMAIN u : u[l] = Witness(file[m])[j]
      BY <3>1 DEF Includes, u
    <3> QED
      BY <1>2, <1>3, <3>2
  <2> QED
    BY <2>1, <2>2
<1>5. Includes(n)
  BY <1>4 DEF Includes
<1> QED
  BY <1>2, <1>3, <1>5 DEF u, w

LEMMA UpToType ==
  ASSUME file \in Seq(Seq(STRING)), NEW n \in 0 .. Len(file)
  PROVE  UpTo(n) \in Seq(STRING) /\ Includes(n)
<1> DEFINE T == {m \in 0 .. Len(file) :
                   ~ (UpTo(m) \in Seq(STRING) /\ Includes(m))}
<1> SUFFICES ASSUME T # {} PROVE FALSE
  OBVIOUS
<1>1. PICK m \in T : \A j \in T : m <= j
  BY LeastNumber, T \in SUBSET Nat
<1>2. CASE m = 0
  <2>1. UpTo(0) \in Seq(STRING)
    <3>1. <<>> \in Seq(STRING)
      OBVIOUS
    <3> QED
      BY <3>1, UpToSteps
  <2>2. Includes(0)
    BY DEF Includes
  <2> QED
    BY <1>2, <2>1, <2>2
<1>3. CASE m # 0
  <2>1. m \in 1 .. Len(file) /\ m - 1 \in 0 .. Len(file)
    BY <1>3
  <2>2. m - 1 \notin T
    <3>1. ~ (m <= m - 1)
      BY <2>1
    <3> HIDE DEF T
    <3> QED
      BY <1>1, <3>1
  <2>3. UpTo(m - 1) \in Seq(STRING) /\ Includes(m - 1)
    BY <2>1, <2>2
  <2>4. UpTo(m) \in Seq(STRING) /\ Includes(m)
    BY <2>1, <2>3, UpToNext
  <2> QED
    BY <2>4
<1> QED
  BY <1>2, <1>3

LEMMA NextLineWords ==
  ASSUME file \in Seq(Seq(STRING)), NEW n \in 0 .. Len(file) - 1
  PROVE  Len(UpTo(n + 1)) = Len(UpTo(n)) + Len(Witness(file[n + 1]))
<1>1. n + 1 \in 1 .. Len(file) /\ n + 1 - 1 = n /\ n \in 0 .. Len(file)
  OBVIOUS
<1>2. UpTo(n) \in Seq(STRING) /\ Witness(file[n + 1]) \in Seq(STRING)
  BY <1>1, UpToType, LineWitness
<1>3. UpTo(n + 1) = UpTo(n) \o Witness(file[n + 1])
  BY <1>1, UpToType, UpToNext
<1> QED
  BY <1>2, <1>3

-----------------------------------------------------------------------------
(* A line that does not end the party that reads it.                       *)
Readable(p, l) ==
  /\ Key(l) \in Keys => Value(l) \in DOMAIN Number
  /\ Converts(p) => Numeric(Witness(l))

(* v is what the last line of keyword k among the first n says.            *)
LastSays(k, n, v) ==
  \/ /\ \A m \in 1 .. n : Key(file[m]) # k
     /\ v = 0
  \/ \E m \in 1 .. n :
       /\ Key(file[m]) = k
       /\ \A j \in m + 1 .. n : Key(file[j]) # k
       /\ v = Number[Value(file[m])]

Types ==
  /\ file \in Seq(Seq(STRING))
  /\ read \in [Parties -> 0 .. Len(file)]
  /\ DOMAIN field = Parties
  /\ \A p \in Parties : DOMAIN field[p] = Keys
  /\ assignment \in [Parties -> Seq(Int)]
  /\ pc \in [Parties -> {"lines", "done", "failed"}]

(* What a party has made of the lines it has read, none of which ended it. *)
Progress(p) ==
  /\ \A m \in 1 .. read[p] : Readable(p, file[m])
  /\ \A k \in Keys : LastSays(k, read[p], field[p][k])
  /\ Len(assignment[p]) = Len(UpTo(read[p]))
  /\ pc[p] = "done" => read[p] = Len(file)
  /\ pc[p] = "failed" =>
       read[p] < Len(file) /\ ~ Readable(p, file[read[p] + 1])

IInv == Types /\ \A p \in Parties : Progress(p)

LEMMA InitIInv == Init => IInv
<1> SUFFICES ASSUME Init PROVE IInv
  OBVIOUS
<1>1. file \in Seq(Seq(STRING))
  BY InfoFileAssumption DEF Init
<1>2. Types
  BY <1>1 DEF Init, Types
<1>3. ASSUME NEW p \in Parties PROVE Progress(p)
  <2>1. read[p] = 0 /\ assignment[p] = <<>> /\ pc[p] = "lines"
        /\ \A k \in Keys : field[p][k] = 0
    BY DEF Init
  <2>2. UpTo(0) = <<>>
    BY <1>1, UpToSteps
  <2> QED
    BY <2>1, <2>2 DEF Progress, LastSays
<1> QED
  BY <1>2, <1>3 DEF IInv

(* A step of one party leaves what the other has done.                     *)
LEMMA OtherParty ==
  ASSUME IInv, Types', NEW p \in Parties, NEW q \in Parties, p # q,
         file' = file, read'[q] = read[q], field'[q] = field[q],
         assignment'[q] = assignment[q], pc'[q] = pc[q]
  PROVE  Progress(q)'
<1>1. UpTo(read[q])' = UpTo(read[q])
  BY DEF UpTo, Words, Witnesses
<1> QED
  BY <1>1 DEF IInv, Progress, LastSays

(* What a party that has taken one more line must show.                    *)
LEMMA LineTaken ==
  ASSUME IInv, NEW p \in Parties, Reading(p), Types',
         UNCHANGED <<file, pc>>, read'[p] = read[p] + 1,
         Readable(p, Line(p)),
         \A k \in Keys :
           IF Key(Line(p)) = k THEN field'[p][k] = Number[Value(Line(p))]
           ELSE field'[p][k] = field[p][k],
         Len(assignment'[p]) = Len(assignment[p]) + Len(Witness(Line(p)))
  PROVE  Progress(p)'
<1> DEFINE n == read[p]
<1>1. n \in 0 .. Len(file) - 1 /\ pc[p] = "lines" /\ Line(p) = file[n + 1]
      /\ n \in Nat
  BY DEF IInv, Types, Reading, Line
<1>2. Progress(p) /\ file \in Seq(Seq(STRING))
  BY DEF IInv, Types
<1>3. \A m \in 1 .. n + 1 : Readable(p, file[m])
  <2> SUFFICES ASSUME NEW m \in 1 .. n + 1 PROVE Readable(p, file[m])
    OBVIOUS
  <2>1. m = n + 1 \/ m \in 1 .. n
    BY <1>1
  <2> QED
    BY <1>1, <1>2, <2>1 DEF Progress
<1>4. ASSUME NEW k \in Keys PROVE LastSays(k, n + 1, field'[p][k])
  <2>1. LastSays(k, n, field[p][k])
    BY <1>2 DEF Progress
  <2>2. CASE Key(file[n + 1]) = k
    <3>1. field'[p][k] = Number[Value(file[n + 1])]
      BY <1>1, <2>2
    <3>2. n + 1 \in 1 .. n + 1 /\ \A j \in n + 1 + 1 .. n + 1 : FALSE
      BY <1>1
    <3> QED
      BY <2>2, <3>1, <3>2 DEF LastSays
  <2>3. CASE Key(file[n + 1]) # k
    <3>1. field'[p][k] = field[p][k]
      BY <1>1, <2>3
    <3>2. \A m \in Nat : \A j \in m .. n + 1 : j \in m .. n \/ j = n + 1
      BY <1>1
    <3>3. \A m \in 1 .. n : m \in 1 .. n + 1 /\ m + 1 \in Nat
      BY <1>1
    <3> HIDE DEF n
    <3> QED
      BY <2>1, <2>3, <3>1, <3>2, <3>3 DEF LastSays
  <2> QED
    BY <2>2, <2>3
<1>5. Len(assignment'[p]) = Len(UpTo(n + 1))
  BY <1>1, <1>2, NextLineWords DEF Progress
<1>6. read'[p] = n + 1 /\ pc'[p] = "lines" /\ file' = file
  BY <1>1
<1>7. UpTo(read[p])' = UpTo(n + 1)
  BY <1>6 DEF UpTo, Words, Witnesses
<1>8. \A k \in Keys : LastSays(k, read[p], field[p][k])'
  BY <1>4, <1>6 DEF LastSays
<1>9. \A m \in 1 .. read'[p] : Readable(p, file'[m])
  BY <1>3, <1>6
<1> QED
  BY <1>5, <1>6, <1>7, <1>8, <1>9 DEF Progress

LEMMA Concatenated ==
  ASSUME NEW S, NEW a \in Seq(S), NEW b \in Seq(S)
  PROVE  /\ a \o b \in Seq(S)
         /\ Len(a \o b) = Len(a) + Len(b)
         /\ \A i \in 1 .. Len(a) : (a \o b)[i] = a[i]
         /\ \A i \in 1 .. Len(b) : (a \o b)[Len(a) + i] = b[i]
OBVIOUS

LEMMA ReadFieldStep ==
  ASSUME IInv, NEW p \in Parties, ReadField(p)
  PROVE  IInv'
<1> DEFINE l == Line(p)
<1>1. /\ Reading(p) /\ Key(l) \in Keys /\ Value(l) \in DOMAIN Number
      /\ UNCHANGED <<file, assignment, pc>>
      /\ read' = [read EXCEPT ![p] = @ + 1]
      /\ field' = [field EXCEPT ![p][Key(l)] = Number[Value(l)]]
  BY DEF ReadField
<1>2. /\ Types
      /\ read[p] \in 0 .. Len(file) /\ read[p] < Len(file)
      /\ p \in DOMAIN field /\ DOMAIN field[p] = Keys
      /\ Len(assignment[p]) \in Nat
  BY <1>1 DEF IInv, Types, Reading
<1>3. Types'
  BY <1>1, <1>2 DEF Types
<1>4. Key(l) # "c1_sat:"
  BY <1>1 DEF Keys
<1>5. Witness(l) = <<>>
  BY <1>4 DEF Witness
<1>6. Readable(p, l)
  BY <1>1, <1>5 DEF Readable, Numeric
<1>7. read'[p] = read[p] + 1
  BY <1>1, <1>2 DEF Types
<1>8. \A k \in Keys : IF Key(l) = k THEN field'[p][k] = Number[Value(l)]
                      ELSE field'[p][k] = field[p][k]
  BY <1>1, <1>2
<1>9. Len(assignment'[p]) = Len(assignment[p]) + Len(Witness(l))
  BY <1>1, <1>2, <1>5
<1>10. Progress(p)'
  <2> HIDE DEF l
  <2> QED
    BY <1>1, <1>3, <1>6, <1>7, <1>8, <1>9, LineTaken DEF l
<1>11. ASSUME NEW q \in Parties, p # q PROVE Progress(q)'
  BY <1>1, <1>2, <1>3, <1>11, OtherParty DEF Types
<1> QED
  BY <1>3, <1>10, <1>11 DEF IInv

LEMMA ReadWitnessStep ==
  ASSUME IInv, NEW p \in Parties, ReadWitness(p)
  PROVE  IInv'
<1> DEFINE l == Line(p)
           c == Converted(p, Witness(l))
<1>1. /\ Reading(p) /\ Key(l) \notin Keys
      /\ Converts(p) => Numeric(Witness(l))
      /\ UNCHANGED <<file, field, pc>>
      /\ read' = [read EXCEPT ![p] = @ + 1]
      /\ assignment' = [assignment EXCEPT ![p] = @ \o c]
  BY DEF ReadWitness
<1>2. /\ Types
      /\ read[p] \in 0 .. Len(file) /\ read[p] < Len(file)
      /\ assignment[p] \in Seq(Int)
  BY <1>1 DEF IInv, Types, Reading
<1>3. Witness(l) \in Seq(STRING)
  <2>1. read[p] + 1 \in 1 .. Len(file) /\ file \in Seq(Seq(STRING))
    BY <1>2 DEF Types
  <2> QED
    BY <2>1, LineWitness DEF Line
<1>4. c \in Seq(Int) /\ Len(c) = Len(Witness(l))
  <2>1. /\ DOMAIN Witness(l) = 1 .. Len(Witness(l))
        /\ Len(Witness(l)) \in Nat
    BY <1>3
  <2>2. \A m \in DOMAIN Witness(l) :
          (IF Converts(p) THEN Number[Witness(l)[m]] ELSE 0) \in Int
    <3>1. Number \in [DOMAIN Number -> Int]
      BY InfoFileAssumption
    <3>2. \A w \in DOMAIN Number : Number[w] \in Int
      BY <3>1
    <3>3. Converts(p) =>
            \A m \in DOMAIN Witness(l) : Witness(l)[m] \in DOMAIN Number
      BY <1>1 DEF Numeric
    <3> QED
      BY <3>2, <3>3
  <2> QED
    BY <2>1, <2>2 DEF Converted
<1>5. Readable(p, l)
  BY <1>1 DEF Readable
<1> HIDE DEF c
<1>6. /\ assignment[p] \o c \in Seq(Int)
      /\ Len(assignment[p] \o c) = Len(assignment[p]) + Len(c)
  <2> DEFINE u == assignment[p]
  <2>1. u \in Seq(Int) /\ c \in Seq(Int)
    BY <1>2, <1>4
  <2> HIDE DEF u
  <2>2. u \o c \in Seq(Int) /\ Len(u \o c) = Len(u) + Len(c)
    BY <2>1, Concatenated
  <2> QED
    BY <2>2 DEF u
<1>7. Types'
  BY <1>1, <1>2, <1>6 DEF Types
<1>8. /\ read'[p] = read[p] + 1
      /\ Len(assignment'[p]) = Len(assignment[p]) + Len(Witness(l))
  BY <1>1, <1>2, <1>4, <1>6 DEF Types
<1>9. Progress(p)'
  <2>1. \A k \in Keys : Key(l) # k /\ field'[p][k] = field[p][k]
    BY <1>1
  <2> HIDE DEF l
  <2> QED
    BY <1>1, <1>5, <1>7, <1>8, <2>1, LineTaken DEF l
<1>10. ASSUME NEW q \in Parties, p # q PROVE Progress(q)'
  BY <1>1, <1>2, <1>7, <1>10, OtherParty DEF Types
<1> QED
  BY <1>7, <1>9, <1>10 DEF IInv

(* A step that ends a party keeps what it has read.                        *)
LEMMA PartyStops ==
  ASSUME IInv, NEW p \in Parties, NEW out \in {"done", "failed"},
         pc' = [pc EXCEPT ![p] = out],
         UNCHANGED <<file, read, field, assignment>>,
         out = "done" => read[p] = Len(file),
         out = "failed" =>
           read[p] < Len(file) /\ ~ Readable(p, file[read[p] + 1])
  PROVE  IInv'
<1>1. Types /\ Types'
  BY DEF IInv, Types
<1>2. UpTo(read[p])' = UpTo(read[p])
  BY DEF UpTo, Words, Witnesses
<1>3. pc'[p] = out
  BY <1>1 DEF Types
<1>4. Progress(p)'
  BY <1>2, <1>3 DEF IInv, Progress, LastSays
<1>5. ASSUME NEW q \in Parties, p # q PROVE Progress(q)'
  BY <1>1, <1>5, OtherParty DEF Types
<1> QED
  BY <1>1, <1>4, <1>5 DEF IInv

LEMMA StepIInv == IInv /\ [Next]_vars => IInv'
<1> SUFFICES ASSUME IInv, [Next]_vars PROVE IInv'
  OBVIOUS
<1>1. ASSUME NEW p \in Parties, Throw(p) PROVE IInv'
  <2>1. read[p] < Len(file) /\ ~ Readable(p, file[read[p] + 1])
    BY <1>1 DEF Throw, Reading, Readable, Line
  <2> QED
    BY <1>1, <2>1, PartyStops DEF Throw
<1>2. ASSUME NEW p \in Parties, EndOfFile(p) PROVE IInv'
  BY <1>2, PartyStops DEF EndOfFile
<1>3. CASE UNCHANGED vars
  <2>1. \A n : UpTo(n)' = UpTo(n)
    BY <1>3 DEF UpTo, Words, Witnesses, vars
  <2> QED
    BY <1>3, <2>1 DEF IInv, Types, Progress, LastSays, vars
<1> QED
  BY <1>1, <1>2, <1>3, ReadFieldStep, ReadWitnessStep DEF Next, Step

-----------------------------------------------------------------------------
LEMMA LastSaysLastLine ==
  ASSUME file \in Seq(Seq(STRING)), NEW k \in Keys, NEW v,
         \A m \in 1 .. Len(file) :
           Key(file[m]) \in Keys => Value(file[m]) \in DOMAIN Number,
         LastSays(k, Len(file), v)
  PROVE  v = LastLine(k)
<1> DEFINE ms == {m \in DOMAIN file : Key(file[m]) = k}
<1>1. DOMAIN file = 1 .. Len(file) /\ Len(file) \in Nat
  OBVIOUS
<1>2. CASE ms = {}
  BY <1>1, <1>2 DEF LastSays, LastLine
<1>3. CASE ms # {}
  <2>1. PICK m \in 1 .. Len(file) :
          /\ Key(file[m]) = k
          /\ \A j \in m + 1 .. Len(file) : Key(file[j]) # k
          /\ v = Number[Value(file[m])]
    BY <1>1, <1>3 DEF LastSays
  <2>2. m \in ms /\ \A j \in ms : m >= j
    BY <1>1, <2>1
  <2>3. \A j \in ms : j \in Nat
    BY <1>1
  <2> HIDE DEF ms
  <2>4. Max(ms) = m
    <3> DEFINE x == Max(ms)
    <3>1. x \in ms /\ \A j \in ms : x >= j
      BY <2>2 DEF Max
    <3> HIDE DEF x
    <3>2. x \in Nat /\ m \in Nat /\ x >= m /\ m >= x
      BY <2>2, <2>3, <3>1
    <3>3. x = m
      BY <3>2
    <3> QED
      BY <3>3 DEF x
  <2>5. Value(file[m]) \in DOMAIN Number /\ k \notin DOMAIN Number
    BY <2>1, InfoFileAssumption
  <2>6. Value(file[m]) = file[m][2]
    BY <2>1, <2>5 DEF Value
  <2> QED
    BY <1>3, <2>1, <2>4, <2>6 DEF LastLine, ms
<1> QED
  BY <1>2, <1>3

LEMMA InvAgrees ==
  ASSUME IInv
  PROVE  PartiesAgree
<1>1. file \in Seq(Seq(STRING)) /\ Len(file) \in Nat
  BY DEF IInv, Types
<1>2. ASSUME NEW p \in Parties, pc[p] = "done"
      PROVE  /\ Output(field[p]) = Output([k \in Keys |-> LastLine(k)])
             /\ Len(assignment[p]) = Len(Words)
  <2>1. read[p] = Len(file)
    BY <1>2 DEF IInv, Progress
  <2>2. \A m \in 1 .. Len(file) :
          Key(file[m]) \in Keys => Value(file[m]) \in DOMAIN Number
    BY <2>1 DEF IInv, Progress, Readable
  <2>3. \A k \in Keys : field[p][k] = LastLine(k)
    BY <1>1, <2>1, <2>2, LastSaysLastLine DEF IInv, Progress
  <2>4. {"input_lit:", "c1_lit:", "c2_lit:", "miter_lit:", "c1_cls:"}
          \subseteq Keys
    BY DEF Keys
  <2>5. Output(field[p]) = Output([k \in Keys |-> LastLine(k)])
    BY <2>3, <2>4 DEF Output
  <2>6. Len(assignment[p]) = Len(Words)
    BY <1>1, <2>1, UpToSteps DEF IInv, Progress
  <2> QED
    BY <2>5, <2>6
<1>3. ASSUME \A p \in Parties : pc[p] # "lines", pc[ALICE] # pc[BOB]
      PROVE  pc[ALICE] = "failed" /\ ~ Numeric(Words)
  <2>1. /\ ALICE \in Parties /\ BOB \in Parties /\ ALICE # BOB
        /\ \A p \in Parties : pc[p] \in {"done", "failed"}
    BY <1>3, InfoFileAssumption DEF IInv, Types, Parties
  <2>2. read[ALICE] \in Nat /\ read[BOB] \in Nat
    BY <2>1 DEF IInv, Types
  <2>3. ASSUME pc[BOB] = "failed" PROVE FALSE
    <3>1. pc[ALICE] = "done"
      BY <1>3, <2>1, <2>3
    <3>2. read[ALICE] = Len(file) /\ read[BOB] < Len(file)
      BY <2>1, <2>3, <3>1 DEF IInv, Progress
    <3>3. Readable(ALICE, file[read[BOB] + 1])
      BY <1>1, <2>1, <2>2, <3>2 DEF IInv, Progress
    <3>4. ~ Readable(BOB, file[read[BOB] + 1])
      BY <2>1, <2>3 DEF IInv, Progress
    <3> QED
      BY <2>1, <3>3, <3>4 DEF Readable, Converts
  <2>4. pc[BOB] = "done" /\ pc[ALICE] = "failed"
    BY <1>3, <2>1, <2>3
  <2> DEFINE n == read[ALICE] + 1
  <2>5. read[BOB] = Len(file) /\ n \in 1 .. Len(file)
    BY <2>1, <2>2, <2>4 DEF IInv, Progress
  <2>6. Readable(BOB, file[n]) /\ ~ Readable(ALICE, file[n])
    BY <2>1, <2>4, <2>5 DEF IInv, Progress
  <2>7. ~ Numeric(Witness(file[n]))
    BY <2>6 DEF Readable
  <2>8. PICK j \in DOMAIN Witness(file[n]) :
          Witness(file[n])[j] \notin DOMAIN Number
    BY <2>7 DEF Numeric
  <2> HIDE DEF n
  <2>9. PICK l \in DOMAIN Words : Words[l] = Witness(file[n])[j]
    <3>1. Len(file) \in 0 .. Len(file)
      BY <1>1
    <3>2. Includes(Len(file))
      BY <1>1, <3>1, UpToType
    <3>3. Words = UpTo(Len(file))
      BY <1>1, UpToSteps
    <3> QED
      BY <2>5, <3>2, <3>3 DEF Includes
  <2>10. ~ Numeric(Words)
    BY <2>8, <2>9 DEF Numeric
  <2> QED
    BY <2>4, <2>10
<1> QED
  BY <1>2, <1>3 DEF PartiesAgree

(* For every info file and every interleaving: both parties get what the   *)
(* last line of each keyword says and one entry for each witness word, and *)
(* only the prover can end alone, over a witness word that is no number.   *)
THEOREM PartiesReadAlike == InputsSpec => []PartiesAgree
<1>1. InputsInit => IInv
  BY InitIInv DEF InputsInit
<1>2. IInv /\ [InputsNext]_<<vars, proof_vars>> => IInv'
  <2>1. [InputsNext]_<<vars, proof_vars>> => [Next]_vars
    BY DEF InputsNext, ReadProof, ReadInfo, Next
  <2> QED
    BY <2>1, StepIInv
<1>3. IInv => PartiesAgree
  BY InvAgrees
<1> QED
  BY <1>1, <1>2, <1>3, PTL DEF InputsSpec

-----------------------------------------------------------------------------
(* readproof.  Rendered(m) is the line that the generator writes for item  *)
(* m.                                                                      *)
Rendered(m) == Proof!Render(written[m])

Vectors == {"clause", "support", "pivot"}

Keywords == {"index:", "clause:", "support:", "pivot:", "end:", "DEGREE:"}

Symbols == DOMAIN Number \cup Keywords

(* What InputFiles assumes of the readings of numbers and of the proof     *)
(* files, without ProofFile's name for them.                               *)
LEMMA ProofAssumption ==
  /\ Number \in [DOMAIN Number -> Int]
  /\ DOMAIN Number \cap {"", "index:", "clause:", "support:", "pivot:",
                         "end:", "DEGREE:"} = {}
  /\ "0" \in DOMAIN Number
  /\ {input.proof : input \in Inputs} \subseteq Seq(Proof!ItemType)
  /\ MemoryBound \in Nat
  /\ \A items \in {input.proof : input \in Inputs} :
       \A m \in DOMAIN items : Proof!Fits(items[m])
BY InputFilesAssumption DEF Proof!ProofFileAssumption

(* The words of an item are words that stoi reads.                         *)
LEMMA ItemKinds ==
  ASSUME NEW it \in Proof!ItemType
  PROVE  /\ Proof!IsDegree(it) => it.degree \in DOMAIN Number
         /\ ~ Proof!IsDegree(it) =>
              \A v \in Vectors : it[v] \in Seq(DOMAIN Number)
<1>1. CASE it \in [clause : Seq(Proof!Digits), support : Seq(Proof!Digits),
                   pivot : Seq(Proof!Digits)]
  <2>1. DOMAIN it # {"degree"}
    BY <1>1
  <2>2. Seq(Proof!Digits) \subseteq Seq(DOMAIN Number)
    BY DEF Proof!Digits
  <2>3. \A v \in Vectors : it[v] \in Seq(Proof!Digits)
    BY <1>1 DEF Vectors
  <2> QED
    BY <2>1, <2>2, <2>3 DEF Proof!IsDegree
<1>2. CASE it \in [degree : Proof!Digits]
  BY <1>2 DEF Proof!IsDegree, Proof!Digits
<1> QED
  BY <1>1, <1>2 DEF Proof!ItemType

(* Where the vector v of a record begins and where its terminator is.      *)
First(it, v) ==
  IF v = "clause" THEN 4
  ELSE IF v = "support" THEN 5 + Len(it.clause)
  ELSE 6 + Len(it.clause) + Len(it.support)

Stop(it, v) == First(it, v) + Len(it[v])

(* Where the keywords and the numbers of a record are on its line.         *)
LEMMA RecordWords ==
  ASSUME NEW it \in Proof!ItemType, ~ Proof!IsDegree(it)
  PROVE  LET r == Proof!Render(it)
         IN  /\ r \in Seq(Symbols)
             /\ Len(r) = Stop(it, "pivot") + 1
             /\ r[1] = "index:" /\ r[2] = "0"
             /\ r[Len(r)] = "0"
             /\ \A v \in Vectors :
                  /\ r[First(it, v) - 1] = Proof!Section[v]
                  /\ r[Stop(it, v)] = Proof!Terminator[v]
                  /\ \A i \in 1 .. Len(it[v]) :
                       r[First(it, v) + i - 1] = it[v][i]
<1> DEFINE c == it.clause
           s == it.support
           p == it.pivot
           r1 == <<"index:", "0", "clause:">> \o c
           r2 == r1 \o <<"support:">>
           r3 == r2 \o s
           r4 == r3 \o <<"pivot:">>
           r5 == r4 \o p
           r6 == r5 \o <<"end:", "0">>
<1>1. c \in Seq(Symbols) /\ s \in Seq(Symbols) /\ p \in Seq(Symbols)
  <2>1. \A v \in Vectors : it[v] \in Seq(DOMAIN Number)
    BY ItemKinds
  <2>2. Seq(DOMAIN Number) \subseteq Seq(Symbols)
    BY DEF Symbols
  <2> QED
    BY <2>1, <2>2 DEF Vectors
<1>2. /\ <<"index:", "0", "clause:">> \in Seq(Symbols)
      /\ <<"support:">> \in Seq(Symbols)
      /\ <<"pivot:">> \in Seq(Symbols)
      /\ <<"end:", "0">> \in Seq(Symbols)
  <2>1. {"index:", "0", "clause:", "support:", "pivot:", "end:"}
          \subseteq Symbols
    BY ProofAssumption DEF Symbols, Keywords
  <2> QED
    BY <2>1
<1>3. Proof!Render(it) = r6
  BY DEF Proof!Render
<1> HIDE DEF c, s, p, r6
<1>4. /\ r1 \in Seq(Symbols) /\ Len(r1) = 3 + Len(c)
      /\ r1[1] = "index:" /\ r1[2] = "0" /\ r1[3] = "clause:"
      /\ \A i \in 1 .. Len(c) : r1[3 + i] = c[i]
  BY <1>1, <1>2, Concatenated
<1> HIDE DEF r1
<1>5. /\ r2 \in Seq(Symbols) /\ Len(r2) = Len(r1) + 1
      /\ \A i \in 1 .. Len(r1) : r2[i] = r1[i]
      /\ r2[Len(r1) + 1] = "support:"
  BY <1>2, <1>4, Concatenated
<1> HIDE DEF r2
<1>6. /\ r3 \in Seq(Symbols) /\ Len(r3) = Len(r2) + Len(s)
      /\ \A i \in 1 .. Len(r2) : r3[i] = r2[i]
      /\ \A i \in 1 .. Len(s) : r3[Len(r2) + i] = s[i]
  <2>1. r2 \in Seq(Symbols) /\ s \in Seq(Symbols)
    BY <1>1, <1>5
  <2>2. r3 = r2 \o s
    OBVIOUS
  <2> HIDE DEF r3
  <2> QED
    BY <2>1, <2>2, Concatenated
<1> HIDE DEF r3
<1>7. /\ r4 \in Seq(Symbols) /\ Len(r4) = Len(r3) + 1
      /\ \A i \in 1 .. Len(r3) : r4[i] = r3[i]
      /\ r4[Len(r3) + 1] = "pivot:"
  BY <1>2, <1>6, Concatenated
<1> HIDE DEF r4
<1>8. /\ r5 \in Seq(Symbols) /\ Len(r5) = Len(r4) + Len(p)
      /\ \A i \in 1 .. Len(r4) : r5[i] = r4[i]
      /\ \A i \in 1 .. Len(p) : r5[Len(r4) + i] = p[i]
  <2>1. r4 \in Seq(Symbols) /\ p \in Seq(Symbols)
    BY <1>1, <1>7
  <2>2. r5 = r4 \o p
    OBVIOUS
  <2> HIDE DEF r5
  <2> QED
    BY <2>1, <2>2, Concatenated
<1> HIDE DEF r5
<1>9. /\ r6 \in Seq(Symbols) /\ Len(r6) = Len(r5) + 2
      /\ \A i \in 1 .. Len(r5) : r6[i] = r5[i]
      /\ r6[Len(r5) + 1] = "end:"
      /\ r6[Len(r5) + 2] = "0"
  BY <1>2, <1>8, Concatenated DEF r6
<1>10. /\ Len(c) \in Nat /\ Len(s) \in Nat /\ Len(p) \in Nat
       /\ Len(r1) = 3 + Len(c) /\ Len(r2) = 4 + Len(c)
       /\ Len(r3) = 4 + Len(c) + Len(s) /\ Len(r4) = 5 + Len(c) + Len(s)
       /\ Len(r5) = 5 + Len(c) + Len(s) + Len(p)
       /\ Len(r6) = 7 + Len(c) + Len(s) + Len(p)
  BY <1>1, <1>4, <1>5, <1>6, <1>7, <1>8, <1>9
<1>11. /\ First(it, "clause") = 4
       /\ First(it, "support") = 5 + Len(c)
       /\ First(it, "pivot") = 6 + Len(c) + Len(s)
       /\ Stop(it, "clause") = 4 + Len(c)
       /\ Stop(it, "support") = 5 + Len(c) + Len(s)
       /\ Stop(it, "pivot") = 6 + Len(c) + Len(s) + Len(p)
  BY DEF First, Stop, c, s, p
<1>12. /\ \A i \in 1 .. Len(r4) : r6[i] = r4[i]
       /\ \A i \in 1 .. Len(r2) : r6[i] = r2[i]
       /\ \A i \in 1 .. Len(r1) : r6[i] = r1[i]
  <2>1. \A i \in 1 .. Len(r4) : r6[i] = r4[i]
    BY <1>8, <1>9, <1>10
  <2>2. \A i \in 1 .. Len(r3) : r6[i] = r3[i]
    BY <1>7, <1>10, <2>1
  <2>3. \A i \in 1 .. Len(r2) : r6[i] = r2[i]
    BY <1>6, <1>10, <2>2
  <2>4. \A i \in 1 .. Len(r1) : r6[i] = r1[i]
    BY <1>5, <1>10, <2>3
  <2> QED
    BY <2>1, <2>3, <2>4
<1>13. /\ r6[1] = "index:" /\ r6[2] = "0" /\ r6[3] = "clause:"
       /\ r6[Len(r1) + 1] = "support:" /\ r6[Len(r3) + 1] = "pivot:"
       /\ r6[Len(r5) + 1] = "end:" /\ r6[Len(r6)] = "0"
  BY <1>4, <1>5, <1>7, <1>9, <1>10, <1>12
<1>14. \A i \in 1 .. Len(c) : r6[3 + i] = c[i]
  <2>1. \A i \in 1 .. Len(c) : 3 + i \in 1 .. Len(r1)
    BY <1>10
  <2> QED
    BY <1>4, <1>12, <2>1
<1>15. \A i \in 1 .. Len(s) : r6[Len(r2) + i] = s[i]
  <2>1. \A i \in 1 .. Len(s) :
          Len(r2) + i \in 1 .. Len(r3) /\ Len(r2) + i \in 1 .. Len(r4)
    BY <1>10
  <2> QED
    BY <1>6, <1>7, <1>12, <2>1
<1>16. \A i \in 1 .. Len(p) : r6[Len(r4) + i] = p[i]
  <2>1. \A i \in 1 .. Len(p) : Len(r4) + i \in 1 .. Len(r5)
    BY <1>10
  <2> QED
    BY <1>8, <1>9, <2>1
<1>17. /\ Proof!Section["clause"] = "clause:"
       /\ Proof!Section["support"] = "support:"
       /\ Proof!Section["pivot"] = "pivot:"
       /\ Proof!Terminator["clause"] = "support:"
       /\ Proof!Terminator["support"] = "pivot:"
       /\ Proof!Terminator["pivot"] = "end:"
  BY DEF Proof!Section, Proof!Terminator
<1>18. ASSUME NEW v \in Vectors
       PROVE  /\ r6[First(it, v) - 1] = Proof!Section[v]
              /\ r6[Stop(it, v)] = Proof!Terminator[v]
              /\ \A i \in 1 .. Len(it[v]) :
                   r6[First(it, v) + i - 1] = it[v][i]
  <2>1. CASE v = "clause"
    <3>1. /\ First(it, v) - 1 = 3 /\ Stop(it, v) = Len(r1) + 1
          /\ it[v] = c
          /\ \A i \in 1 .. Len(c) : First(it, v) + i - 1 = 3 + i
      BY <2>1, <1>10, <1>11 DEF c
    <3> QED
      BY <2>1, <3>1, <1>13, <1>14, <1>17
  <2>2. CASE v = "support"
    <3>1. /\ First(it, v) - 1 = Len(r1) + 1 /\ Stop(it, v) = Len(r3) + 1
          /\ it[v] = s
          /\ \A i \in 1 .. Len(s) : First(it, v) + i - 1 = Len(r2) + i
      <4>1. it[v] = s
        BY <2>2 DEF s
      <4>2. First(it, v) = Len(r2) + 1 /\ Stop(it, v) = Len(r3) + 1
        BY <2>2, <1>10, <1>11
      <4>3. \A i \in 1 .. Len(s) : Len(r2) + 1 + i - 1 = Len(r2) + i
        BY <1>10
      <4>4. Len(r2) + 1 - 1 = Len(r1) + 1
        BY <1>10
      <4> QED
        BY <4>1, <4>2, <4>3, <4>4
    <3> QED
      BY <2>2, <3>1, <1>13, <1>15, <1>17
  <2>3. CASE v = "pivot"
    <3>1. /\ First(it, v) - 1 = Len(r3) + 1 /\ Stop(it, v) = Len(r5) + 1
          /\ it[v] = p
          /\ \A i \in 1 .. Len(p) : First(it, v) + i - 1 = Len(r4) + i
      <4>1. it[v] = p
        BY <2>3 DEF p
      <4>2. First(it, v) = Len(r4) + 1 /\ Stop(it, v) = Len(r5) + 1
        BY <2>3, <1>10, <1>11
      <4>3. \A i \in 1 .. Len(p) : Len(r4) + 1 + i - 1 = Len(r4) + i
        BY <1>10
      <4>4. Len(r4) + 1 - 1 = Len(r3) + 1
        BY <1>10
      <4> QED
        BY <4>1, <4>2, <4>3, <4>4
    <3> QED
      BY <2>3, <3>1, <1>13, <1>16, <1>17
  <2> QED
    BY <2>1, <2>2, <2>3 DEF Vectors
<1>19. Len(r6) = Stop(it, "pivot") + 1
  BY <1>10, <1>11
<1> QED
  BY <1>3, <1>9, <1>13, <1>18, <1>19

-----------------------------------------------------------------------------
(* What the items say.  A value that is computed from one item after the   *)
(* other exists for any number of items.                                   *)
LEMMA Recursion ==
  ASSUME NEW S, NEW base \in S, NEW N \in Nat, NEW h \in [1 .. N -> [S -> S]]
  PROVE  \E f \in [0 .. N -> S] :
           f[0] = base /\ \A k \in 1 .. N : f[k] = h[k][f[k - 1]]
<1> DEFINE Solves(f, n) == /\ f \in [0 .. n -> S] /\ f[0] = base
                           /\ \A k \in 1 .. n : f[k] = h[k][f[k - 1]]
           T == {n \in 0 .. N : ~ \E f : Solves(f, n)}
<1>1. ASSUME T # {} PROVE FALSE
  <2>1. T \in SUBSET Nat
    OBVIOUS
  <2>2. PICK n \in T : \A j \in T : n <= j
    BY <1>1, <2>1, LeastNumber
  <2>3. n # 0
    <3> DEFINE f == [k \in 0 .. 0 |-> base]
    <3>1. f \in [0 .. 0 -> S] /\ f[0] = base /\ 1 .. 0 = {}
      OBVIOUS
    <3> HIDE DEF f
    <3>2. Solves(f, 0)
      BY <3>1
    <3> HIDE DEF Solves
    <3> QED
      BY <2>2, <3>2
  <2>4. n \in 1 .. N /\ n - 1 \in 0 .. N /\ ~ (n <= n - 1)
    BY <2>2, <2>3
  <2>5. PICK f : Solves(f, n - 1)
    BY <2>2, <2>4
  <2> DEFINE g == [k \in 0 .. n |-> IF k = n THEN h[n][f[n - 1]] ELSE f[k]]
  <2>6. n - 1 \in 0 .. n - 1 /\ f[n - 1] \in S /\ h[n] \in [S -> S]
        /\ 0 \in 0 .. n /\ n \in 0 .. n /\ n - 1 \in 0 .. n /\ n - 1 # n
        /\ \A k \in 0 .. n : k # n => k \in 0 .. n - 1
    BY <2>4, <2>5
  <2>7. h[n][f[n - 1]] \in S /\ \A k \in 0 .. n - 1 : f[k] \in S
    BY <2>5, <2>6
  <2>8. g \in [0 .. n -> S] /\ g[0] = base
    BY <2>3, <2>5, <2>6, <2>7
  <2>9. ASSUME NEW k \in 1 .. n PROVE g[k] = h[k][g[k - 1]]
    <3>1. CASE k = n
      BY <2>6, <3>1
    <3>2. CASE k # n
      <4>1. k \in 1 .. n - 1 /\ k \in 0 .. n /\ k - 1 \in 0 .. n /\ k - 1 # n
        BY <2>4, <3>2
      <4>2. f[k] = h[k][f[k - 1]]
        BY <2>5, <4>1
      <4> QED
        BY <3>2, <4>1, <4>2
    <3> QED
      BY <3>1, <3>2
  <2>10. Solves(g, n)
    <3> HIDE DEF g
    <3> QED
      BY <2>8, <2>9
  <2> HIDE DEF Solves
  <2> QED
    BY <2>2, <2>10
<1>2. N \in 0 .. N
  OBVIOUS
<1> QED
  BY <1>1, <1>2

(* The greatest number of a set is the one that is not less than any.      *)
LEMMA MaximumIs ==
  ASSUME NEW T \in SUBSET Int, NEW x \in T, \A y \in T : x >= y
  PROVE  Max(T) = x
<1> DEFINE z == Max(T)
<1>1. z \in T /\ \A y \in T : z >= y
  BY DEF Max
<1> HIDE DEF z
<1>2. z = x
  BY <1>1
<1> QED
  BY <1>2 DEF z

(* The records among the first n items, one item after the other.          *)
LEMMA RecordsAre ==
  ASSUME written \in Seq(Proof!ItemType)
  PROVE  /\ Proof!Records[0] = <<>>
         /\ \A n \in 0 .. Len(written) :
              Proof!Records[n] \in Seq(Proof!ItemType)
         /\ \A n \in 1 .. Len(written) :
              Proof!Records[n] =
                IF Proof!IsDegree(written[n]) THEN Proof!Records[n - 1]
                ELSE Append(Proof!Records[n - 1], written[n])
<1> DEFINE N == Len(written)
           S == Seq(Proof!ItemType)
           Adds(n, s) == IF Proof!IsDegree(written[n]) THEN s
                         ELSE Append(s, written[n])
           h == [n \in 1 .. N |-> [s \in S |-> Adds(n, s)]]
           F(r) == [n \in 0 .. N |-> IF n = 0 THEN <<>>
                                     ELSE Adds(n, r[n - 1])]
<1>1. /\ N \in Nat /\ <<>> \in S
      /\ \A n \in 1 .. N : written[n] \in Proof!ItemType
  OBVIOUS
<1>2. \A n \in 1 .. N : \A s \in S : Adds(n, s) \in S
  BY <1>1
<1>3. h \in [1 .. N -> [S -> S]]
  BY <1>2
<1>4. PICK f \in [0 .. N -> S] :
        f[0] = <<>> /\ \A n \in 1 .. N : f[n] = h[n][f[n - 1]]
  <2> DEFINE base == <<>>
  <2>1. N \in Nat /\ base \in S
    BY <1>1
  <2> HIDE DEF N, S, h, base
  <2>2. \E f \in [0 .. N -> S] :
          f[0] = base /\ \A n \in 1 .. N : f[n] = h[n][f[n - 1]]
    BY <1>3, <2>1, Recursion
  <2> QED
    BY <2>2 DEF base
<1>5. \A n \in 1 .. N : n - 1 \in 0 .. N /\ f[n - 1] \in S
  <2>1. \A n \in 1 .. N : n - 1 \in 0 .. N
    BY <1>1
  <2> HIDE DEF S, N
  <2> QED
    BY <2>1
<1>6. \A n \in 1 .. N : f[n] = Adds(n, f[n - 1])
  BY <1>4, <1>5
<1>7. \A n \in 0 .. N : n = 0 \/ n \in 1 .. N
  BY <1>1
<1> HIDE DEF Adds
<1>8. f = F(f)
  <2>1. \A n \in 0 .. N : f[n] = IF n = 0 THEN <<>> ELSE Adds(n, f[n - 1])
    BY <1>4, <1>6, <1>7
  <2> HIDE DEF N, S
  <2> QED
    BY <2>1
<1>9. Proof!Records = CHOOSE r : r = F(r)
  BY DEF Proof!Records, Adds
<1> HIDE DEF F
<1>10. Proof!Records = F(Proof!Records)
  BY <1>8, <1>9
<1> DEFINE r == Proof!Records
<1> HIDE DEF r
<1>11. r = F(r)
  BY <1>10 DEF r
<1>12. /\ r[0] = <<>>
       /\ \A n \in 1 .. N : r[n] = Adds(n, r[n - 1])
  <2>1. /\ 0 \in 0 .. N
        /\ \A n \in 1 .. N : n \in 0 .. N /\ n # 0
    BY <1>1
  <2>2. \A n \in 0 .. N : F(r)[n] = IF n = 0 THEN <<>> ELSE Adds(n, r[n - 1])
    BY DEF F
  <2> HIDE DEF N
  <2> QED
    BY <1>11, <2>1, <2>2
<1> DEFINE T == {n \in 0 .. N : r[n] \notin S}
<1>13. T = {}
  <2> SUFFICES ASSUME T # {} PROVE FALSE
    OBVIOUS
  <2>1. T \in SUBSET Nat
    BY <1>1
  <2>2. PICK n \in T : \A j \in T : n <= j
    BY <2>1, LeastNumber
  <2>3. n # 0
    BY <1>1, <1>12, <2>2
  <2>4. n \in 1 .. N /\ n - 1 \in 0 .. N /\ ~ (n <= n - 1)
    BY <1>1, <2>2, <2>3
  <2>5. r[n - 1] \in S
    BY <2>2, <2>4
  <2>6. Adds(n, r[n - 1]) \in S
    BY <1>2, <2>4, <2>5 DEF Adds
  <2> QED
    BY <1>12, <2>2, <2>4, <2>6
<1> QED
  BY <1>12, <1>13 DEF r, Adds

(* The place of the last DEGREE: line among the first n items, and the     *)
(* numbers that DegreeOf(n) is the greatest of.                            *)
LastDegree(n) == Max({m \in 1 .. n : Proof!IsDegree(written[m])} \cup {0})

Widths(n) ==
  (IF LastDegree(n) = 0 THEN {0} ELSE {Number[written[LastDegree(n)].degree]})
    \cup {Len(written[m].clause) : m \in LastDegree(n) + 1 .. n}

HasWidth(n) ==
  /\ LastDegree(n) \in 0 .. n
  /\ Widths(n) \in SUBSET Int
  /\ \E x \in Widths(n) : \A y \in Widths(n) : x >= y

(* DegreeOf(n) is the greatest of Widths(n).                               *)
LEMMA DegreeIsWidth ==
  ASSUME NEW n
  PROVE  Proof!DegreeOf(n) = Max(Widths(n))
<1>1. \A T : Proof!Max(T) = Max(T)
  BY DEF Proof!Max, Max
<1> QED
  BY <1>1, Zenon DEF Proof!DegreeOf, Widths, LastDegree

(* Without items the degree is 0, as readproof starts.                     *)
LEMMA NoWidth ==
  HasWidth(0) /\ Proof!DegreeOf(0) = 0
<1>1. {m \in 1 .. 0 : Proof!IsDegree(written[m])} \cup {0} = {0}
  OBVIOUS
<1>2. Max({0}) = 0
  BY MaximumIs
<1>3. LastDegree(0) = 0
  BY <1>1, <1>2 DEF LastDegree
<1>4. Widths(0) = {0}
  BY <1>3 DEF Widths
<1>5. Proof!DegreeOf(0) = 0
  BY <1>2, <1>4, DegreeIsWidth
<1> QED
  BY <1>3, <1>4, <1>5 DEF HasWidth

(* The degree after one more item: its own value for a DEGREE: line, the   *)
(* greater of the two for a clause.                                        *)
LEMMA NextWidth ==
  ASSUME written \in Seq(Proof!ItemType), NEW n \in 1 .. Len(written),
         HasWidth(n - 1)
  PROVE  /\ HasWidth(n)
         /\ Proof!DegreeOf(n) =
              IF Proof!IsDegree(written[n]) THEN Number[written[n].degree]
              ELSE Max({Proof!DegreeOf(n - 1), Len(written[n].clause)})
<1> DEFINE D(k) == {m \in 1 .. k : Proof!IsDegree(written[m])} \cup {0}
<1>1. n \in Nat /\ n - 1 \in Nat /\ written[n] \in Proof!ItemType
      /\ 1 .. n = (1 .. n - 1) \cup {n}
      /\ \A m \in 1 .. n : m \in Nat /\ n >= m
  OBVIOUS
<1>2. CASE Proof!IsDegree(written[n])
  <2>1. LastDegree(n) = n
    <3>1. D(n) \in SUBSET Int /\ n \in D(n) /\ \A y \in D(n) : n >= y
      BY <1>1, <1>2
    <3> HIDE DEF D
    <3>2. Max(D(n)) = n
      BY <3>1, MaximumIs
    <3> QED
      BY <3>2 DEF LastDegree, D
  <2> DEFINE x == Number[written[n].degree]
  <2>2. x \in Int
    <3>1. written[n].degree \in DOMAIN Number
      BY <1>1, <1>2, ItemKinds
    <3> QED
      BY <3>1, ProofAssumption
  <2>3. Widths(n) = {x}
    <3>1. n + 1 .. n = {} /\ n # 0
      BY <1>1
    <3>2. {Len(written[m].clause) : m \in {}} = {}
      OBVIOUS
    <3> QED
      BY <2>1, <3>1, <3>2 DEF Widths
  <2> HIDE DEF x
  <2>4. Max({x}) = x
    <3>1. {x} \in SUBSET Int /\ x \in {x} /\ \A y \in {x} : x >= y
      BY <2>2
    <3> QED
      BY <3>1, MaximumIs, Zenon
  <2>5. HasWidth(n)
    BY <1>1, <2>1, <2>2, <2>3 DEF HasWidth
  <2>6. Proof!DegreeOf(n) = x
    BY <2>3, <2>4, DegreeIsWidth
  <2> QED
    BY <1>2, <2>5, <2>6 DEF x
<1>3. CASE ~ Proof!IsDegree(written[n])
  <2>1. D(n) = D(n - 1)
    BY <1>1, <1>3
  <2>2. LastDegree(n) = LastDegree(n - 1)
    BY <2>1 DEF LastDegree
  <2> DEFINE f == LastDegree(n - 1)
             w == Len(written[n].clause)
  <2>3. w \in Nat
    <3>1. written[n]["clause"] \in Seq(DOMAIN Number)
      BY <1>1, <1>3, ItemKinds DEF Vectors
    <3> QED
      BY <3>1
  <2>4. f \in 0 .. n - 1
    BY DEF HasWidth
  <2>5. Widths(n) = Widths(n - 1) \cup {w}
    <3>1. f + 1 .. n = (f + 1 .. n - 1) \cup {n}
      BY <1>1, <2>4
    <3> HIDE DEF f
    <3>2. {Len(written[m].clause) : m \in f + 1 .. n} =
            {Len(written[m].clause) : m \in f + 1 .. n - 1} \cup {w}
      BY <3>1
    <3> HIDE DEF w
    <3> QED
      BY <2>2, <3>2 DEF Widths, f
  <2> HIDE DEF f, w
  <2>6. PICK x \in Widths(n - 1) : \A y \in Widths(n - 1) : x >= y
    BY DEF HasWidth
  <2>7. Widths(n - 1) \in SUBSET Int /\ x \in Int
    BY <2>6 DEF HasWidth
  <2>8. Proof!DegreeOf(n - 1) = x
    BY <2>6, <2>7, MaximumIs, DegreeIsWidth
  <2> DEFINE z == IF x >= w THEN x ELSE w
  <2>9. z \in {x, w} /\ z >= x /\ z >= w /\ z \in Int
    BY <2>3, <2>7
  <2> HIDE DEF z
  <2>10. Max({x, w}) = z
    <3>1. /\ {x, w} \in SUBSET Int /\ z \in {x, w}
          /\ \A y \in {x, w} : z >= y
      BY <2>3, <2>7, <2>9
    <3> QED
      BY <3>1, MaximumIs, Zenon
  <2>11. z \in Widths(n) /\ Widths(n) \in SUBSET Int
    BY <2>3, <2>5, <2>6, <2>7, <2>9
  <2>12. \A y \in Widths(n) : z >= y
    BY <2>3, <2>5, <2>6, <2>7, <2>9
  <2>13. Max(Widths(n)) = z
    BY <2>11, <2>12, MaximumIs
  <2>14. HasWidth(n)
    BY <1>1, <2>2, <2>4, <2>11, <2>12 DEF HasWidth, f
  <2> QED
    BY <1>3, <2>8, <2>10, <2>13, <2>14, DegreeIsWidth DEF w
<1> QED
  BY <1>2, <1>3

(* Widths(n) has a greatest number for every n.                            *)
LEMMA WidthExists ==
  ASSUME written \in Seq(Proof!ItemType), NEW n \in 0 .. Len(written)
  PROVE  HasWidth(n)
<1> DEFINE T == {k \in 0 .. Len(written) : ~ HasWidth(k)}
<1> SUFFICES ASSUME T # {} PROVE FALSE
  OBVIOUS
<1>1. PICK k \in T : \A j \in T : k <= j
  BY LeastNumber, T \in SUBSET Nat
<1>2. k # 0
  BY <1>1, NoWidth
<1>3. k \in 1 .. Len(written) /\ k - 1 \in 0 .. Len(written) /\ ~ (k <= k - 1)
  BY <1>1, <1>2
<1>4. HasWidth(k - 1)
  BY <1>1, <1>3
<1> QED
  BY <1>1, <1>3, <1>4, NextWidth

(* The records with pivots among rs.                                       *)
Derived(rs) == {m \in DOMAIN rs : rs[m].pivot # <<>>}

Column(rs, v) == [m \in DOMAIN rs |-> Proof!Values(rs[m][v])]

(* Meaning(n) in terms of the records among the first n items.             *)
LEMMA MeaningIs ==
  ASSUME NEW n
  PROVE  LET rs == Proof!Records[n]
         IN  Proof!Meaning(n) =
               <<Column(rs, "clause"), Column(rs, "support"),
                 Column(rs, "pivot"), Proof!DegreeOf(n), Len(rs),
                 Cardinality(Derived(rs))>>
<1>1. \A T : Proof!Cardinality(T) = Cardinality(T)
  BY DEF Proof!Cardinality, Cardinality, Proof!IsFiniteSet, IsFiniteSet
<1> DEFINE rs == Proof!Records[n]
<1>2. Proof!Quantify(DOMAIN rs, LAMBDA m : rs[m].pivot # <<>>) =
        Proof!Cardinality(Derived(rs))
  BY DEF Derived, Proof!Quantify
<1> QED
  BY <1>1, <1>2, Zenon DEF Proof!Meaning, Column

(* A sequence with one more entry is the old one with that entry appended. *)
LEMMA AppendIs ==
  ASSUME NEW S, NEW a \in Seq(S), NEW e \in S, NEW b \in Seq(S),
         Len(b) = Len(a) + 1, b[Len(b)] = e,
         \A m \in 1 .. Len(a) : b[m] = a[m]
  PROVE  b = Append(a, e)
OBVIOUS

(* One more record adds its vector to the column of vectors.               *)
LEMMA NextColumn ==
  ASSUME NEW rs \in Seq(Proof!ItemType), NEW it \in Proof!ItemType, NEW v
  PROVE  Column(Append(rs, it), v) = Append(Column(rs, v), Proof!Values(it[v]))
<1> DEFINE S == {Proof!Values(x[v]) : x \in Proof!ItemType}
           r == Append(rs, it)
<1>1. /\ Len(rs) \in Nat /\ r \in Seq(Proof!ItemType)
      /\ Len(r) = Len(rs) + 1 /\ r[Len(r)] = it
      /\ \A m \in 1 .. Len(rs) : r[m] = rs[m]
  OBVIOUS
<1> HIDE DEF r
<1>2. ASSUME NEW q \in Seq(Proof!ItemType)
      PROVE  /\ Column(q, v) \in Seq(S) /\ Len(Column(q, v)) = Len(q)
             /\ \A m \in 1 .. Len(q) : Column(q, v)[m] = Proof!Values(q[m][v])
  <2>1. Column(q, v) = [m \in 1 .. Len(q) |-> Proof!Values(q[m][v])]
    BY DEF Column
  <2>2. \A m \in 1 .. Len(q) : Proof!Values(q[m][v]) \in S
    OBVIOUS
  <2> HIDE DEF S
  <2> QED
    BY <2>1, <2>2
<1>3. Proof!Values(it[v]) \in S
  OBVIOUS
<1> HIDE DEF S
<1>4. /\ Column(r, v)[Len(r)] = Proof!Values(it[v])
      /\ \A m \in 1 .. Len(rs) : Column(r, v)[m] = Column(rs, v)[m]
  <2>1. Len(r) \in 1 .. Len(r) /\ \A m \in 1 .. Len(rs) : m \in 1 .. Len(r)
    BY <1>1
  <2> QED
    BY <1>1, <1>2, <2>1
<1> DEFINE a == Column(rs, v)
           b == Column(r, v)
           e == Proof!Values(it[v])
<1>5. /\ a \in Seq(S) /\ b \in Seq(S) /\ e \in S
      /\ Len(b) = Len(a) + 1 /\ b[Len(b)] = e
      /\ \A m \in 1 .. Len(a) : b[m] = a[m]
  BY <1>1, <1>2, <1>3, <1>4
<1> HIDE DEF a, b, e
<1>6. b = Append(a, e)
  BY <1>5, AppendIs
<1> QED
  BY <1>6 DEF r, a, b, e

(* One more record with pivots is one more resolution.                     *)
LEMMA NextDerived ==
  ASSUME NEW rs \in Seq(Proof!ItemType), NEW it \in Proof!ItemType
  PROVE  /\ Cardinality(Derived(rs)) \in Nat
         /\ Cardinality(Derived(Append(rs, it))) =
              Cardinality(Derived(rs)) + (IF it.pivot = <<>> THEN 0 ELSE 1)
<1> DEFINE n == Len(rs) + 1
           r == Append(rs, it)
<1>1. /\ Len(rs) \in Nat /\ DOMAIN rs = 1 .. Len(rs)
      /\ DOMAIN r = 1 .. n /\ r[n] = it
      /\ n \notin 1 .. Len(rs) /\ 1 .. n = (1 .. Len(rs)) \cup {n}
      /\ \A m \in 1 .. Len(rs) : r[m] = rs[m]
  OBVIOUS
<1>2. IsFiniteSet(Derived(rs)) /\ Cardinality(Derived(rs)) \in Nat
  <2>1. IsFiniteSet(1 .. Len(rs))
    <3>1. Len(rs) \in Int /\ 1 \in Int
      OBVIOUS
    <3> QED
      BY <3>1, FS_Interval
  <2>2. Derived(rs) \in SUBSET (1 .. Len(rs))
    BY <1>1 DEF Derived
  <2> QED
    BY <2>1, <2>2, FS_Subset, FS_CardinalityType
<1> HIDE DEF n, r
<1>3. n \notin Derived(rs)
  BY <1>1 DEF Derived
<1>4. Derived(r) = IF it.pivot = <<>> THEN Derived(rs)
                   ELSE Derived(rs) \cup {n}
  BY <1>1 DEF Derived
<1>5. Cardinality(Derived(rs) \cup {n}) = Cardinality(Derived(rs)) + 1
  BY <1>2, <1>3, FS_AddElement
<1> QED
  BY <1>2, <1>4, <1>5 DEF r

(* The output after one more item.                                         *)
With(out, it) ==
  IF Proof!IsDegree(it)
  THEN <<out[1], out[2], out[3], Number[it.degree], out[5], out[6]>>
  ELSE <<Append(out[1], Proof!Values(it.clause)),
         Append(out[2], Proof!Values(it.support)),
         Append(out[3], Proof!Values(it.pivot)),
         Max({out[4], Len(it.clause)}), out[5] + 1,
         out[6] + (IF it.pivot = <<>> THEN 0 ELSE 1)>>

(* What n items say is what n - 1 items say with the last one.             *)
LEMMA NextMeaning ==
  ASSUME written \in Seq(Proof!ItemType), NEW n \in 1 .. Len(written)
  PROVE  Proof!Meaning(n) = With(Proof!Meaning(n - 1), written[n])
<1> DEFINE it == written[n]
           b == Proof!Records[n - 1]
           r == Proof!Records[n]
<1>1. n - 1 \in 0 .. Len(written) /\ it \in Proof!ItemType
  OBVIOUS
<1>2. b \in Seq(Proof!ItemType)
      /\ r = IF Proof!IsDegree(it) THEN b ELSE Append(b, it)
  BY <1>1, RecordsAre
<1>3. Proof!DegreeOf(n) =
        IF Proof!IsDegree(it) THEN Number[it.degree]
        ELSE Max({Proof!DegreeOf(n - 1), Len(it.clause)})
  BY <1>1, WidthExists, NextWidth
<1> DEFINE B == Proof!Meaning(n - 1)
<1>4. B = <<Column(b, "clause"), Column(b, "support"), Column(b, "pivot"),
            Proof!DegreeOf(n - 1), Len(b), Cardinality(Derived(b))>>
  BY MeaningIs
<1>5. Proof!Meaning(n) =
        <<Column(r, "clause"), Column(r, "support"), Column(r, "pivot"),
          Proof!DegreeOf(n), Len(r), Cardinality(Derived(r))>>
  BY MeaningIs
<1>6. /\ B[1] = Column(b, "clause") /\ B[2] = Column(b, "support")
      /\ B[3] = Column(b, "pivot") /\ B[4] = Proof!DegreeOf(n - 1)
      /\ B[5] = Len(b) /\ B[6] = Cardinality(Derived(b))
  BY <1>4
<1> HIDE DEF it, b, r, B
<1>7. CASE Proof!IsDegree(it)
  BY <1>2, <1>3, <1>5, <1>6, <1>7 DEF With, it, B
<1>8. CASE ~ Proof!IsDegree(it)
  <2>1. r = Append(b, it)
    BY <1>2, <1>8
  <2>2. /\ Column(r, "clause") = Append(B[1], Proof!Values(it.clause))
        /\ Column(r, "support") = Append(B[2], Proof!Values(it.support))
        /\ Column(r, "pivot") = Append(B[3], Proof!Values(it.pivot))
    BY <1>1, <1>2, <1>6, <2>1, NextColumn DEF it
  <2>3. Len(r) = B[5] + 1
    BY <1>1, <1>2, <1>6, <2>1
  <2>4. Cardinality(Derived(r)) = B[6] + (IF it.pivot = <<>> THEN 0 ELSE 1)
    BY <1>1, <1>2, <1>6, <2>1, NextDerived DEF it
  <2>5. Proof!DegreeOf(n) = Max({B[4], Len(it.clause)})
    BY <1>3, <1>6, <1>8
  <2>6. Proof!Meaning(n) =
          <<Append(B[1], Proof!Values(it.clause)),
            Append(B[2], Proof!Values(it.support)),
            Append(B[3], Proof!Values(it.pivot)),
            Max({B[4], Len(it.clause)}), B[5] + 1,
            B[6] + (IF it.pivot = <<>> THEN 0 ELSE 1)>>
    BY <1>5, <2>2, <2>3, <2>4, <2>5, Zenon
  <2> QED
    BY <1>8, <2>6, Zenon DEF With, it, B
<1> QED
  BY <1>7, <1>8

(* No item says nothing: the output parameters as readproof starts.        *)
LEMMA NoMeaning ==
  ASSUME written \in Seq(Proof!ItemType)
  PROVE  Proof!Meaning(0) = <<<<>>, <<>>, <<>>, 0, 0, 0>>
<1> DEFINE r == Proof!Records[0]
<1>1. r = <<>>
  BY RecordsAre
<1> HIDE DEF r
<1>2. Derived(r) = {} /\ \A v : Column(r, v) = <<>>
  BY <1>1 DEF Derived, Column
<1>3. Len(r) = 0 /\ Cardinality(Derived(r)) = 0
  BY <1>1, <1>2, FS_EmptySet
<1> QED
  <2>1. Proof!Meaning(0) =
          <<Column(r, "clause"), Column(r, "support"), Column(r, "pivot"),
            Proof!DegreeOf(0), Len(r), Cardinality(Derived(r))>>
    BY MeaningIs, Zenon DEF r
  <2> QED
    BY <1>2, <1>3, <2>1, NoWidth

-----------------------------------------------------------------------------
Place(m, a) == [item |-> m, from |-> a]

LEMMA Fields ==
  ASSUME NEW p, NEW m, NEW a, p = Place(m, a)
  PROVE  p.item = m /\ p.from = a
BY DEF Place

(* Where the lines of a file come from, cut or broken after any word:      *)
(* line l holds the words of item src[l].item after the first src[l].from. *)
Cuts(src) ==
  /\ written \in Seq(Proof!ItemType)
  /\ text \in Seq(Seq(Symbols))
  /\ \A l \in 1 .. Len(text) :
       LET m == src[l].item
           from == src[l].from
       IN  /\ m \in 1 .. Len(written) /\ from \in Nat
           /\ from + Len(text[l]) <= Len(Rendered(m))
           /\ \A j \in 1 .. Len(text[l]) : text[l][j] = Rendered(m)[from + j]
  /\ Len(text) > 0 => src[1] = Place(1, 0)
  /\ \A l \in 1 .. Len(text) - 1 :
       \/ src[l + 1] = Place(src[l].item, src[l].from + Len(text[l]))
       \/ /\ src[l].from + Len(text[l]) = Len(Rendered(src[l].item))
          /\ src[l + 1] = Place(src[l].item + 1, 0)
  /\ text = Proof!Lines(written) =>
       \A l \in 1 .. Len(text) : src[l] = Place(l, 0)

(* The words of an item's line.                                            *)
LEMMA RenderedWords ==
  ASSUME NEW it \in Proof!ItemType
  PROVE  /\ Proof!Render(it) \in Seq(Symbols)
         /\ Proof!IsDegree(it) =>
              Proof!Render(it) = <<"DEGREE:", it.degree>>
<1>1. CASE Proof!IsDegree(it)
  <2>1. Proof!Render(it) = <<"DEGREE:", it.degree>>
    BY <1>1 DEF Proof!Render
  <2>2. "DEGREE:" \in Symbols /\ it.degree \in Symbols
    BY <1>1, ItemKinds DEF Symbols, Keywords
  <2> QED
    BY <2>1, <2>2
<1>2. CASE ~ Proof!IsDegree(it)
  BY <1>2, RecordWords
<1> QED
  BY <1>1, <1>2

(* The words of s after the first a and up to word b.                      *)
LEMMA Slice ==
  ASSUME NEW S, NEW s \in Seq(S), NEW a \in 0 .. Len(s), NEW b \in a .. Len(s)
  PROVE  LET c == SubSeq(s, a + 1, b)
         IN  /\ c \in Seq(S) /\ Len(c) = b - a
             /\ \A j \in 1 .. b - a : c[j] = s[a + j]
<1>1. /\ a \in Nat /\ b \in Nat /\ a + 1 \in 1 .. Len(s) + 1
      /\ b \in a .. Len(s)
      /\ Len(s) \in Nat /\ b - a \in Nat
  OBVIOUS
<1> DEFINE c == SubSeq(s, a + 1, b)
<1>2. c = [j \in 1 .. 1 + b - (a + 1) |-> s[j + (a + 1) - 1]]
  BY <1>1
<1>3. 1 + b - (a + 1) = b - a /\ \A j \in 1 .. b - a : j + (a + 1) - 1 = a + j
  BY <1>1
<1>4. c = [j \in 1 .. b - a |-> s[a + j]]
  BY <1>2, <1>3
<1>5. \A j \in 1 .. b - a : s[a + j] \in S
  BY <1>1
<1> HIDE DEF c
<1>6. c \in Seq(S) /\ Len(c) = b - a
  BY <1>1, <1>4, <1>5
<1> QED
  BY <1>4, <1>6 DEF c

(* The lines of a file that ends after word n of line m.                   *)
LEMMA CutLines ==
  ASSUME NEW S, NEW ls \in Seq(Seq(S)), NEW m \in 1 .. Len(ls),
         NEW n \in 0 .. Len(ls[m])
  PROVE  LET t == Proof!CutAt(ls, m, n)
         IN  /\ t \in Seq(Seq(S)) /\ Len(t) = m
             /\ \A l \in 1 .. m - 1 : t[l] = ls[l]
             /\ Len(t[m]) = n
             /\ \A j \in 1 .. n : t[m][j] = ls[m][j]
<1> DEFINE a == SubSeq(ls, 1, m - 1)
           c == SubSeq(ls[m], 1, n)
           b == <<c>>
<1>1. /\ ls[m] \in Seq(S) /\ m \in Nat /\ n \in Nat /\ n <= Len(ls[m])
      /\ m - 1 \in 0 .. Len(ls) /\ Len(ls[m]) \in Nat
  OBVIOUS
<1>2. c \in Seq(S) /\ Len(c) = n /\ \A j \in 1 .. n : c[j] = ls[m][j]
  <2>1. 0 \in 0 .. Len(ls[m]) /\ n \in 0 .. Len(ls[m]) /\ 0 + 1 = 1
        /\ n - 0 = n /\ \A j \in 1 .. n : 0 + j = j
    BY <1>1
  <2> QED
    BY <1>1, <2>1, Slice
<1>3. a \in Seq(Seq(S)) /\ Len(a) = m - 1 /\ \A l \in 1 .. m - 1 : a[l] = ls[l]
  <2> DEFINE q == m - 1
  <2>1. 0 \in 0 .. Len(ls) /\ q \in 0 .. Len(ls) /\ 0 + 1 = 1
        /\ q - 0 = q /\ \A j \in 1 .. q : 0 + j = j
    BY <1>1
  <2> HIDE DEF q
  <2>2. LET z == SubSeq(ls, 1, q)
        IN  /\ z \in Seq(Seq(S)) /\ Len(z) = q
            /\ \A l \in 1 .. q : z[l] = ls[l]
    BY <2>1, Slice
  <2> QED
    BY <2>2 DEF q
<1>4. Proof!CutAt(ls, m, n) = a \o b
  BY DEF Proof!CutAt
<1> HIDE DEF a, c
<1>5. b \in Seq(Seq(S)) /\ Len(b) = 1 /\ b[1] = c
  BY <1>2
<1> HIDE DEF b
<1>6. /\ a \o b \in Seq(Seq(S)) /\ Len(a \o b) = Len(a) + Len(b)
      /\ \A l \in 1 .. Len(a) : (a \o b)[l] = a[l]
      /\ \A l \in 1 .. Len(b) : (a \o b)[Len(a) + l] = b[l]
  <2> DEFINE Q == Seq(S)
  <2>1. a \in Seq(Q) /\ b \in Seq(Q)
    BY <1>3, <1>5
  <2> HIDE DEF Q
  <2>2. /\ a \o b \in Seq(Q) /\ Len(a \o b) = Len(a) + Len(b)
        /\ \A l \in 1 .. Len(a) : (a \o b)[l] = a[l]
        /\ \A l \in 1 .. Len(b) : (a \o b)[Len(a) + l] = b[l]
    BY <2>1, Concatenated
  <2> QED
    BY <2>2 DEF Q
<1> DEFINE t == a \o b
<1>7. t = a \o b
  OBVIOUS
<1> HIDE DEF t
<1>8. Len(t) = m /\ t[m] = c
  <2>1. m - 1 + 1 = m /\ 1 \in 1 .. 1
    BY <1>1
  <2> QED
    BY <1>3, <1>5, <1>6, <1>7, <2>1
<1> QED
  BY <1>2, <1>3, <1>4, <1>6, <1>7, <1>8

(* The lines ls, line m of which is broken after word n.                   *)
Broken(s, ls, m, n) ==
  /\ Len(s) = Len(ls) + 1
  /\ \A l \in 1 .. m - 1 : s[l] = ls[l]
  /\ Len(s[m]) = n
  /\ \A j \in 1 .. n : s[m][j] = ls[m][j]
  /\ Len(s[m + 1]) = Len(ls[m]) - n
  /\ \A j \in 1 .. Len(ls[m]) - n : s[m + 1][j] = ls[m][n + j]
  /\ \A l \in m + 2 .. Len(ls) + 1 : s[l] = ls[l - 1]

(* The lines of a file with line m broken after word n.                    *)
LEMMA SplitLines ==
  ASSUME NEW S, NEW ls \in Seq(Seq(S)), NEW m \in 1 .. Len(ls),
         NEW n \in 0 .. Len(ls[m]), NEW s, s = Proof!SplitAt(ls, m, n)
  PROVE  s \in Seq(Seq(S)) /\ Broken(s, ls, m, n)
<1> DEFINE a == Proof!CutAt(ls, m, n)
           c == SubSeq(ls[m], n + 1, Len(ls[m]))
           b == <<c>>
           e == SubSeq(ls, m + 1, Len(ls))
<1>1. /\ ls[m] \in Seq(S) /\ m \in Nat /\ n \in Nat /\ Len(ls) \in Nat
      /\ Len(ls[m]) \in Nat /\ n <= Len(ls[m]) /\ m <= Len(ls)
  OBVIOUS
<1>2. /\ a \in Seq(Seq(S)) /\ Len(a) = m
      /\ \A l \in 1 .. m - 1 : a[l] = ls[l]
      /\ Len(a[m]) = n
      /\ \A j \in 1 .. n : a[m][j] = ls[m][j]
  BY CutLines
<1>3. /\ c \in Seq(S) /\ Len(c) = Len(ls[m]) - n
      /\ \A j \in 1 .. Len(ls[m]) - n : c[j] = ls[m][n + j]
  <2>1. Len(ls[m]) \in n .. Len(ls[m])
    BY <1>1
  <2> QED
    BY <1>1, <2>1, Slice
<1>4. /\ e \in Seq(Seq(S)) /\ Len(e) = Len(ls) - m
      /\ \A l \in 1 .. Len(ls) - m : e[l] = ls[m + l]
  <2>1. m \in 0 .. Len(ls) /\ Len(ls) \in m .. Len(ls)
    BY <1>1
  <2> QED
    BY <2>1, Slice
<1>5. Proof!SplitAt(ls, m, n) = (a \o b) \o e
  BY DEF Proof!SplitAt
<1> HIDE DEF a, c, e
<1>6. b \in Seq(Seq(S)) /\ Len(b) = 1 /\ b[1] = c
  BY <1>3
<1> HIDE DEF b
<1>7. /\ a \o b \in Seq(Seq(S)) /\ Len(a \o b) = Len(a) + Len(b)
      /\ \A l \in 1 .. Len(a) : (a \o b)[l] = a[l]
      /\ \A l \in 1 .. Len(b) : (a \o b)[Len(a) + l] = b[l]
  <2> DEFINE Q == Seq(S)
  <2>1. a \in Seq(Q) /\ b \in Seq(Q)
    BY <1>2, <1>6
  <2> HIDE DEF Q
  <2>2. /\ a \o b \in Seq(Q) /\ Len(a \o b) = Len(a) + Len(b)
        /\ \A l \in 1 .. Len(a) : (a \o b)[l] = a[l]
        /\ \A l \in 1 .. Len(b) : (a \o b)[Len(a) + l] = b[l]
    BY <2>1, Concatenated
  <2> QED
    BY <2>2 DEF Q
<1> DEFINE f == a \o b
<1>8. f = a \o b
  OBVIOUS
<1> HIDE DEF f
<1>9. Len(f) = m + 1 /\ f[m + 1] = c
      /\ \A l \in 1 .. m : f[l] = a[l]
  <2>1. 1 \in 1 .. 1
    OBVIOUS
  <2> QED
    BY <1>2, <1>6, <1>7, <1>8, <2>1
<1>10. /\ f \o e \in Seq(Seq(S)) /\ Len(f \o e) = Len(f) + Len(e)
       /\ \A l \in 1 .. Len(f) : (f \o e)[l] = f[l]
       /\ \A l \in 1 .. Len(e) : (f \o e)[Len(f) + l] = e[l]
  <2> DEFINE Q == Seq(S)
  <2>1. f \in Seq(Q) /\ e \in Seq(Q)
    BY <1>4, <1>7, <1>8
  <2> HIDE DEF Q
  <2>2. /\ f \o e \in Seq(Q) /\ Len(f \o e) = Len(f) + Len(e)
        /\ \A l \in 1 .. Len(f) : (f \o e)[l] = f[l]
        /\ \A l \in 1 .. Len(e) : (f \o e)[Len(f) + l] = e[l]
    BY <2>1, Concatenated
  <2> QED
    BY <2>2 DEF Q
<1> DEFINE t == f \o e
<1>11. s = t
  BY <1>5, <1>8
<1>12. /\ t \in Seq(Seq(S)) /\ Len(t) = Len(f) + Len(e)
       /\ \A l \in 1 .. Len(f) : t[l] = f[l]
       /\ \A l \in 1 .. Len(e) : t[Len(f) + l] = e[l]
  BY <1>10
<1> HIDE DEF t
<1>13. Len(t) = Len(ls) + 1
  <2>1. m + 1 + (Len(ls) - m) = Len(ls) + 1
    BY <1>1
  <2> QED
    BY <1>4, <1>9, <1>12, <2>1
<1>14. /\ \A l \in 1 .. m - 1 : t[l] = ls[l]
       /\ t[m] = a[m] /\ t[m + 1] = c
  <2>1. /\ \A l \in 1 .. m - 1 : l \in 1 .. m /\ l \in 1 .. m + 1
        /\ m \in 1 .. m /\ m \in 1 .. m + 1 /\ m + 1 \in 1 .. m + 1
    BY <1>1
  <2> QED
    BY <1>2, <1>9, <1>12, <2>1
<1>15. ASSUME NEW l \in m + 2 .. Len(ls) + 1 PROVE t[l] = ls[l - 1]
  <2> DEFINE i == l - (m + 1)
  <2>1. i \in 1 .. Len(ls) - m /\ l = m + 1 + i /\ m + i = l - 1
    BY <1>1
  <2> HIDE DEF i
  <2>2. t[m + 1 + i] = e[i] /\ e[i] = ls[m + i]
    BY <1>4, <1>9, <1>12, <2>1
  <2> QED
    BY <2>1, <2>2
<1>16. /\ Len(t[m]) = n /\ \A j \in 1 .. n : t[m][j] = ls[m][j]
       /\ Len(t[m + 1]) = Len(ls[m]) - n
       /\ \A j \in 1 .. Len(ls[m]) - n : t[m + 1][j] = ls[m][n + j]
  BY <1>2, <1>3, <1>14, Zenon
<1> QED
  BY <1>11, <1>12, <1>13, <1>14, <1>15, <1>16, Zenon DEF Broken

-----------------------------------------------------------------------------
(* The complete file has one line per item.                                *)
LEMMA LinesAre ==
  ASSUME written \in Seq(Proof!ItemType)
  PROVE  LET ls == Proof!Lines(written)
         IN  /\ ls \in Seq(Seq(Symbols)) /\ Len(ls) = Len(written)
             /\ \A m \in 1 .. Len(written) :
                  ls[m] = Rendered(m) /\ Rendered(m) \in Seq(Symbols)
<1> DEFINE ls == Proof!Lines(written)
           Q == Seq(Symbols)
<1>1. \A m \in 1 .. Len(written) : written[m] \in Proof!ItemType
  OBVIOUS
<1>2. \A m \in 1 .. Len(written) : Rendered(m) \in Q
  BY <1>1, RenderedWords DEF Rendered
<1>3. ls = [m \in 1 .. Len(written) |-> Rendered(m)] /\ Len(written) \in Nat
  BY DEF Proof!Lines, Rendered
<1> HIDE DEF ls, Q
<1>4. /\ ls \in Seq(Q) /\ Len(ls) = Len(written)
      /\ \A m \in 1 .. Len(written) : ls[m] = Rendered(m)
  BY <1>2, <1>3
<1> QED
  BY <1>2, <1>4, Zenon DEF ls, Q

(* Every file that Init allows has its origin: the complete one ...        *)
LEMMA WholeSource ==
  ASSUME written \in Seq(Proof!ItemType), text = Proof!Lines(written)
  PROVE  \E src : Cuts(src)
<1> DEFINE src == [l \in 1 .. Len(text) |-> Place(l, 0)]
<1>1. /\ text \in Seq(Seq(Symbols)) /\ Len(text) = Len(written)
      /\ Len(text) \in Nat
      /\ \A m \in 1 .. Len(text) :
           text[m] = Rendered(m) /\ Len(text[m]) \in Nat
  <2>1. /\ text \in Seq(Seq(Symbols)) /\ Len(text) = Len(written)
        /\ \A m \in 1 .. Len(written) :
             text[m] = Rendered(m) /\ Rendered(m) \in Seq(Symbols)
    BY LinesAre
  <2>2. /\ Len(written) \in Nat
        /\ \A m \in 1 .. Len(written) : Len(Rendered(m)) \in Nat
    BY <2>1
  <2> QED
    BY <2>1, <2>2, Zenon
<1>2. \A l \in 1 .. Len(text) : src[l] = Place(l, 0)
  OBVIOUS
<1> HIDE DEF src
<1>3. ASSUME NEW l \in 1 .. Len(text)
      PROVE  /\ src[l].item \in 1 .. Len(written) /\ src[l].from \in Nat
             /\ src[l].from + Len(text[l]) = Len(Rendered(src[l].item))
             /\ \A j \in 1 .. Len(text[l]) :
                  text[l][j] = Rendered(src[l].item)[src[l].from + j]
  <2>1. src[l].item = l /\ src[l].from = 0
    <3>1. src[l] = Place(l, 0)
      BY <1>2
    <3> QED
      BY <3>1, Fields
  <2>2. \A j \in 1 .. Len(text[l]) : 0 + j = j
    BY <1>1
  <2>3. 0 + Len(text[l]) = Len(text[l])
    BY <1>1
  <2> QED
    BY <1>1, <2>1, <2>2, <2>3
<1>4. Len(text) > 0 => src[1] = Place(1, 0)
  BY <1>1, <1>2
<1>5. ASSUME NEW l \in 1 .. Len(text) - 1
      PROVE  src[l + 1] = Place(src[l].item + 1, 0)
             /\ l \in 1 .. Len(text)
  <2>1. l \in 1 .. Len(text) /\ l + 1 \in 1 .. Len(text)
    BY <1>1
  <2>2. src[l].item = l
    <3>1. src[l] = Place(l, 0)
      BY <1>2, <2>1
    <3> QED
      BY <3>1, Fields
  <2> QED
    BY <1>2, <2>1, <2>2
<1>6. \A l \in 1 .. Len(text) : Len(text[l]) <= Len(text[l])
                                /\ Len(Rendered(src[l].item)) \in Nat
  BY <1>1, <1>3
<1>7. \A l \in 1 .. Len(text) :
        src[l].from + Len(text[l]) <= Len(Rendered(src[l].item))
  BY <1>3, <1>6
<1>8. Cuts(src)
  BY <1>1, <1>2, <1>3, <1>4, <1>5, <1>7, Zenon DEF Cuts
<1> QED
  BY <1>8

(* ... one that is cut after word n of line m ...                          *)
LEMMA CutSource ==
  ASSUME written \in Seq(Proof!ItemType), text # Proof!Lines(written),
         NEW m \in 1 .. Len(written), NEW n \in 0 .. Len(Rendered(m)),
         text = Proof!CutAt(Proof!Lines(written), m, n)
  PROVE  \E src : Cuts(src)
<1> DEFINE src == [l \in 1 .. Len(text) |-> Place(l, 0)]
           ls == Proof!Lines(written)
<1>1. /\ ls \in Seq(Seq(Symbols)) /\ Len(ls) = Len(written)
      /\ \A k \in 1 .. Len(written) :
           ls[k] = Rendered(k) /\ Rendered(k) \in Seq(Symbols)
  BY LinesAre
<1> HIDE DEF ls
<1>2. /\ text \in Seq(Seq(Symbols)) /\ Len(text) = m
      /\ \A l \in 1 .. m - 1 : text[l] = ls[l]
      /\ Len(text[m]) = n
      /\ \A j \in 1 .. n : text[m][j] = ls[m][j]
  <2>1. m \in 1 .. Len(ls) /\ n \in 0 .. Len(ls[m])
    BY <1>1
  <2>2. text = Proof!CutAt(ls, m, n)
    BY DEF ls
  <2> QED
    BY <1>1, <2>1, <2>2, CutLines
<1>3. /\ m \in Nat /\ Len(written) \in Nat /\ m <= Len(written) /\ n \in Nat
      /\ Len(text) > 0 /\ n <= Len(Rendered(m))
      /\ \A k \in 1 .. Len(written) : Len(Rendered(k)) \in Nat
  BY <1>1, <1>2
<1>4. \A l \in 1 .. Len(text) : src[l] = Place(l, 0)
  OBVIOUS
<1> HIDE DEF src
<1>5. ASSUME NEW l \in 1 .. Len(text)
      PROVE  /\ src[l].item = l /\ src[l].from = 0
             /\ l \in 1 .. Len(written)
             /\ Len(text[l]) <= Len(Rendered(l))
             /\ l < Len(text) => Len(text[l]) = Len(Rendered(l))
             /\ Len(text[l]) \in Nat
             /\ \A j \in 1 .. Len(text[l]) :
                  text[l][j] = Rendered(l)[j]
  <2>1. src[l].item = l /\ src[l].from = 0
    <3>1. src[l] = Place(l, 0)
      BY <1>4
    <3> QED
      BY <3>1, Fields
  <2>2. l \in 1 .. Len(written) /\ (l = m \/ l \in 1 .. m - 1)
    BY <1>2, <1>3
  <2>3. CASE l = m
    <3>1. /\ ls[m] = Rendered(m) /\ Len(text) = m /\ ~ (m < m)
          /\ Len(text[m]) = n
          /\ \A j \in 1 .. n : text[m][j] = ls[m][j]
      BY <1>1, <1>2, <1>3
    <3> QED
      BY <1>3, <2>1, <2>2, <2>3, <3>1, Zenon
  <2>4. CASE l \in 1 .. m - 1
    <3>1. text[l] = Rendered(l) /\ Len(Rendered(l)) \in Nat
      BY <1>1, <1>2, <1>3, <2>2, <2>4
    <3> QED
      BY <2>1, <2>2, <3>1
  <2> QED
    BY <2>2, <2>3, <2>4
<1>6. ASSUME NEW l \in 1 .. Len(text)
      PROVE  /\ src[l].item \in 1 .. Len(written) /\ src[l].from \in Nat
             /\ src[l].from + Len(text[l]) <= Len(Rendered(src[l].item))
             /\ \A j \in 1 .. Len(text[l]) :
                  text[l][j] = Rendered(src[l].item)[src[l].from + j]
  <2>1. \A j \in 1 .. Len(text[l]) : 0 + j = j
    BY <1>5
  <2>2. 0 + Len(text[l]) = Len(text[l]) /\ 0 \in Nat
    BY <1>5
  <2>3. /\ \A j \in 1 .. Len(text[l]) : text[l][j] = Rendered(l)[0 + j]
        /\ 0 + Len(text[l]) <= Len(Rendered(l))
    BY <1>5, <2>1, <2>2
  <2> QED
    BY <1>5, <2>2, <2>3, Zenon
<1>7. src[1] = Place(1, 0)
  BY <1>2, <1>3, <1>4
<1>8. ASSUME NEW l \in 1 .. Len(text) - 1
      PROVE  /\ src[l].from + Len(text[l]) = Len(Rendered(src[l].item))
             /\ src[l + 1] = Place(src[l].item + 1, 0)
  <2>1. l \in 1 .. Len(text) /\ l + 1 \in 1 .. Len(text) /\ l < Len(text)
    BY <1>2, <1>3
  <2>2. 0 + Len(text[l]) = Len(text[l])
    BY <1>5, <2>1
  <2> QED
    BY <1>4, <1>5, <2>1, <2>2
<1>9. Cuts(src)
  BY <1>2, <1>6, <1>7, <1>8, Zenon DEF Cuts
<1> QED
  BY <1>9

(* ... and one whose line m is broken after word n.                        *)
LEMMA SplitSource ==
  ASSUME written \in Seq(Proof!ItemType), text # Proof!Lines(written),
         NEW m \in 1 .. Len(written), NEW n \in 0 .. Len(Rendered(m)),
         text = Proof!SplitAt(Proof!Lines(written), m, n)
  PROVE  \E src : Cuts(src)
<1> DEFINE src == [l \in 1 .. Len(text) |->
                     IF l <= m THEN Place(l, 0)
                     ELSE IF l = m + 1 THEN Place(m, n)
                     ELSE Place(l - 1, 0)]
           ls == Proof!Lines(written)
<1>1. /\ ls \in Seq(Seq(Symbols)) /\ Len(ls) = Len(written)
      /\ \A k \in 1 .. Len(written) :
           ls[k] = Rendered(k) /\ Rendered(k) \in Seq(Symbols)
  BY LinesAre
<1> HIDE DEF ls
<1>2. /\ m \in 1 .. Len(ls) /\ n \in 0 .. Len(ls[m])
      /\ text = Proof!SplitAt(ls, m, n)
  BY <1>1 DEF ls
<1> HIDE DEF src
<1>3. /\ text \in Seq(Seq(Symbols)) /\ Len(text) = Len(ls) + 1
      /\ \A l \in 1 .. m - 1 : text[l] = ls[l]
      /\ Len(text[m]) = n
      /\ \A j \in 1 .. n : text[m][j] = ls[m][j]
      /\ Len(text[m + 1]) = Len(ls[m]) - n
      /\ \A j \in 1 .. Len(ls[m]) - n : text[m + 1][j] = ls[m][n + j]
      /\ \A l \in m + 2 .. Len(ls) + 1 : text[l] = ls[l - 1]
  <2>1. text \in Seq(Seq(Symbols)) /\ Broken(text, ls, m, n)
    BY <1>1, <1>2, SplitLines, Zenon
  <2> QED
    BY <2>1, Zenon DEF Broken
<1>4. /\ m \in Nat /\ Len(written) \in Nat /\ m <= Len(written) /\ n \in Nat
      /\ Len(text) > 0 /\ n <= Len(Rendered(m))
      /\ Len(text) = Len(written) + 1
      /\ \A k \in 1 .. Len(written) : Len(Rendered(k)) \in Nat
  <2>1. m \in Nat /\ n \in Nat /\ Len(written) \in Nat /\ m <= Len(written)
    OBVIOUS
  <2>2. \A k \in 1 .. Len(written) : Len(Rendered(k)) \in Nat
    BY <1>1
  <2>3. Len(text) = Len(written) + 1
    BY <1>1, <1>3, Zenon
  <2> QED
    BY <2>1, <2>2, <2>3
<1> USE DEF src
<1>5. ASSUME NEW l \in 1 .. Len(text)
      PROVE  /\ l <= m => src[l] = Place(l, 0)
             /\ l = m + 1 => src[l] = Place(m, n)
             /\ l >= m + 2 => src[l] = Place(l - 1, 0)
  <2>1. l \in Nat /\ (l = m + 1 => ~ (l <= m))
        /\ (l >= m + 2 => ~ (l <= m) /\ l # m + 1)
    BY <1>4
  <2> QED
    BY <2>1
<1> HIDE DEF src
<1>6. ASSUME NEW l \in 1 .. Len(text)
      PROVE  /\ src[l].item \in 1 .. Len(written) /\ src[l].from \in Nat
             /\ src[l].from + Len(text[l]) <= Len(Rendered(src[l].item))
             /\ l # m =>
                  src[l].from + Len(text[l]) = Len(Rendered(src[l].item))
             /\ \A j \in 1 .. Len(text[l]) :
                  text[l][j] = Rendered(src[l].item)[src[l].from + j]
  <2>1. CASE l \in 1 .. m - 1
    <3>1. l <= m /\ l \in 1 .. Len(written) /\ 0 \in Nat
      BY <1>4, <2>1
    <3>2. src[l].item = l /\ src[l].from = 0
      <4>1. src[l] = Place(l, 0)
        BY <1>5, <3>1
      <4> QED
        BY <4>1, Fields
    <3>3. text[l] = Rendered(l) /\ Len(Rendered(l)) \in Nat
      BY <1>1, <1>3, <1>4, <2>1, <3>1
    <3>4. /\ 0 + Len(text[l]) = Len(Rendered(l))
          /\ Len(Rendered(l)) <= Len(Rendered(l))
          /\ \A j \in 1 .. Len(text[l]) : 0 + j = j
      BY <3>3
    <3> QED
      BY <3>1, <3>2, <3>3, <3>4
  <2>2. CASE l = m
    <3>1. l <= m /\ 0 \in Nat
      BY <1>4, <2>2
    <3>2. src[l].item = m /\ src[l].from = 0
      <4>1. src[l] = Place(m, 0)
        BY <1>5, <2>2, <3>1
      <4> QED
        BY <4>1, Fields
    <3>3. /\ Len(text[l]) = n
          /\ \A j \in 1 .. n : text[l][j] = Rendered(m)[j]
      BY <1>1, <1>3, <2>2, Zenon
    <3>4. 0 + n = n /\ \A j \in 1 .. n : 0 + j = j
      BY <1>4
    <3> QED
      BY <1>4, <2>2, <3>1, <3>2, <3>3, <3>4
  <2>3. CASE l = m + 1
    <3>1. src[l].item = m /\ src[l].from = n
      <4>1. src[l] = Place(m, n)
        BY <1>5, <2>3
      <4> QED
        BY <4>1, Fields
    <3>2. /\ Len(text[l]) = Len(Rendered(m)) - n
          /\ \A j \in 1 .. Len(text[l]) :
               text[l][j] = Rendered(m)[n + j]
      BY <1>1, <1>3, <1>4, <2>3
    <3>3. n + (Len(Rendered(m)) - n) = Len(Rendered(m))
          /\ Len(Rendered(m)) <= Len(Rendered(m))
      BY <1>4
    <3> QED
      BY <1>4, <3>1, <3>2, <3>3
  <2>4. CASE l \in m + 2 .. Len(text)
    <3>1. /\ l >= m + 2 /\ l - 1 \in 1 .. Len(written) /\ 0 \in Nat
          /\ l \in m + 2 .. Len(ls) + 1
      BY <1>1, <1>4, <2>4
    <3>2. src[l].item = l - 1 /\ src[l].from = 0
      <4>1. src[l] = Place(l - 1, 0)
        BY <1>5, <3>1
      <4> QED
        BY <4>1, Fields
    <3>3. text[l] = Rendered(l - 1) /\ Len(Rendered(l - 1)) \in Nat
      BY <1>1, <1>3, <1>4, <3>1
    <3>4. /\ 0 + Len(text[l]) = Len(Rendered(l - 1))
          /\ Len(Rendered(l - 1)) <= Len(Rendered(l - 1))
          /\ \A j \in 1 .. Len(text[l]) : 0 + j = j
      BY <3>3
    <3> QED
      BY <3>1, <3>2, <3>3, <3>4
  <2>5. \/ l \in 1 .. m - 1 \/ l = m \/ l = m + 1
        \/ l \in m + 2 .. Len(text)
    BY <1>4
  <2> QED
    BY <2>1, <2>2, <2>3, <2>4, <2>5
<1>7. src[1] = Place(1, 0)
  <2>1. 1 \in 1 .. Len(text) /\ 1 <= m
    BY <1>4
  <2> QED
    BY <1>5, <2>1
<1>8. ASSUME NEW l \in 1 .. Len(text) - 1
      PROVE  \/ src[l + 1] = Place(src[l].item, src[l].from + Len(text[l]))
             \/ /\ src[l].from + Len(text[l]) = Len(Rendered(src[l].item))
                /\ src[l + 1] = Place(src[l].item + 1, 0)
  <2>1. l \in 1 .. Len(text) /\ l + 1 \in 1 .. Len(text)
    BY <1>4
  <2>2. CASE l \in 1 .. m - 1
    <3>1. l <= m /\ l + 1 <= m /\ l # m
      BY <1>4, <2>2
    <3>2. src[l].item = l
      <4>1. src[l] = Place(l, 0)
        BY <1>5, <2>1, <3>1
      <4> QED
        BY <4>1, Fields
    <3>3. src[l + 1] = Place(l + 1, 0)
      BY <1>5, <2>1, <3>1
    <3> QED
      BY <1>6, <2>1, <3>1, <3>2, <3>3
  <2>3. CASE l = m
    <3>1. l <= m /\ l + 1 = m + 1 /\ 0 + n = n
      BY <1>4, <2>3
    <3>2. src[l].item = m /\ src[l].from = 0
      <4>1. src[l] = Place(m, 0)
        BY <1>5, <2>1, <2>3, <3>1
      <4> QED
        BY <4>1, Fields
    <3>3. src[l + 1] = Place(m, n)
      BY <1>5, <2>1, <3>1
    <3> QED
      BY <1>3, <2>3, <3>1, <3>2, <3>3
  <2>4. CASE l = m + 1
    <3>1. l # m /\ l + 1 >= m + 2 /\ l + 1 - 1 = m + 1
      BY <1>4, <2>4
    <3>2. src[l].item = m
      <4>1. src[l] = Place(m, n)
        BY <1>5, <2>1, <2>4
      <4> QED
        BY <4>1, Fields
    <3>3. src[l + 1] = Place(m + 1, 0)
      BY <1>5, <2>1, <3>1
    <3> QED
      BY <1>6, <2>1, <3>1, <3>2, <3>3
  <2>5. CASE l \in m + 2 .. Len(text)
    <3>1. /\ l # m /\ l >= m + 2 /\ l + 1 >= m + 2
          /\ l + 1 - 1 = l - 1 + 1
      BY <1>4, <2>5
    <3>2. src[l].item = l - 1
      <4>1. src[l] = Place(l - 1, 0)
        BY <1>5, <2>1, <3>1
      <4> QED
        BY <4>1, Fields
    <3>3. src[l + 1] = Place(l - 1 + 1, 0)
      BY <1>5, <2>1, <3>1
    <3> QED
      BY <1>6, <2>1, <3>1, <3>2, <3>3
  <2>6. \/ l \in 1 .. m - 1 \/ l = m \/ l = m + 1
        \/ l \in m + 2 .. Len(text)
    BY <1>4
  <2> QED
    BY <2>2, <2>3, <2>4, <2>5, <2>6
<1>9. Cuts(src)
  BY <1>3, <1>6, <1>7, <1>8, Zenon DEF Cuts
<1> QED
  BY <1>9

(* The origin of the lines that readproof starts with.                     *)
LEMMA SourceExists ==
  ASSUME Proof!Init
  PROVE  written \in Seq(Proof!ItemType) /\ \E src : Cuts(src)
<1> DEFINE ls == Proof!Lines(written)
<1>1. written \in Seq(Proof!ItemType) /\ text \in Proof!Texts(ls)
  BY ProofAssumption DEF Proof!Init
<1>2. /\ Len(ls) = Len(written) /\ DOMAIN ls = 1 .. Len(written)
      /\ \A k \in 1 .. Len(written) : ls[k] = Rendered(k)
  <2>1. ls \in Seq(Seq(Symbols)) /\ Len(ls) = Len(written)
    BY <1>1, LinesAre
  <2>2. DOMAIN ls = 1 .. Len(ls)
    BY <2>1
  <2> QED
    BY <1>1, <2>1, <2>2, LinesAre
<1>3. CASE text = ls
  BY <1>1, <1>3, WholeSource
<1>4. CASE text # ls
  <2> HIDE DEF ls
  <2>1. PICK p \in Proof!Places(ls) :
          \/ text = Proof!CutAt(ls, p[1], p[2])
          \/ text = Proof!SplitAt(ls, p[1], p[2])
    BY <1>1, <1>4 DEF Proof!Texts
  <2>2. PICK m \in DOMAIN ls : \E n \in 0 .. Len(ls[m]) : p = <<m, n>>
    BY <2>1 DEF Proof!Places
  <2>3. PICK n \in 0 .. Len(ls[m]) : p = <<m, n>>
    BY <2>2
  <2>4. p[1] = m /\ p[2] = n
    BY <2>3
  <2>5. m \in 1 .. Len(written) /\ n \in 0 .. Len(Rendered(m))
    BY <1>2, <2>2, <2>3
  <2> QED
    BY <1>1, <1>4, <2>1, <2>4, <2>5, CutSource, SplitSource DEF ls
<1> QED
  BY <1>1, <1>3, <1>4

-----------------------------------------------------------------------------
(* Where readproof is between its steps.  After the vectors before v of    *)
(* item m, the output parameters are Stage(m, v); before the item they are *)
(* Meaning(m - 1) and after it Meaning(m).                                 *)
Before(v, out, it) ==
  IF v = "clause" THEN out
  ELSE <<Append(out[1], Proof!Values(it.clause)),
         IF v = "support" THEN out[2]
         ELSE Append(out[2], Proof!Values(it.support)),
         out[3], Max({out[4], Len(it.clause)}), out[5] + 1, out[6]>>

Stage(m, v) == Before(v, Proof!Meaning(m - 1), written[m])

(* a words of the line of item m have been read, outside its vectors.      *)
Between(m, a, out) ==
  LET it == written[m]
  IN  IF Proof!IsDegree(it)
      THEN \/ a = 0 /\ out = Proof!Meaning(m - 1)
           \/ a = 2 /\ out = Proof!Meaning(m)
      ELSE \/ a <= 2 /\ out = Proof!Meaning(m - 1)
           \/ a >= Stop(it, "pivot") /\ out = Proof!Meaning(m)

(* The last of them is the keyword w.                                      *)
AtKeyword(m, a, w, out) ==
  LET it == written[m]
  IN  IF Proof!IsDegree(it)
      THEN a = 1 /\ w = "DEGREE:" /\ out = Proof!Meaning(m - 1)
      ELSE \E v \in Vectors : /\ a = First(it, v) - 1
                              /\ w = Proof!Section[v]
                              /\ out = Stage(m, v)

(* The last of them, w, is a number of vector v or its terminator.         *)
InVector(m, a, v, w, its) ==
  LET it == written[m]
  IN  /\ a \in First(it, v) .. Stop(it, v)
      /\ w = Rendered(m)[a]
      /\ its = [i \in 1 .. a - First(it, v) |-> Number[it[v][i]]]

(* The line has ended before the item: nothing more can be extracted.      *)
Starved(src, l, p) ==
  /\ p = Len(text[l])
  /\ src[l].from + p < Len(Rendered(src[l].item))

ReadsVector(src, l, p, w, its, out, v) ==
  LET m == src[l].item
  IN  /\ ~ Proof!IsDegree(written[m])
      /\ out = Stage(m, v)
      /\ \/ InVector(m, src[l].from + p, v, w, its)
         \/ Starved(src, l, p) /\ w # Proof!Terminator[v]

ReadsDegree(src, l, p, w, out) ==
  LET m == src[l].item
  IN  /\ Proof!IsDegree(written[m])
      /\ out = Proof!Meaning(m - 1)
      /\ \/ src[l].from + p = 2 /\ w = written[m].degree
         \/ Starved(src, l, p) /\ w \notin DOMAIN Number

(* What readproof has made of the lines up to word p of line l.            *)
Consistent(src, l, p, w, its, out, q) ==
  /\ l \in 0 .. Len(text)
  /\ l = 0 => q \in {"lines", "done"} /\ out = Proof!Meaning(0)
  /\ l > 0 =>
       LET m == src[l].item
           a == src[l].from + p
       IN  /\ p \in 0 .. Len(text[l])
           /\ q \in {"lines", "words", "done"} => Between(m, a, out)
           /\ q \in {"lines", "done"} => p = Len(text[l])
           /\ q = "keyword" => AtKeyword(m, a, w, out)
           /\ q \in Vectors => ReadsVector(src, l, p, w, its, out, q)
           /\ q = "degree" => ReadsDegree(src, l, p, w, out)
  /\ q = "done" => l = Len(text)
  /\ q = "failed" => text # Proof!Lines(written)

(* The file does not change, so what is said of it does not either.        *)
LEMMA SameFile ==
  ASSUME written' = written, text' = text
  PROVE  /\ \A src : Cuts(src)' <=> Cuts(src)
         /\ \A src, l, p, w, its, out, q :
              Consistent(src, l, p, w, its, out, q)' <=>
                Consistent(src, l, p, w, its, out, q)
<1>1. Proof!Records' = Proof!Records
  BY DEF Proof!Records
<1>2. \A n : Proof!DegreeOf(n)' = Proof!DegreeOf(n)
  BY DEF Proof!DegreeOf
<1>3. \A n : Proof!Meaning(n)' = Proof!Meaning(n)
  BY <1>1, <1>2 DEF Proof!Meaning, Proof!Quantify
<1>4. \A m : Rendered(m)' = Rendered(m)
  BY DEF Rendered
<1>5. \A m, v : Stage(m, v)' = Stage(m, v)
  BY <1>3 DEF Stage
<1>6. \A m, a, out : Between(m, a, out)' <=> Between(m, a, out)
  BY <1>3 DEF Between
<1>7. \A m, a, w, out : AtKeyword(m, a, w, out)' <=> AtKeyword(m, a, w, out)
  BY <1>3, <1>5 DEF AtKeyword
<1>8. \A m, a, v, w, its :
        InVector(m, a, v, w, its)' <=> InVector(m, a, v, w, its)
  BY <1>4 DEF InVector
<1>9. \A src, l, p : Starved(src, l, p)' <=> Starved(src, l, p)
  BY <1>4 DEF Starved
<1>10. \A src, l, p, w, its, out, v :
         ReadsVector(src, l, p, w, its, out, v)' <=>
           ReadsVector(src, l, p, w, its, out, v)
  BY <1>5, <1>8, <1>9 DEF ReadsVector
<1>11. \A src, l, p, w, out :
         ReadsDegree(src, l, p, w, out)' <=> ReadsDegree(src, l, p, w, out)
  BY <1>3, <1>9 DEF ReadsDegree
<1>12. \A src : Cuts(src)' <=> Cuts(src)
  BY <1>4 DEF Cuts
<1>13. \A src, l, p, w, its, out, q :
         Consistent(src, l, p, w, its, out, q)' <=>
           Consistent(src, l, p, w, its, out, q)
  BY <1>3, <1>6, <1>7, <1>10, <1>11 DEF Consistent
<1> QED
  BY <1>12, <1>13

-----------------------------------------------------------------------------
(* What the origin of line l says of its words.                            *)
LEMMA SourceOf ==
  ASSUME NEW src, Cuts(src), NEW l \in 1 .. Len(text)
  PROVE  LET m == src[l].item
             a == src[l].from
         IN  /\ m \in 1 .. Len(written) /\ m \in Nat
             /\ written[m] \in Proof!ItemType
             /\ a \in Nat /\ Len(text[l]) \in Nat
             /\ Len(Rendered(m)) \in Nat /\ Rendered(m) \in Seq(Symbols)
             /\ a + Len(text[l]) <= Len(Rendered(m))
             /\ \A j \in 1 .. Len(text[l]) : text[l][j] = Rendered(m)[a + j]
<1>1. /\ src[l].item \in 1 .. Len(written) /\ src[l].from \in Nat
      /\ src[l].from + Len(text[l]) <= Len(Rendered(src[l].item))
      /\ \A j \in 1 .. Len(text[l]) :
           text[l][j] = Rendered(src[l].item)[src[l].from + j]
  BY DEF Cuts
<1>2. written \in Seq(Proof!ItemType) /\ text \in Seq(Seq(Symbols))
  BY DEF Cuts
<1>3. text[l] \in Seq(Symbols)
  <2> DEFINE Q == Seq(Symbols)
  <2>1. text \in Seq(Q)
    BY <1>2
  <2> HIDE DEF Q
  <2>2. text[l] \in Q
    BY <2>1
  <2> QED
    BY <2>2 DEF Q
<1>4. Len(text[l]) \in Nat
  BY <1>3
<1> DEFINE m == src[l].item
<1>5. m \in 1 .. Len(written)
  BY <1>1
<1> HIDE DEF m
<1>6. m \in Nat /\ written[m] \in Proof!ItemType
  BY <1>2, <1>5
<1>7. Rendered(m) \in Seq(Symbols)
  BY <1>6, RenderedWords DEF Rendered
<1>8. Len(Rendered(m)) \in Nat
  BY <1>7
<1> QED
  BY <1>1, <1>4, <1>6, <1>7, <1>8, Zenon DEF m

(* The line of a DEGREE: item.                                             *)
LEMMA DegreeWords ==
  ASSUME NEW m, written[m] \in Proof!ItemType, Proof!IsDegree(written[m])
  PROVE  /\ Len(Rendered(m)) = 2
         /\ Rendered(m)[1] = "DEGREE:" /\ Rendered(m)[2] = written[m].degree
         /\ written[m].degree \in DOMAIN Number
<1>1. Rendered(m) = <<"DEGREE:", written[m].degree>>
  BY RenderedWords DEF Rendered
<1> QED
  BY <1>1, ItemKinds

(* The vectors of a record follow each other, one keyword in between.      *)
LEMMA RecordPlaces ==
  ASSUME NEW it \in Proof!ItemType, ~ Proof!IsDegree(it)
  PROVE  /\ \A v \in Vectors :
              /\ it[v] \in Seq(DOMAIN Number) /\ Len(it[v]) \in Nat
              /\ First(it, v) \in Nat /\ Stop(it, v) \in Nat
              /\ First(it, v) >= 4
              /\ Stop(it, v) = First(it, v) + Len(it[v])
              /\ Stop(it, v) <= Stop(it, "pivot")
         /\ First(it, "clause") = 4
         /\ First(it, "support") = Stop(it, "clause") + 1
         /\ First(it, "pivot") = Stop(it, "support") + 1
<1>1. \A v \in Vectors : it[v] \in Seq(DOMAIN Number)
  BY ItemKinds
<1>2. \A v \in Vectors : Len(it[v]) \in Nat
  BY <1>1
<1> DEFINE c == Len(it["clause"])
           s == Len(it["support"])
           p == Len(it["pivot"])
<1>3. c \in Nat /\ s \in Nat /\ p \in Nat
  BY <1>2 DEF Vectors
<1>4. /\ First(it, "clause") = 4 /\ Stop(it, "clause") = 4 + c
      /\ First(it, "support") = 5 + c /\ Stop(it, "support") = 5 + c + s
      /\ First(it, "pivot") = 6 + c + s /\ Stop(it, "pivot") = 6 + c + s + p
  BY DEF First, Stop
<1>5. \A v \in Vectors : Stop(it, v) = First(it, v) + Len(it[v])
  BY DEF Stop
<1> HIDE DEF c, s, p
<1>6. ASSUME NEW v \in Vectors
      PROVE  /\ First(it, v) \in Nat /\ Stop(it, v) \in Nat
             /\ First(it, v) >= 4 /\ Stop(it, v) <= Stop(it, "pivot")
  BY <1>3, <1>4 DEF Vectors
<1> QED
  BY <1>1, <1>2, <1>3, <1>4, <1>5, <1>6

(* The words of a vector are numbers.                                      *)
LEMMA VectorWord ==
  ASSUME NEW m, written[m] \in Proof!ItemType, ~ Proof!IsDegree(written[m]),
         NEW v \in Vectors,
         NEW a \in First(written[m], v) .. Stop(written[m], v),
         a # Stop(written[m], v)
  PROVE  LET i == a - First(written[m], v) + 1
         IN  /\ i \in 1 .. Len(written[m][v])
             /\ Rendered(m)[a] = written[m][v][i]
             /\ Rendered(m)[a] \in DOMAIN Number
<1> DEFINE it == written[m]
           f == First(it, v)
           i == a - f + 1
<1>1. /\ it[v] \in Seq(DOMAIN Number) /\ Len(it[v]) \in Nat /\ f \in Nat
      /\ Stop(it, v) = f + Len(it[v])
  BY RecordPlaces
<1>2. i \in 1 .. Len(it[v]) /\ f + i - 1 = a
  BY <1>1
<1>3. Rendered(m)[f + i - 1] = it[v][i]
  BY <1>2, RecordWords DEF Rendered
<1>4. it[v][i] \in DOMAIN Number
  <2> HIDE DEF it, i
  <2> QED
    BY <1>1, <1>2
<1> QED
  BY <1>2, <1>3, <1>4

(* The keywords around vector v, of which the second is no number and      *)
(* differs from the first, and the line goes on after it.                  *)
LEMMA Terminators ==
  ASSUME NEW m, written[m] \in Proof!ItemType, ~ Proof!IsDegree(written[m]),
         NEW v \in Vectors
  PROVE  /\ Rendered(m)[Stop(written[m], v)] = Proof!Terminator[v]
         /\ Proof!Terminator[v] \notin DOMAIN Number
         /\ Proof!Section[v] # Proof!Terminator[v]
         /\ Stop(written[m], v) < Len(Rendered(m))
         /\ Rendered(m)[First(written[m], v) - 1] = Proof!Section[v]
<1>1. /\ Rendered(m)[Stop(written[m], v)] = Proof!Terminator[v]
      /\ Rendered(m)[First(written[m], v) - 1] = Proof!Section[v]
      /\ Len(Rendered(m)) = Stop(written[m], "pivot") + 1
  BY RecordWords DEF Rendered
<1>2. Stop(written[m], v) < Len(Rendered(m))
  BY <1>1, RecordPlaces DEF Vectors
<1>3. Proof!Terminator[v] \in {"support:", "pivot:", "end:"}
      /\ Proof!Section[v] # Proof!Terminator[v]
  BY DEF Vectors, Proof!Terminator, Proof!Section
<1>4. Proof!Terminator[v] \notin DOMAIN Number
  BY <1>3, ProofAssumption
<1> QED
  BY <1>1, <1>2, <1>3, <1>4

(* At the end of the line the item has been read.                          *)
LEMMA EndOfItem ==
  ASSUME NEW m, written[m] \in Proof!ItemType, NEW out,
         Between(m, Len(Rendered(m)), out)
  PROVE  out = Proof!Meaning(m)
<1>1. CASE Proof!IsDegree(written[m])
  <2>1. Len(Rendered(m)) = 2
    BY <1>1, DegreeWords
  <2> QED
    BY <1>1, <2>1 DEF Between
<1>2. CASE ~ Proof!IsDegree(written[m])
  <2>1. Len(Rendered(m)) = Stop(written[m], "pivot") + 1
    BY <1>2, RecordWords DEF Rendered
  <2>2. Stop(written[m], "pivot") \in Nat /\ Stop(written[m], "pivot") >= 4
    BY <1>2, RecordPlaces DEF Vectors
  <2>3. ~ (Len(Rendered(m)) <= 2)
    BY <2>1, <2>2
  <2> QED
    BY <1>2, <2>3 DEF Between
<1> QED
  BY <1>1, <1>2

-----------------------------------------------------------------------------
(* The step at hand starts where readproof is, There is where it ends.     *)
Here(src) ==
  Consistent(src, line, pos, word, item, Proof!output, proof_pc)

There(src) ==
  Consistent(src, line', pos', word', item', Proof!output', proof_pc')

(* ss >> word reads the next word of the item, or nothing at the end of    *)
(* the line.                                                               *)
LEMMA ExtractWord ==
  ASSUME NEW src, Cuts(src), line \in 1 .. Len(text),
         pos \in 0 .. Len(text[line]), Proof!Extract
  PROVE  LET m == src[line].item
             a == src[line].from + pos
             b == src[line].from + pos'
         IN  /\ pos' \in 0 .. Len(text[line])
             /\ \/ /\ pos < Len(text[line]) /\ b = a + 1
                   /\ a + 1 <= Len(Rendered(m))
                   /\ word' = Rendered(m)[b]
                \/ /\ pos = Len(text[line]) /\ pos' = pos
                   /\ word' = word
<1> DEFINE m == src[line].item
           from == src[line].from
<1>1. /\ from \in Nat /\ Len(text[line]) \in Nat /\ Len(Rendered(m)) \in Nat
      /\ from + Len(text[line]) <= Len(Rendered(m))
      /\ \A j \in 1 .. Len(text[line]) :
           text[line][j] = Rendered(m)[from + j]
  BY SourceOf
<1> HIDE DEF m, from
<1>2. CASE pos < Len(text[line])
  <2>1. word' = text[line][pos + 1] /\ pos' = pos + 1
    BY <1>2 DEF Proof!Extract
  <2>2. /\ pos + 1 \in 1 .. Len(text[line]) /\ pos + 1 \in 0 .. Len(text[line])
        /\ from + (pos + 1) = from + pos + 1
        /\ from + pos + 1 <= Len(Rendered(m))
    BY <1>1, <1>2
  <2> QED
    BY <1>1, <1>2, <2>1, <2>2 DEF m, from
<1>3. CASE ~ (pos < Len(text[line]))
  <2>1. word' = word /\ pos' = pos /\ pos = Len(text[line])
    BY <1>1, <1>3 DEF Proof!Extract
  <2> QED
    BY <2>1 DEF m, from
<1> QED
  BY <1>2, <1>3

(* Before its first word the item has said nothing.                        *)
LEMMA BeginsItem ==
  ASSUME NEW m, NEW a, a = 0
  PROVE  Between(m, a, Proof!Meaning(m - 1))
<1>1. 0 <= 2
  OBVIOUS
<1> QED
  BY <1>1, Zenon DEF Between

(* Each step of readproof, with the whole of the branch's guard and        *)
(* changes: the new position in the file and the new position in readproof *)
(* fit again.  At a new line the item of the last one goes on or the next  *)
(* one begins.                                                             *)
LEMMA NextLineStep ==
  ASSUME NEW src, Cuts(src), Here(src), Proof!NextLine
  PROVE  There(src)
<1>1. /\ proof_pc = "lines" /\ line < Len(text) /\ line \in 0 .. Len(text)
      /\ Len(text) \in Nat /\ line' = line + 1 /\ pos' = 0
      /\ proof_pc' = "words" /\ Proof!output' = Proof!output
  <2>1. Len(text) \in Nat
    BY DEF Cuts
  <2> QED
    BY <2>1 DEF Proof!NextLine, Proof!output, Here, Consistent
<1> DEFINE n == line + 1
           m == src[n].item
           out == Proof!output
<1>2. n \in 1 .. Len(text) /\ n > 0 /\ n \in 0 .. Len(text)
  BY <1>1
<1>3. /\ src[n].from \in Nat /\ src[n].from + 0 = src[n].from
      /\ Len(text[n]) \in Nat /\ 0 \in 0 .. Len(text[n])
  BY <1>2, SourceOf
<1>4. Between(m, src[n].from, out)
  <2>1. CASE line = 0
    <3>1. n = 1 /\ Len(text) > 0
      BY <1>1, <2>1
    <3>2. src[n] = Place(1, 0)
      BY <3>1 DEF Cuts
    <3>3. m = 1 /\ src[n].from = 0 /\ 1 - 1 = 0
      BY <3>2, Fields
    <3>4. out = Proof!Meaning(0)
      BY <2>1 DEF Here, Consistent
    <3> QED
      BY <3>3, <3>4, BeginsItem
  <2>2. CASE line # 0
    <3> DEFINE k == src[line].item
               b == src[line].from + Len(text[line])
    <3>1. line \in 1 .. Len(text) - 1 /\ line > 0 /\ line \in 1 .. Len(text)
      BY <1>1, <2>2
    <3>2. Between(k, b, out)
      BY <1>1, <3>1 DEF Here, Consistent
    <3>3. k \in Nat /\ written[k] \in Proof!ItemType
      BY <3>1, SourceOf
    <3>4. CASE src[n] = Place(k, b)
      <4>1. m = k /\ src[n].from = b
        BY <3>4, Fields
      <4> QED
        BY <3>2, <4>1
    <3>5. CASE b = Len(Rendered(k)) /\ src[n] = Place(k + 1, 0)
      <4>1. m = k + 1 /\ src[n].from = 0 /\ k + 1 - 1 = k
        BY <3>3, <3>5, Fields
      <4>2. out = Proof!Meaning(k)
        BY <3>2, <3>3, <3>5, EndOfItem
      <4> HIDE DEF k, m, out
      <4>3. m - 1 = k
        BY <3>3, <4>1
      <4>4. out = Proof!Meaning(m - 1)
        BY <4>2, <4>3
      <4> QED
        BY <4>1, <4>4, BeginsItem
    <3> QED
      BY <3>1, <3>4, <3>5 DEF Cuts
  <2> QED
    BY <2>1, <2>2
<1> HIDE DEF n
<1>5. line' = n
  BY <1>1 DEF n
<1> QED
  BY <1>1, <1>2, <1>3, <1>4, <1>5 DEF There, Consistent, Vectors

(* Outside the vectors the words are index:, its 0, the keyword that opens *)
(* the first vector, DEGREE: and the 0 after end:.                         *)
LEMMA NextWordStep ==
  ASSUME NEW src, Cuts(src), Here(src), Proof!NextWord
  PROVE  There(src)
<1> DEFINE m == src[line].item
           it == written[m]
           a == src[line].from + pos
           b == src[line].from + pos'
           out == Proof!output
<1>1. /\ proof_pc = "words" /\ pos < Len(text[line]) /\ Proof!Extract
      /\ line' = line /\ Proof!output' = out
      /\ proof_pc' = IF \E s \in DOMAIN Proof!Section :
                            Proof!Section[s] = word'
                     THEN "keyword" ELSE "words"
  BY DEF Proof!NextWord, Proof!output
<1>2. /\ line \in 1 .. Len(text) /\ line > 0 /\ line \in 0 .. Len(text)
      /\ pos \in 0 .. Len(text[line]) /\ Between(m, a, out)
  <2>1. line \in 0 .. Len(text) /\ line # 0 /\ Len(text) \in Nat
    BY <1>1 DEF Here, Consistent, Cuts
  <2>2. line > 0
    BY <2>1
  <2> QED
    BY <1>1, <2>1, <2>2 DEF Here, Consistent
<1>3. /\ it \in Proof!ItemType /\ src[line].from \in Nat
      /\ Len(Rendered(m)) \in Nat /\ Len(text[line]) \in Nat
  BY <1>2, SourceOf
<1>4. /\ pos' \in 0 .. Len(text[line]) /\ b = a + 1
      /\ a + 1 <= Len(Rendered(m)) /\ word' = Rendered(m)[b] /\ a \in Nat
  <2>1. pos # Len(text[line]) /\ a \in Nat
    BY <1>1, <1>2, <1>3
  <2> QED
    BY <1>1, <1>2, <2>1, ExtractWord
<1>5. \/ proof_pc' = "words" /\ Between(m, b, out)
      \/ proof_pc' = "keyword" /\ AtKeyword(m, b, word', out)
  <2>1. /\ DOMAIN Proof!Section = {"clause", "support", "pivot", "degree"}
        /\ Proof!Section["clause"] = "clause:"
        /\ Proof!Section["support"] = "support:"
        /\ Proof!Section["pivot"] = "pivot:"
        /\ Proof!Section["degree"] = "DEGREE:"
    BY DEF Proof!Section
  <2>2. "0" \notin {"clause:", "support:", "pivot:", "DEGREE:"}
    OBVIOUS
  <2>3. CASE Proof!IsDegree(it)
    <3>1. Len(Rendered(m)) = 2 /\ Rendered(m)[1] = "DEGREE:"
      BY <1>3, <2>3, DegreeWords
    <3>2. a # 2
      BY <1>4, <3>1
    <3>3. a = 0 /\ out = Proof!Meaning(m - 1)
      BY <1>2, <2>3, <3>2 DEF Between
    <3>4. b = 1 /\ word' = "DEGREE:"
      BY <1>4, <3>1, <3>3
    <3>5. proof_pc' = "keyword"
      BY <1>1, <2>1, <3>4
    <3> QED
      BY <2>3, <3>3, <3>4, <3>5 DEF AtKeyword
  <2>4. CASE ~ Proof!IsDegree(it)
    <3> DEFINE stop == Stop(it, "pivot")
    <3>1. /\ Len(Rendered(m)) = stop + 1 /\ stop \in Nat
          /\ Rendered(m)[1] = "index:" /\ Rendered(m)[2] = "0"
          /\ Rendered(m)[stop + 1] = "0"
          /\ First(it, "clause") = 4
          /\ Rendered(m)[4 - 1] = Proof!Section["clause"]
      <4>1. /\ Len(Rendered(m)) = stop + 1
            /\ Rendered(m)[1] = "index:" /\ Rendered(m)[2] = "0"
            /\ Rendered(m)[Len(Rendered(m))] = "0"
            /\ Rendered(m)[First(it, "clause") - 1] =
                 Proof!Section["clause"]
        BY <1>3, <2>4, RecordWords DEF Rendered, Vectors
      <4>2. First(it, "clause") = 4 /\ stop \in Nat
        BY <1>3, <2>4, RecordPlaces DEF Vectors
      <4> QED
        BY <4>1, <4>2
    <3>2. CASE a <= 2 /\ out = Proof!Meaning(m - 1)
      <4>1. CASE a = 0
        <5>1. b = 1 /\ word' = "index:" /\ b <= 2
          BY <1>4, <3>1, <4>1
        <5>2. proof_pc' = "words"
          BY <1>1, <2>1, <5>1
        <5> QED
          BY <2>4, <3>2, <5>1, <5>2 DEF Between
      <4>2. CASE a = 1
        <5>1. b = 2 /\ word' = "0" /\ b <= 2
          BY <1>4, <3>1, <4>2
        <5>2. proof_pc' = "words"
          BY <1>1, <2>1, <2>2, <5>1
        <5> QED
          BY <2>4, <3>2, <5>1, <5>2 DEF Between
      <4>3. CASE a = 2
        <5>1. b = 4 - 1 /\ word' = Proof!Section["clause"]
          BY <1>4, <3>1, <4>3
        <5>2. proof_pc' = "keyword"
          BY <1>1, <2>1, <5>1
        <5>3. out = Stage(m, "clause")
          BY <3>2 DEF Stage, Before
        <5>4. "clause" \in Vectors
          BY DEF Vectors
        <5> QED
          BY <2>4, <3>1, <5>1, <5>2, <5>3, <5>4 DEF AtKeyword
      <4> QED
        BY <1>4, <3>2, <4>1, <4>2, <4>3
    <3>3. CASE a >= stop /\ out = Proof!Meaning(m)
      <4>1. b = stop + 1 /\ b >= stop
        BY <1>4, <3>1, <3>3
      <4>2. word' = "0"
        BY <1>4, <3>1, <4>1
      <4>3. proof_pc' = "words"
        BY <1>1, <2>1, <2>2, <4>2
      <4> QED
        BY <2>4, <3>3, <4>1, <4>3 DEF Between
    <3> QED
      BY <1>2, <2>4, <3>2, <3>3 DEF Between
  <2> QED
    BY <2>3, <2>4
<1> QED
  BY <1>1, <1>2, <1>4, <1>5 DEF There, Consistent, Vectors

-----------------------------------------------------------------------------
(* What is known wherever a line is being read.                            *)
LEMMA OnLine ==
  ASSUME NEW src, Cuts(src), Here(src),
         proof_pc \notin {"lines", "done", "failed"}
  PROVE  LET m == src[line].item
         IN  /\ line \in 1 .. Len(text) /\ line > 0 /\ line \in 0 .. Len(text)
             /\ pos \in 0 .. Len(text[line]) /\ pos \in Nat
             /\ m \in 1 .. Len(written) /\ m \in Nat
             /\ written[m] \in Proof!ItemType
             /\ src[line].from \in Nat /\ src[line].from + pos \in Nat
             /\ Len(Rendered(m)) \in Nat
<1>1. line \in 0 .. Len(text) /\ line # 0 /\ Len(text) \in Nat
  BY DEF Here, Consistent, Cuts
<1>2. line \in 1 .. Len(text) /\ line > 0
  BY <1>1
<1>3. pos \in 0 .. Len(text[line])
  BY <1>2 DEF Here, Consistent
<1> DEFINE m == src[line].item
<1>4. /\ m \in 1 .. Len(written) /\ m \in Nat
      /\ written[m] \in Proof!ItemType /\ src[line].from \in Nat
      /\ Len(Rendered(m)) \in Nat /\ Len(text[line]) \in Nat
  BY <1>2, SourceOf
<1>5. pos \in Nat /\ src[line].from + pos \in Nat
  BY <1>3, <1>4
<1> QED
  BY <1>1, <1>2, <1>3, <1>4, <1>5

(* To stay on the line, one of the positions within a line must fit.       *)
LEMMA StaysOnLine ==
  ASSUME NEW src, line \in 1 .. Len(text), line > 0, line \in 0 .. Len(text),
         line' = line, pos' \in 0 .. Len(text[line]),
         NEW out, out = Proof!output',
         \/ /\ proof_pc' = "words"
            /\ Between(src[line].item, src[line].from + pos', out)
         \/ /\ proof_pc' = "keyword"
            /\ AtKeyword(src[line].item, src[line].from + pos', word', out)
         \/ /\ proof_pc' = "degree"
            /\ ReadsDegree(src, line, pos', word', out)
         \/ /\ proof_pc' \in Vectors
            /\ ReadsVector(src, line, pos', word', item', out, proof_pc')
  PROVE  There(src)
<1>1. line # 0
  OBVIOUS
<1> QED
  BY <1>1 DEF There, Consistent, Vectors

(* After a keyword the first word of its vector is read, or the line ends  *)
(* there and nothing ends the loop but a failure.                          *)
LEMMA KeywordStep ==
  ASSUME NEW src, Cuts(src), Here(src), Proof!Keyword
  PROVE  There(src)
<1> DEFINE m == src[line].item
           it == written[m]
           a == src[line].from + pos
           b == src[line].from + pos'
           out == Proof!output
<1>1. /\ proof_pc = "keyword" /\ Proof!Extract /\ item' = <<>>
      /\ line' = line /\ Proof!output' = out
      /\ proof_pc' = CHOOSE s \in DOMAIN Proof!Section :
                       Proof!Section[s] = word
  BY DEF Proof!Keyword, Proof!output
<1>2. /\ line \in 1 .. Len(text) /\ line > 0 /\ line \in 0 .. Len(text)
      /\ pos \in 0 .. Len(text[line]) /\ it \in Proof!ItemType
      /\ a \in Nat /\ Len(Rendered(m)) \in Nat
  BY <1>1, OnLine
<1>3. AtKeyword(m, a, word, out)
  BY <1>1, <1>2 DEF Here, Consistent
<1>4. /\ pos' \in 0 .. Len(text[line])
      /\ \/ /\ b = a + 1 /\ word' = Rendered(m)[b]
         \/ pos = Len(text[line]) /\ pos' = pos /\ word' = word
  BY <1>1, <1>2, ExtractWord
<1>5. /\ DOMAIN Proof!Section = {"clause", "support", "pivot", "degree"}
      /\ Proof!Section["clause"] = "clause:"
      /\ Proof!Section["support"] = "support:"
      /\ Proof!Section["pivot"] = "pivot:"
      /\ Proof!Section["degree"] = "DEGREE:"
  BY DEF Proof!Section
<1>6. \A v \in DOMAIN Proof!Section : word = Proof!Section[v] => proof_pc' = v
  BY <1>1, <1>5
<1>7. CASE Proof!IsDegree(it)
  <2>1. a = 1 /\ word = "DEGREE:" /\ out = Proof!Meaning(m - 1)
    BY <1>3, <1>7 DEF AtKeyword
  <2>2. proof_pc' = "degree"
    BY <1>5, <1>6, <2>1
  <2>3. Len(Rendered(m)) = 2 /\ Rendered(m)[2] = it.degree
    BY <1>2, <1>7, DegreeWords
  <2>4. ReadsDegree(src, line, pos', word', out)
    <3>1. CASE b = a + 1 /\ word' = Rendered(m)[b]
      <4>1. b = 2 /\ word' = it.degree
        BY <2>1, <2>3, <3>1
      <4> QED
        BY <1>7, <2>1, <4>1 DEF ReadsDegree
    <3>2. CASE pos = Len(text[line]) /\ pos' = pos /\ word' = word
      <4>1. a < Len(Rendered(m)) /\ b = a
        BY <2>1, <2>3, <3>2
      <4>2. Starved(src, line, pos')
        BY <3>2, <4>1 DEF Starved
      <4>3. word' \notin DOMAIN Number
        BY <2>1, <3>2, ProofAssumption
      <4> QED
        BY <1>7, <2>1, <4>2, <4>3 DEF ReadsDegree
    <3> QED
      BY <1>4, <3>1, <3>2
  <2> QED
    BY <1>1, <1>2, <1>4, <2>2, <2>4, StaysOnLine, Zenon
<1>8. CASE ~ Proof!IsDegree(it)
  <2>1. PICK v \in Vectors : /\ a = First(it, v) - 1
                             /\ word = Proof!Section[v]
                             /\ out = Stage(m, v)
    BY <1>3, <1>8 DEF AtKeyword
  <2>2. proof_pc' = v
    BY <1>5, <1>6, <2>1 DEF Vectors
  <2>3. /\ First(it, v) \in Nat /\ Stop(it, v) \in Nat
        /\ Stop(it, v) = First(it, v) + Len(it[v]) /\ Len(it[v]) \in Nat
        /\ Stop(it, v) < Len(Rendered(m))
        /\ Proof!Section[v] # Proof!Terminator[v]
    BY <1>2, <1>8, RecordPlaces, Terminators
  <2>4. ReadsVector(src, line, pos', word', item', out, v)
    <3>1. CASE b = a + 1 /\ word' = Rendered(m)[b]
      <4>1. b = First(it, v) /\ b \in First(it, v) .. Stop(it, v)
            /\ 1 .. b - First(it, v) = {}
        BY <2>1, <2>3, <3>1
      <4>2. item' = [i \in 1 .. b - First(it, v) |-> Number[it[v][i]]]
        BY <1>1, <4>1
      <4>3. InVector(m, b, v, word', item')
        BY <3>1, <4>1, <4>2 DEF InVector
      <4> QED
        BY <1>8, <2>1, <4>3 DEF ReadsVector
    <3>2. CASE pos = Len(text[line]) /\ pos' = pos /\ word' = word
      <4>1. a < Len(Rendered(m)) /\ b = a
        BY <2>1, <2>3, <3>2
      <4>2. Starved(src, line, pos') /\ word' # Proof!Terminator[v]
        BY <2>1, <2>3, <3>2, <4>1 DEF Starved
      <4> QED
        BY <1>8, <2>1, <4>2 DEF ReadsVector
    <3> QED
      BY <1>4, <3>1, <3>2
  <2> QED
    BY <1>1, <1>2, <1>4, <2>1, <2>2, <2>4, StaysOnLine, Zenon
<1> QED
  BY <1>7, <1>8

(* A number is pushed and the next word read, or the same number stays for *)
(* ever.                                                                   *)
LEMMA PushStep ==
  ASSUME NEW src, Cuts(src), Here(src), Proof!Push
  PROVE  There(src)
<1> DEFINE m == src[line].item
           it == written[m]
           a == src[line].from + pos
           b == src[line].from + pos'
           out == Proof!output
           v == proof_pc
<1>1. /\ v \in Vectors /\ Proof!Extract /\ line' = line
      /\ item' = Append(item, Number[word]) /\ word \in DOMAIN Number
      /\ Proof!output' = out /\ proof_pc' = v
  BY DEF Proof!Push, Proof!output, Proof!Terminator, Vectors
<1>2. /\ line \in 1 .. Len(text) /\ line > 0 /\ line \in 0 .. Len(text)
      /\ pos \in 0 .. Len(text[line]) /\ it \in Proof!ItemType
      /\ a \in Nat /\ Len(Rendered(m)) \in Nat
  BY <1>1, OnLine DEF Vectors
<1>3. ReadsVector(src, line, pos, word, item, out, v)
  BY <1>1, <1>2 DEF Here, Consistent
<1>4. ~ Proof!IsDegree(it) /\ out = Stage(m, v)
  BY <1>3 DEF ReadsVector
<1>5. /\ pos' \in 0 .. Len(text[line])
      /\ \/ /\ pos < Len(text[line]) /\ b = a + 1 /\ word' = Rendered(m)[b]
         \/ pos = Len(text[line]) /\ pos' = pos /\ word' = word
  BY <1>1, <1>2, ExtractWord
<1>6. /\ First(it, v) \in Nat /\ Stop(it, v) \in Nat
      /\ Stop(it, v) = First(it, v) + Len(it[v]) /\ Len(it[v]) \in Nat
      /\ Stop(it, v) < Len(Rendered(m))
      /\ Rendered(m)[Stop(it, v)] = Proof!Terminator[v]
      /\ Proof!Terminator[v] \notin DOMAIN Number
  BY <1>1, <1>2, <1>4, RecordPlaces, Terminators
<1>7. ReadsVector(src, line, pos', word', item', out, v)
  <2>1. CASE InVector(m, a, v, word, item)
    <3>1. /\ a \in First(it, v) .. Stop(it, v) /\ word = Rendered(m)[a]
          /\ item = [i \in 1 .. a - First(it, v) |-> Number[it[v][i]]]
      BY <2>1 DEF InVector
    <3>2. a # Stop(it, v)
      BY <1>1, <1>6, <3>1
    <3> DEFINE i == a - First(it, v) + 1
    <3>3. i \in 1 .. Len(it[v]) /\ word = it[v][i]
      BY <1>1, <1>2, <1>4, <3>1, <3>2, VectorWord
    <3>4. CASE pos < Len(text[line]) /\ b = a + 1 /\ word' = Rendered(m)[b]
      <4>1. b \in First(it, v) .. Stop(it, v) /\ b - First(it, v) = i
        BY <1>6, <3>1, <3>2, <3>4
      <4>2. item' = [j \in 1 .. i |-> Number[it[v][j]]]
        <5> DEFINE f(j) == Number[it[v][j]]
                   n == a - First(it, v)
        <5>1. n \in Nat /\ i = n + 1
          BY <1>6, <3>1
        <5>2. item = [j \in 1 .. n |-> f(j)] /\ item' = Append(item, f(i))
          BY <1>1, <3>1, <3>3
        <5> HIDE DEF n, i, f
        <5>3. item' = [j \in 1 .. i |-> f(j)]
          BY <5>1, <5>2
        <5> QED
          BY <5>3 DEF f
      <4>3. InVector(m, b, v, word', item')
        <5> HIDE DEF i
        <5> QED
          BY <3>4, <4>1, <4>2 DEF InVector
      <4> QED
        BY <1>4, <4>3 DEF ReadsVector
    <3>5. CASE pos = Len(text[line]) /\ pos' = pos /\ word' = word
      <4>1. a < Len(Rendered(m)) /\ b = a
        <5>1. b = a
          BY <3>5, Zenon
        <5> HIDE DEF a, m, it, v
        <5>2. a < Len(Rendered(m))
          BY <1>2, <1>6, <3>1
        <5> QED
          BY <5>1, <5>2
      <4>2. Starved(src, line, pos') /\ word' # Proof!Terminator[v]
        BY <1>1, <1>6, <3>5, <4>1 DEF Starved
      <4> QED
        BY <1>4, <4>2 DEF ReadsVector
    <3> QED
      BY <1>5, <3>4, <3>5
  <2>2. CASE Starved(src, line, pos) /\ word # Proof!Terminator[v]
    <3>1. pos = Len(text[line])
      BY <2>2 DEF Starved
    <3>2. pos' = pos /\ word' = word
      BY <1>2, <1>5, <3>1
    <3> QED
      BY <1>4, <2>2, <3>2 DEF ReadsVector
  <2> QED
    BY <1>3, <2>1, <2>2 DEF ReadsVector
<1> QED
  BY <1>1, <1>2, <1>5, <1>7, StaysOnLine, Zenon

-----------------------------------------------------------------------------
(* A file that is neither cut nor broken: every item has its line.         *)
LEMMA WholeLine ==
  ASSUME NEW src, Cuts(src), text = Proof!Lines(written),
         NEW l \in 1 .. Len(text)
  PROVE  /\ src[l].item = l /\ src[l].from = 0
         /\ Len(text[l]) = Len(Rendered(l)) /\ Len(text) = Len(written)
<1>1. src[l] = Place(l, 0)
  BY DEF Cuts, Place
<1>2. Len(text) = Len(written) /\ text[l] = Rendered(l)
  <2>1. written \in Seq(Proof!ItemType)
    BY DEF Cuts
  <2>2. Len(text) = Len(written)
    BY <2>1, LinesAre
  <2> QED
    BY <2>1, <2>2, LinesAre
<1> QED
  BY <1>1, <1>2, Fields

(* No line of a complete file ends before its item.                        *)
LEMMA NeverStarved ==
  ASSUME NEW src, Cuts(src), text = Proof!Lines(written),
         NEW l \in 1 .. Len(text), NEW p
  PROVE  ~ Starved(src, l, p)
<1>1. /\ src[l].item = l /\ src[l].from = 0
      /\ Len(text[l]) = Len(Rendered(l))
  BY WholeLine
<1>2. Len(Rendered(src[l].item)) \in Nat
  BY SourceOf
<1> SUFFICES ASSUME Starved(src, l, p) PROVE FALSE
  OBVIOUS
<1>3. 0 + Len(Rendered(l)) < Len(Rendered(l)) /\ Len(Rendered(l)) \in Nat
  BY <1>1, <1>2 DEF Starved
<1> QED
  BY <1>3

(* stoi throws and the memory runs out only on lines that end early.       *)
LEMMA ThrowStep ==
  ASSUME NEW src, Cuts(src), Here(src), Proof!Throw,
         \A m \in 1 .. Len(written) : Proof!Fits(written[m])
  PROVE  There(src)
<1> DEFINE m == src[line].item
           it == written[m]
           a == src[line].from + pos
           out == Proof!output
           v == proof_pc
<1>1. /\ v \in Vectors \cup {"degree"}
      /\ line' = line /\ pos' = pos /\ proof_pc' = "failed"
      /\ v \in Vectors =>
           /\ word # Proof!Terminator[v]
           /\ word \notin DOMAIN Number \/ Len(item) = MemoryBound
      /\ v = "degree" => word \notin DOMAIN Number
  BY DEF Proof!Throw, Proof!Terminator, Vectors
<1>2. /\ line \in 1 .. Len(text) /\ line > 0 /\ line \in 0 .. Len(text)
      /\ pos \in 0 .. Len(text[line]) /\ it \in Proof!ItemType
      /\ m \in 1 .. Len(written)
  BY <1>1, OnLine DEF Vectors
<1>3. ASSUME text = Proof!Lines(written) PROVE FALSE
  <2>1. ~ Starved(src, line, pos)
    BY <1>2, <1>3, NeverStarved
  <2>2. CASE v = "degree"
    <3>1. /\ Proof!IsDegree(it) /\ word = it.degree
      BY <1>2, <2>1, <2>2 DEF Here, Consistent, ReadsDegree
    <3> QED
      BY <1>1, <1>2, <2>2, <3>1, ItemKinds
  <2>3. CASE v \in Vectors
    <3>1. ~ Proof!IsDegree(it) /\ InVector(m, a, v, word, item)
      BY <1>2, <2>1, <2>3 DEF Here, Consistent, ReadsVector
    <3>2. /\ a \in First(it, v) .. Stop(it, v) /\ word = Rendered(m)[a]
          /\ item = [i \in 1 .. a - First(it, v) |-> Number[it[v][i]]]
      BY <3>1 DEF InVector
    <3>3. /\ First(it, v) \in Nat /\ Len(it[v]) \in Nat
          /\ Stop(it, v) = First(it, v) + Len(it[v])
          /\ Rendered(m)[Stop(it, v)] = Proof!Terminator[v]
      BY <1>2, <2>3, <3>1, RecordPlaces, Terminators
    <3>4. a # Stop(it, v)
      BY <1>1, <2>3, <3>2, <3>3
    <3>5. word \in DOMAIN Number
      BY <1>2, <2>3, <3>1, <3>2, <3>4, VectorWord
    <3>6. Len(item) = a - First(it, v)
      BY <3>2, <3>3
    <3>7. Len(item) < Len(it[v]) /\ Len(item) \in Nat
      <4> HIDE DEF it, a, v
      <4>1. a - First(it, v) < Len(it[v]) /\ a - First(it, v) \in Nat
        BY <3>2, <3>3, <3>4
      <4> QED
        BY <3>6, <4>1, Zenon
    <3>8. Len(it[v]) <= MemoryBound
      BY <1>2, <2>3, <3>1 DEF Proof!Fits, Vectors
    <3>9. Len(item) = MemoryBound /\ MemoryBound \in Nat
      BY <1>1, <2>3, <3>5, ProofAssumption
    <3> QED
      BY <3>3, <3>7, <3>8, <3>9
  <2> QED
    BY <1>1, <2>2, <2>3
<1>4. line # 0
  BY <1>2
<1> QED
  BY <1>1, <1>2, <1>3, <1>4 DEF There, Consistent, Vectors

(* At its terminator a vector has been read as it was written.             *)
LEMMA VectorRead ==
  ASSUME NEW src, Cuts(src), Here(src), proof_pc \in Vectors,
         word = Proof!Terminator[proof_pc]
  PROVE  LET m == src[line].item
             v == proof_pc
         IN  /\ ~ Proof!IsDegree(written[m])
             /\ Proof!output = Stage(m, v)
             /\ src[line].from + pos = Stop(written[m], v)
             /\ item = Proof!Values(written[m][v])
<1> DEFINE m == src[line].item
           it == written[m]
           a == src[line].from + pos
           v == proof_pc
<1>1. /\ line \in 1 .. Len(text) /\ line > 0 /\ it \in Proof!ItemType
  BY OnLine DEF Vectors
<1>2. /\ ~ Proof!IsDegree(it) /\ Proof!output = Stage(m, v)
      /\ InVector(m, a, v, word, item)
  BY <1>1 DEF Here, Consistent, ReadsVector
<1>3. /\ a \in First(it, v) .. Stop(it, v) /\ word = Rendered(m)[a]
      /\ item = [i \in 1 .. a - First(it, v) |-> Number[it[v][i]]]
  BY <1>2 DEF InVector
<1>4. /\ First(it, v) \in Nat /\ Len(it[v]) \in Nat
      /\ it[v] \in Seq(DOMAIN Number)
      /\ Stop(it, v) = First(it, v) + Len(it[v])
      /\ Proof!Terminator[v] \notin DOMAIN Number
  BY <1>1, <1>2, RecordPlaces, Terminators
<1>5. a = Stop(it, v)
  <2>1. ASSUME a # Stop(it, v) PROVE word \in DOMAIN Number
    BY <1>1, <1>2, <1>3, <2>1, VectorWord, Zenon
  <2> QED
    BY <1>4, <2>1
<1>6. a - First(it, v) = Len(it[v])
  BY <1>4, <1>5
<1>7. DOMAIN it[v] = 1 .. Len(it[v])
  BY <1>4
<1>8. item = Proof!Values(it[v])
  BY <1>3, <1>6, <1>7, Zenon DEF Proof!Values
<1> QED
  BY <1>2, <1>5, <1>8

(* The clause is kept with its width ...                                   *)
LEMMA EndClauseStep ==
  ASSUME NEW src, Cuts(src), Here(src), Proof!EndClause
  PROVE  There(src)
<1> DEFINE m == src[line].item
           it == written[m]
           B == Proof!Meaning(m - 1)
           out == Proof!output'
<1>1. /\ proof_pc = "clause" /\ word = "support:"
      /\ clauses' = Append(clauses, item) /\ ncls' = ncls + 1
      /\ d' = Proof!Max({d, Len(item)}) /\ proof_pc' = "keyword"
      /\ UNCHANGED <<line, pos, word, supports, pivots, nres>>
  BY DEF Proof!EndClause
<1>2. /\ line \in 1 .. Len(text) /\ line > 0 /\ line \in 0 .. Len(text)
      /\ pos \in 0 .. Len(text[line]) /\ it \in Proof!ItemType
      /\ src[line].from + pos \in Nat
  BY <1>1, OnLine
<1>3. "clause" \in Vectors /\ "support" \in Vectors
      /\ Proof!Terminator["clause"] = "support:"
      /\ Proof!Section["support"] = "support:"
  BY DEF Vectors, Proof!Terminator, Proof!Section
<1>4. /\ ~ Proof!IsDegree(it) /\ Proof!output = Stage(m, "clause")
      /\ src[line].from + pos = Stop(it, "clause")
      /\ item = Proof!Values(it.clause)
  BY <1>1, <1>3, VectorRead
<1>5. /\ clauses = B[1] /\ supports = B[2] /\ pivots = B[3] /\ d = B[4]
      /\ ncls = B[5] /\ nres = B[6]
  <2>1. B = <<clauses, supports, pivots, d, ncls, nres>>
    BY <1>4 DEF Stage, Before, Proof!output
  <2> HIDE DEF B
  <2> QED
    BY <2>1
<1>6. Len(item) = Len(it.clause)
  <2>1. it["clause"] \in Seq(DOMAIN Number)
    BY <1>2, <1>3, <1>4, ItemKinds
  <2>2. DOMAIN it.clause = 1 .. Len(it.clause) /\ Len(it.clause) \in Nat
    BY <2>1
  <2>3. item = [i \in 1 .. Len(it.clause) |-> Number[it.clause[i]]]
    BY <1>4, <2>2 DEF Proof!Values
  <2> QED
    BY <2>2, <2>3
<1>7. \A T : Proof!Max(T) = Max(T)
  BY DEF Proof!Max, Max
<1>8. out = Stage(m, "support")
  <2>1. out = <<clauses', supports', pivots', d', ncls', nres'>>
    BY DEF Proof!output
  <2>2. /\ clauses' = Append(B[1], Proof!Values(it.clause))
        /\ supports' = B[2] /\ pivots' = B[3]
        /\ d' = Max({B[4], Len(it.clause)})
        /\ ncls' = B[5] + 1 /\ nres' = B[6]
    BY <1>1, <1>4, <1>5, <1>6, <1>7
  <2> HIDE DEF B, it
  <2>3. out = <<Append(B[1], Proof!Values(it.clause)), B[2], B[3],
                Max({B[4], Len(it.clause)}), B[5] + 1, B[6]>>
    BY <2>1, <2>2, Zenon
  <2>4. Before("support", B, it) =
          <<Append(B[1], Proof!Values(it.clause)), B[2], B[3],
            Max({B[4], Len(it.clause)}), B[5] + 1, B[6]>>
    BY DEF Before
  <2> QED
    BY <2>3, <2>4 DEF Stage, B, it
<1>9. First(it, "support") - 1 = Stop(it, "clause")
  BY <1>2, <1>3, <1>4, RecordPlaces
<1>10. AtKeyword(m, src[line].from + pos', word', out)
  BY <1>1, <1>3, <1>4, <1>8, <1>9 DEF AtKeyword
<1> QED
  BY <1>1, <1>2, <1>10, StaysOnLine

-----------------------------------------------------------------------------
(* ... then its support ...                                                *)
LEMMA EndSupportStep ==
  ASSUME NEW src, Cuts(src), Here(src), Proof!EndSupport
  PROVE  There(src)
<1> DEFINE m == src[line].item
           it == written[m]
           B == Proof!Meaning(m - 1)
           out == Proof!output'
<1>1. /\ proof_pc = "support" /\ word = "pivot:"
      /\ supports' = Append(supports, item) /\ proof_pc' = "keyword"
      /\ UNCHANGED <<line, pos, word, clauses, pivots, d, ncls, nres>>
  BY DEF Proof!EndSupport
<1>2. /\ line \in 1 .. Len(text) /\ line > 0 /\ line \in 0 .. Len(text)
      /\ pos \in 0 .. Len(text[line]) /\ it \in Proof!ItemType
      /\ src[line].from + pos \in Nat
  BY <1>1, OnLine
<1>3. "support" \in Vectors /\ "pivot" \in Vectors
      /\ Proof!Terminator["support"] = "pivot:"
      /\ Proof!Section["pivot"] = "pivot:"
  BY DEF Vectors, Proof!Terminator, Proof!Section
<1>4. /\ ~ Proof!IsDegree(it) /\ Proof!output = Stage(m, "support")
      /\ src[line].from + pos = Stop(it, "support")
      /\ item = Proof!Values(it.support)
  BY <1>1, <1>3, VectorRead
<1>5. out = Stage(m, "pivot")
  <2>1. /\ out = <<clauses', supports', pivots', d', ncls', nres'>>
        /\ Proof!output = <<clauses, supports, pivots, d, ncls, nres>>
    BY DEF Proof!output
  <2> HIDE DEF B, it
  <2>2. Before("support", B, it) =
          <<Append(B[1], Proof!Values(it.clause)), B[2], B[3],
            Max({B[4], Len(it.clause)}), B[5] + 1, B[6]>>
    BY DEF Before
  <2>3. Proof!output = Before("support", B, it)
    BY <1>4 DEF Stage, B, it
  <2>4. /\ clauses = Append(B[1], Proof!Values(it.clause))
        /\ supports = B[2] /\ pivots = B[3]
        /\ d = Max({B[4], Len(it.clause)}) /\ ncls = B[5] + 1 /\ nres = B[6]
    BY <2>1, <2>2, <2>3
  <2>5. out = <<Append(B[1], Proof!Values(it.clause)),
                Append(B[2], Proof!Values(it.support)), B[3],
                Max({B[4], Len(it.clause)}), B[5] + 1, B[6]>>
    BY <1>1, <1>4, <2>1, <2>4, Zenon DEF it
  <2>6. Before("pivot", B, it) =
          <<Append(B[1], Proof!Values(it.clause)),
            Append(B[2], Proof!Values(it.support)), B[3],
            Max({B[4], Len(it.clause)}), B[5] + 1, B[6]>>
    BY DEF Before
  <2> QED
    BY <2>5, <2>6 DEF Stage, B, it
<1>6. First(it, "pivot") - 1 = Stop(it, "support")
  BY <1>2, <1>3, <1>4, RecordPlaces
<1>7. AtKeyword(m, src[line].from + pos', word', out)
  BY <1>1, <1>3, <1>4, <1>5, <1>6 DEF AtKeyword
<1> QED
  BY <1>1, <1>2, <1>7, StaysOnLine

(* ... and with the pivots the item has been read.                         *)
LEMMA EndPivotStep ==
  ASSUME NEW src, Cuts(src), Here(src), Proof!EndPivot
  PROVE  There(src)
<1> DEFINE m == src[line].item
           it == written[m]
           B == Proof!Meaning(m - 1)
           out == Proof!output'
<1>1. /\ proof_pc = "pivot" /\ word = "end:"
      /\ nres' = nres + (IF item = <<>> THEN 0 ELSE 1)
      /\ pivots' = Append(pivots, item) /\ proof_pc' = "words"
      /\ UNCHANGED <<line, pos, word, clauses, supports, d, ncls>>
  BY DEF Proof!EndPivot
<1>2. /\ line \in 1 .. Len(text) /\ line > 0 /\ line \in 0 .. Len(text)
      /\ pos \in 0 .. Len(text[line]) /\ it \in Proof!ItemType
      /\ m \in 1 .. Len(written)
  BY <1>1, OnLine
<1>3. "pivot" \in Vectors /\ Proof!Terminator["pivot"] = "end:"
  BY DEF Vectors, Proof!Terminator
<1>4. /\ ~ Proof!IsDegree(it) /\ Proof!output = Stage(m, "pivot")
      /\ src[line].from + pos = Stop(it, "pivot")
      /\ item = Proof!Values(it.pivot)
  BY <1>1, <1>3, VectorRead
<1>5. item = <<>> <=> it.pivot = <<>>
  <2>1. it["pivot"] \in Seq(DOMAIN Number)
    BY <1>2, <1>3, <1>4, ItemKinds
  <2>2. DOMAIN it.pivot = 1 .. Len(it.pivot) /\ Len(it.pivot) \in Nat
    BY <2>1
  <2>3. item = [i \in 1 .. Len(it.pivot) |-> Number[it.pivot[i]]]
    BY <1>4, <2>2 DEF Proof!Values
  <2>4. DOMAIN item = DOMAIN it.pivot
    BY <2>2, <2>3
  <2>5. item = <<>> <=> DOMAIN item = {}
    BY <2>2, <2>3
  <2>6. it.pivot = <<>> <=> DOMAIN it.pivot = {}
    <3> DEFINE q == it["pivot"]
    <3>1. q \in Seq(DOMAIN Number)
      BY <2>1
    <3> HIDE DEF q
    <3>2. q = <<>> <=> DOMAIN q = {}
      BY <3>1
    <3> QED
      BY <3>2 DEF q
  <2> QED
    BY <2>4, <2>5, <2>6
<1>6. out = Proof!Meaning(m)
  <2>1. /\ out = <<clauses', supports', pivots', d', ncls', nres'>>
        /\ Proof!output = <<clauses, supports, pivots, d, ncls, nres>>
    BY DEF Proof!output
  <2>2. written \in Seq(Proof!ItemType)
    BY DEF Cuts
  <2>3. Proof!Meaning(m) = With(B, it)
    BY <1>2, <2>2, NextMeaning
  <2> HIDE DEF B, it
  <2>4. Before("pivot", B, it) =
          <<Append(B[1], Proof!Values(it.clause)),
            Append(B[2], Proof!Values(it.support)), B[3],
            Max({B[4], Len(it.clause)}), B[5] + 1, B[6]>>
    BY DEF Before
  <2>5. Proof!output = Before("pivot", B, it)
    BY <1>4 DEF Stage, B, it
  <2>6. /\ clauses = Append(B[1], Proof!Values(it.clause))
        /\ supports = Append(B[2], Proof!Values(it.support))
        /\ pivots = B[3] /\ d = Max({B[4], Len(it.clause)})
        /\ ncls = B[5] + 1 /\ nres = B[6]
    BY <2>1, <2>4, <2>5
  <2>7. nres' = B[6] + (IF it.pivot = <<>> THEN 0 ELSE 1)
    BY <1>1, <1>5, <2>6 DEF it
  <2>8. out = <<Append(B[1], Proof!Values(it.clause)),
                Append(B[2], Proof!Values(it.support)),
                Append(B[3], Proof!Values(it.pivot)),
                Max({B[4], Len(it.clause)}), B[5] + 1,
                B[6] + (IF it.pivot = <<>> THEN 0 ELSE 1)>>
    BY <1>1, <1>4, <2>1, <2>6, <2>7, Zenon DEF it
  <2>9. ~ Proof!IsDegree(it)
    BY <1>4 DEF it
  <2> QED
    BY <2>3, <2>8, <2>9, Zenon DEF With
<1>7. Between(m, src[line].from + pos', out)
  <2>1. Stop(it, "pivot") >= Stop(it, "pivot")
    BY <1>2, <1>3, <1>4, RecordPlaces
  <2> QED
    BY <1>1, <1>4, <1>6, <2>1 DEF Between
<1> QED
  BY <1>1, <1>2, <1>7, StaysOnLine

(* A DEGREE: line replaces the degree.                                     *)
LEMMA DegreeStep ==
  ASSUME NEW src, Cuts(src), Here(src), Proof!Degree
  PROVE  There(src)
<1> DEFINE m == src[line].item
           it == written[m]
           B == Proof!Meaning(m - 1)
           out == Proof!output'
<1>1. /\ proof_pc = "degree" /\ word \in DOMAIN Number
      /\ d' = Number[word] /\ proof_pc' = "words"
      /\ UNCHANGED <<line, pos, word, clauses, supports, pivots, ncls, nres>>
  BY DEF Proof!Degree
<1>2. /\ line \in 1 .. Len(text) /\ line > 0 /\ line \in 0 .. Len(text)
      /\ pos \in 0 .. Len(text[line]) /\ m \in 1 .. Len(written)
  BY <1>1, OnLine
<1>3. /\ Proof!IsDegree(it) /\ Proof!output = B
      /\ src[line].from + pos = 2 /\ word = it.degree
  BY <1>1, <1>2 DEF Here, Consistent, ReadsDegree
<1>4. out = Proof!Meaning(m)
  <2>1. /\ out = <<clauses', supports', pivots', d', ncls', nres'>>
        /\ Proof!output = <<clauses, supports, pivots, d, ncls, nres>>
    BY DEF Proof!output
  <2>2. written \in Seq(Proof!ItemType)
    BY DEF Cuts
  <2>3. Proof!Meaning(m) = With(B, it)
    BY <1>2, <2>2, NextMeaning
  <2> HIDE DEF B
  <2>4. /\ clauses = B[1] /\ supports = B[2] /\ pivots = B[3]
        /\ ncls = B[5] /\ nres = B[6]
    BY <1>3, <2>1
  <2> HIDE DEF it
  <2>5. out = <<B[1], B[2], B[3], Number[it.degree], B[5], B[6]>>
    BY <1>1, <1>3, <2>1, <2>4, Zenon
  <2> QED
    BY <1>3, <2>3, <2>5, Zenon DEF With
<1>5. Between(m, src[line].from + pos', out)
  BY <1>1, <1>3, <1>4 DEF Between
<1> QED
  BY <1>1, <1>2, <1>5, StaysOnLine

(* A line that ends between items or parts of them.                        *)
LEMMA EndOfLineStep ==
  ASSUME NEW src, Cuts(src), Here(src), Proof!EndOfLine
  PROVE  There(src)
<1>1. /\ proof_pc = "words" /\ pos = Len(text[line]) /\ proof_pc' = "lines"
      /\ UNCHANGED <<line, pos, word, item>> /\ Proof!output' = Proof!output
  BY DEF Proof!EndOfLine, Proof!output
<1>2. line \in 1 .. Len(text) /\ line > 0 /\ line # 0
  <2>1. line \in 1 .. Len(text) /\ line > 0
    BY <1>1, OnLine
  <2> QED
    BY <2>1
<1> QED
  BY <1>1, <1>2 DEF Here, There, Consistent, Vectors

(* The last line has been read.                                            *)
LEMMA EndOfFileStep ==
  ASSUME NEW src, Cuts(src), Here(src), Proof!EndOfFile
  PROVE  There(src)
<1>1. /\ proof_pc = "lines" /\ line = Len(text) /\ proof_pc' = "done"
      /\ UNCHANGED <<line, pos, word, item>> /\ Proof!output' = Proof!output
  BY DEF Proof!EndOfFile, Proof!output
<1> QED
  BY <1>1 DEF Here, There, Consistent, Vectors

-----------------------------------------------------------------------------
(* The inductive invariant: the lines have an origin, and what readproof   *)
(* has made of them fits where it is.                                      *)
ReadsItems ==
  /\ written \in {input.proof : input \in Inputs}
  /\ \E src : Cuts(src) /\ Here(src)

LEMMA InitReadsItems == Proof!Init => ReadsItems
<1> SUFFICES ASSUME Proof!Init PROVE ReadsItems
  OBVIOUS
<1>1. PICK src : Cuts(src)
  BY SourceExists
<1>2. written \in Seq(Proof!ItemType) /\ text \in Seq(Seq(Symbols))
  BY <1>1 DEF Cuts
<1>3. /\ line = 0 /\ proof_pc = "lines"
      /\ Proof!output = <<<<>>, <<>>, <<>>, 0, 0, 0>>
      /\ written \in {input.proof : input \in Inputs}
  BY DEF Proof!Init, Proof!output
<1>4. 0 \in 0 .. Len(text) /\ ~ (0 > 0)
  BY <1>2
<1>5. Proof!output = Proof!Meaning(0)
  BY <1>2, <1>3, NoMeaning
<1>6. Here(src)
  BY <1>3, <1>4, <1>5 DEF Here, Consistent
<1> QED
  BY <1>1, <1>3, <1>6 DEF ReadsItems

LEMMA StepReadsItems ==
  ReadsItems /\ [InputsNext]_<<vars, proof_vars>> => ReadsItems'
<1> SUFFICES ASSUME ReadsItems, [InputsNext]_<<vars, proof_vars>>
             PROVE  ReadsItems'
  OBVIOUS
<1>1. PICK src : Cuts(src) /\ Here(src)
  BY DEF ReadsItems
<1>2. \A m \in 1 .. Len(written) : Proof!Fits(written[m])
  <2>1. written \in {input.proof : input \in Inputs}
        /\ written \in Seq(Proof!ItemType)
    BY <1>1 DEF ReadsItems, Cuts
  <2>2. DOMAIN written = 1 .. Len(written)
    BY <2>1
  <2> QED
    BY <2>1, <2>2, ProofAssumption
<1>3. There(src) /\ written' = written /\ text' = text
  <2>1. CASE Proof!Next
    <3>1. written' = written /\ text' = text
      BY <2>1 DEF Proof!Next, Proof!NextLine, Proof!EndOfFile,
                  Proof!NextWord, Proof!EndOfLine, Proof!Keyword,
                  Proof!Push, Proof!Throw, Proof!EndClause,
                  Proof!EndSupport, Proof!EndPivot, Proof!Degree
    <3> QED
      BY <1>1, <1>2, <2>1, <3>1, NextLineStep, EndOfFileStep, NextWordStep,
         EndOfLineStep, KeywordStep, PushStep, ThrowStep, EndClauseStep,
         EndSupportStep, EndPivotStep, DegreeStep DEF Proof!Next
  <2>2. CASE UNCHANGED proof_vars
    BY <1>1, <2>2 DEF proof_vars, Here, There, Proof!output
  <2> QED
    BY <2>1, <2>2 DEF InputsNext, ReadProof, ReadInfo
<1>4. Cuts(src)' /\ Here(src)'
  BY <1>1, <1>3, SameFile DEF There, Here
<1> QED
  BY <1>3, <1>4 DEF ReadsItems

LEMMA ReadsWholeItems == ReadsItems => WholeItemsOnly
<1> SUFFICES ASSUME ReadsItems PROVE WholeItemsOnly
  OBVIOUS
<1>1. PICK src : Cuts(src) /\ Here(src)
  BY DEF ReadsItems
<1> DEFINE m == src[line].item
           out == Proof!output
<1>2. /\ line \in 0 .. Len(text) /\ Len(text) \in Nat /\ Len(written) \in Nat
      /\ written \in Seq(Proof!ItemType)
      /\ proof_pc = "done" => line = Len(text)
      /\ proof_pc = "failed" => text # Proof!Lines(written)
  BY <1>1 DEF Here, Consistent, Cuts
<1>3. ASSUME proof_pc = "done"
      PROVE  /\ \E n \in 0 .. Len(written) : out = Proof!Meaning(n)
             /\ text = Proof!Lines(written) =>
                  out = Proof!Meaning(Len(written))
  <2>1. CASE line = 0
    <3>1. out = Proof!Meaning(0) /\ 0 \in 0 .. Len(written)
      BY <1>1, <1>2, <2>1 DEF Here, Consistent
    <3>2. text = Proof!Lines(written) => Len(written) = 0
      BY <1>2, <1>3, <2>1, LinesAre
    <3> QED
      BY <3>1, <3>2
  <2>2. CASE line # 0
    <3>1. line \in 1 .. Len(text) /\ line > 0
      BY <1>2, <2>2
    <3>2. Between(m, src[line].from + pos, out) /\ pos = Len(text[line])
      BY <1>1, <1>3, <3>1 DEF Here, Consistent
    <3>3. m \in 1 .. Len(written) /\ written[m] \in Proof!ItemType
      BY <1>1, <3>1, SourceOf
    <3>4. out = Proof!Meaning(m) \/ out = Proof!Meaning(m - 1)
      BY <3>2 DEF Between
    <3>5. m \in 0 .. Len(written) /\ m - 1 \in 0 .. Len(written)
      BY <1>2, <3>3
    <3>6. ASSUME text = Proof!Lines(written)
          PROVE  out = Proof!Meaning(Len(written))
      <4>1. /\ m = line /\ src[line].from = 0
            /\ Len(text[line]) = Len(Rendered(line))
            /\ Len(text) = Len(written)
        BY <1>1, <3>1, <3>6, WholeLine
      <4>2. Len(Rendered(m)) \in Nat
        BY <1>1, <3>1, SourceOf
      <4>3. src[line].from + pos = Len(Rendered(m))
        BY <3>2, <4>1, <4>2
      <4>4. out = Proof!Meaning(m)
        BY <3>2, <3>3, <4>3, EndOfItem
      <4> QED
        BY <1>2, <1>3, <4>1, <4>4
    <3> QED
      BY <3>4, <3>5, <3>6
  <2> QED
    BY <2>1, <2>2
<1> QED
  BY <1>2, <1>3 DEF WholeItemsOnly, Proof!WholeItemsOnly

(* For proof files of any number of items, of any width, cut or broken at  *)
(* any word: readproof returns what a number of whole items say, or fails, *)
(* and a complete file is read to its last item without failure.           *)
THEOREM ProofReadWhole == InputsSpec => []WholeItemsOnly
<1>1. InputsInit => ReadsItems
  BY InitReadsItems DEF InputsInit
<1> QED
  BY <1>1, StepReadsItems, ReadsWholeItems, PTL DEF InputsSpec
=============================================================================
