------------------------------ MODULE ProofFile ------------------------------
(***************************************************************************)
(* readproof (utils.cpp) on the files a generator writes, one record       *)
(*   clause: ... support: ... pivot: ... end: 0                            *)
(* per line and a DEGREE: line, and on what is left of them when writing   *)
(* breaks off after a word or a line is broken in two between words.       *)
(*                                                                         *)
(* When a line is used up, `ss >> word' leaves word as it was: the loops   *)
(* over the numbers of a record then push the last number until the memory *)
(* is used up (std::bad_alloc), or give a keyword to stoi, which throws.   *)
(* Both end the process ("failed").                                        *)
(*                                                                         *)
(* Pivots are kept as literals: wrap() is Encoder!encode.                  *)
(***************************************************************************)
EXTENDS Integers, Sequences, SequencesExt, FiniteSetsExt

CONSTANTS
  Number,        (* stoi: a function from the words it reads               *)
  Files,         (* what the generator writes: see ItemType                *)
  MemoryBound    (* numbers in a vector before the memory is used up       *)

VARIABLES
  written,     (* the items of the complete file                           *)
  text,        (* the file: a sequence of lines, sequences of words        *)
  line, pos,   (* lines and words of the line read so far                  *)
  word,
  item,        (* clause, support or pchain while it is read               *)
  clauses, supports, pivots, d, ncls, nres,   (* the output parameters     *)
  pc

output == <<clauses, supports, pivots, d, ncls, nres>>
vars == <<written, text, line, pos, word, item, output, pc>>

Digits == {w \in DOMAIN Number : w # "0"}

(* A record of the proof, or a DEGREE: line.                               *)
ItemType ==
  [clause : Seq(Digits), support : Seq(Digits), pivot : Seq(Digits)]
    \cup [degree : Digits]

IsDegree(it) == DOMAIN it = {"degree"}

(* The memory holds the vectors that the generator has written.            *)
Fits(it) ==
  IsDegree(it) \/ \A v \in {it.clause, it.support, it.pivot} :
                     Len(v) <= MemoryBound

(* What InputFiles assumes of the constants.                               *)
ProofFileAssumption ==
  /\ Number \in [DOMAIN Number -> Int]
  /\ DOMAIN Number \cap {"", "index:", "clause:", "support:", "pivot:", "end:",
                         "DEGREE:"} = {}
  /\ "0" \in DOMAIN Number
  /\ Files \subseteq Seq(ItemType)
  /\ MemoryBound \in Nat
  /\ \A items \in Files : \A m \in DOMAIN items : Fits(items[m])

-----------------------------------------------------------------------------
(* The line the generator writes for an item.                              *)
Render(it) ==
  IF IsDegree(it) THEN <<"DEGREE:", it.degree>>
  ELSE <<"index:", "0", "clause:">> \o it.clause
         \o <<"support:">> \o it.support \o <<"pivot:">> \o it.pivot
         \o <<"end:", "0">>

Lines(items) == [m \in DOMAIN items |-> Render(items[m])]

(* The file up to word n of line m.                                        *)
CutAt(ls, m, n) == SubSeq(ls, 1, m - 1) \o <<SubSeq(ls[m], 1, n)>>

(* The same with the rest on the following lines.                          *)
SplitAt(ls, m, n) ==
  CutAt(ls, m, n) \o <<SubSeq(ls[m], n + 1, Len(ls[m]))>>
    \o SubSeq(ls, m + 1, Len(ls))

Places(ls) == UNION {{<<m, n>> : n \in 0 .. Len(ls[m])} : m \in DOMAIN ls}

Texts(ls) == {ls} \cup {CutAt(ls, p[1], p[2]) : p \in Places(ls)}
                  \cup {SplitAt(ls, p[1], p[2]) : p \in Places(ls)}

Init ==
  /\ written \in Files
  /\ text \in Texts(Lines(written))
  /\ line = 0 /\ pos = 0 /\ word = ""
  /\ item = <<>>
  /\ clauses = <<>> /\ supports = <<>> /\ pivots = <<>>
  /\ d = 0 /\ ncls = 0 /\ nres = 0
  /\ pc = "lines"

-----------------------------------------------------------------------------
(* Faulty variant: the word stays in the stream.                           *)
Extract_peek ==
  IF pos < Len(text[line])
  THEN word' = text[line][pos + 1] /\ UNCHANGED pos
  ELSE UNCHANGED <<word, pos>>

(* ss >> word                                                              *)
Extract ==
  IF pos < Len(text[line])
  THEN word' = text[line][pos + 1] /\ pos' = pos + 1
  ELSE UNCHANGED <<word, pos>>

(* Where a keyword leads, and the keyword that ends the vector read there. *)
Section == [clause |-> "clause:", support |-> "support:", pivot |-> "pivot:",
            degree |-> "DEGREE:"]
Terminator == [clause |-> "support:", support |-> "pivot:", pivot |-> "end:"]

NextLine ==
  /\ pc = "lines" /\ line < Len(text)
  /\ line' = line + 1 /\ pos' = 0 /\ word' = ""
  /\ pc' = "words"
  /\ UNCHANGED <<written, text, item, output>>

EndOfFile ==
  /\ pc = "lines" /\ line = Len(text)
  /\ pc' = "done"
  /\ UNCHANGED <<written, text, line, pos, word, item, output>>

NextWord ==
  /\ pc = "words" /\ pos < Len(text[line])
  /\ Extract
  /\ pc' = IF \E s \in DOMAIN Section : Section[s] = word'
           THEN "keyword" ELSE "words"
  /\ UNCHANGED <<written, text, line, item, output>>

EndOfLine ==
  /\ pc = "words" /\ pos = Len(text[line])
  /\ pc' = "lines"
  /\ UNCHANGED <<written, text, line, pos, word, item, output>>

(* The first `ss >> word' of a branch.                                     *)
Keyword ==
  /\ pc = "keyword"
  /\ item' = <<>>
  /\ Extract
  /\ pc' = CHOOSE s \in DOMAIN Section : Section[s] = word
  /\ UNCHANGED <<written, text, line, output>>

(* stoi(word), push_back, ss >> word                                       *)
Push ==
  /\ pc \in DOMAIN Terminator
  /\ word \in DOMAIN Number
  /\ Len(item) < MemoryBound
  /\ item' = Append(item, Number[word])
  /\ Extract
  /\ UNCHANGED <<written, text, line, output, pc>>

Throw ==
  /\ \/ /\ pc \in DOMAIN Terminator
        /\ word # Terminator[pc]
        /\ word \notin DOMAIN Number \/ Len(item) = MemoryBound
     \/ pc = "degree" /\ word \notin DOMAIN Number
  /\ pc' = "failed"
  /\ UNCHANGED <<written, text, line, pos, word, item, output>>

(* Faulty variant: an empty clause is counted and not kept.                *)
EndClause_nonempty ==
  /\ pc = "clause" /\ word = "support:"
  /\ clauses' = IF item = <<>> THEN clauses ELSE Append(clauses, item)
  /\ d' = Max({d, Len(item)})
  /\ ncls' = ncls + 1
  /\ pc' = "keyword"
  /\ UNCHANGED <<written, text, line, pos, word, item, supports, pivots, nres>>

(* word is "support:", so that the next branch is taken in this iteration. *)
EndClause ==
  /\ pc = "clause" /\ word = "support:"
  /\ clauses' = Append(clauses, item)
  /\ d' = Max({d, Len(item)})
  /\ ncls' = ncls + 1
  /\ pc' = "keyword"
  /\ UNCHANGED <<written, text, line, pos, word, item, supports, pivots, nres>>

EndSupport ==
  /\ pc = "support" /\ word = "pivot:"
  /\ supports' = Append(supports, item)
  /\ pc' = "keyword"
  /\ UNCHANGED <<written, text, line, pos, word, item, clauses, pivots, d,
                 ncls, nres>>

EndPivot ==
  /\ pc = "pivot" /\ word = "end:"
  /\ nres' = nres + (IF item = <<>> THEN 0 ELSE 1)
  /\ pivots' = Append(pivots, item)
  /\ pc' = "words"
  /\ UNCHANGED <<written, text, line, pos, word, item, clauses, supports, d,
                 ncls>>

Degree ==
  /\ pc = "degree" /\ word \in DOMAIN Number
  /\ d' = Number[word]
  /\ pc' = "words"
  /\ UNCHANGED <<written, text, line, pos, word, item, clauses, supports,
                 pivots, ncls, nres>>

Next ==
  \/ NextLine \/ EndOfFile \/ NextWord \/ EndOfLine \/ Keyword
  \/ Push \/ Throw \/ EndClause \/ EndSupport \/ EndPivot \/ Degree

Spec == Init /\ [][Next]_vars

-----------------------------------------------------------------------------
(* What the first n items of the complete file say.                        *)
Values(words) == [m \in DOMAIN words |-> Number[words[m]]]

Records ==
  LET upTo[n \in 0 .. Len(written)] ==
        IF n = 0 THEN <<>>
        ELSE IF IsDegree(written[n]) THEN upTo[n - 1]
        ELSE Append(upTo[n - 1], written[n])
  IN  upTo

(* The last DEGREE: line, and the widths of the clauses after it.          *)
DegreeOf(n) ==
  LET from == Max({m \in 1 .. n : IsDegree(written[m])} \cup {0})
  IN  Max((IF from = 0 THEN {0} ELSE {Number[written[from].degree]})
            \cup {Len(written[m].clause) : m \in from + 1 .. n})

Meaning(n) ==
  LET rs == Records[n]
  IN  <<[m \in DOMAIN rs |-> Values(rs[m].clause)],
        [m \in DOMAIN rs |-> Values(rs[m].support)],
        [m \in DOMAIN rs |-> Values(rs[m].pivot)],
        DegreeOf(n), Len(rs),
        Quantify(DOMAIN rs, LAMBDA m : rs[m].pivot # <<>>)>>

(* After whichever word the file breaks off, and between whichever words   *)
(* its lines are broken, what readproof hands to main is what a number of  *)
(* whole items say: no partial clause, no clause without its support and   *)
(* pivots, and the DEGREE that belongs to them.  A file that is not broken *)
(* is read without failure, to its last item.  (A number cut inside, such  *)
(* as DEGREE: 12 to DEGREE: 1, is another number and read as such.)        *)
WholeItemsOnly ==
  /\ pc = "done" =>
       \E n \in 0 .. Len(written) : output = Meaning(n)
  /\ text = Lines(written) =>
       /\ pc # "failed"
       /\ pc = "done" => output = Meaning(Len(written))
=============================================================================
