------------------------------- MODULE InfoFile -------------------------------
(***************************************************************************)
(* read_info (utils.cpp) in both parties, on copies of one info file.  A   *)
(* line is a keyword and its values; the last line of a keyword counts,    *)
(* the values of all c1_sat: lines are appended.  Only the prover converts *)
(* the witness, the verifier pushes a 0 for every word of it.              *)
(*                                                                         *)
(* As in ProofFile a word that is missing leaves the keyword in word, and  *)
(* stoi throws on words that are no numbers ("failed").                    *)
(***************************************************************************)
EXTENDS Integers, Sequences, SequencesExt, FiniteSetsExt

CONSTANTS
  ALICE, BOB,
  Number,     (* stoi: a function from the words it reads                  *)
  InfoFiles   (* sequences of lines, lines are sequences of words          *)

VARIABLES
  file,
  read,         (* read[p]: the lines p has read                           *)
  field,        (* field[p]: the local variables that are read             *)
  assignment,
  pc

vars == <<file, read, field, assignment, pc>>

Parties == {ALICE, BOB}

Keys == {"input_lit:", "c1_lit:", "c2_lit:", "miter_lit:",
         "c1_cls:", "c2_cls:", "miter_cls:"}

ASSUME InfoFileAssumption ==
  /\ ALICE # BOB
  /\ Number \in [DOMAIN Number -> Int]
  /\ DOMAIN Number \cap (Keys \cup {"", "c1_sat:"}) = {}
  /\ InfoFiles \subseteq Seq(Seq(STRING))

(* ss >> word, on a fresh word for the first one.                          *)
Key(l) == IF l = <<>> THEN "" ELSE l[1]
Value(l) == IF Len(l) < 2 THEN Key(l) ELSE l[2]

(* The values of a c1_sat: line.                                           *)
Witness(l) == IF Key(l) = "c1_sat:" THEN Tail(l) ELSE <<>>

Numeric(words) == \A m \in DOMAIN words : words[m] \in DOMAIN Number

Converts(p) == p = ALICE

(* Faulty variant: the verifier has nothing to read in the witness.        *)
Converted_prover(p, words) ==
  IF Converts(p) THEN [m \in DOMAIN words |-> Number[words[m]]] ELSE <<>>

Converted(p, words) ==
  [m \in DOMAIN words |-> IF Converts(p) THEN Number[words[m]] ELSE 0]

Init ==
  /\ file \in InfoFiles
  /\ read = [p \in Parties |-> 0]
  /\ field = [p \in Parties |-> [k \in Keys |-> 0]]
  /\ assignment = [p \in Parties |-> <<>>]
  /\ pc = [p \in Parties |-> "lines"]

Reading(p) == pc[p] = "lines" /\ read[p] < Len(file)

Line(p) == file[read[p] + 1]

ReadField(p) ==
  /\ Reading(p) /\ Key(Line(p)) \in Keys
  /\ Value(Line(p)) \in DOMAIN Number
  /\ field' = [field EXCEPT ![p][Key(Line(p))] = Number[Value(Line(p))]]
  /\ read' = [read EXCEPT ![p] = @ + 1]
  /\ UNCHANGED <<file, assignment, pc>>

(* A witness, or a line with another keyword or none, which is passed over.*)
ReadWitness(p) ==
  /\ Reading(p) /\ Key(Line(p)) \notin Keys
  /\ Converts(p) => Numeric(Witness(Line(p)))
  /\ assignment' = [assignment EXCEPT
                      ![p] = @ \o Converted(p, Witness(Line(p)))]
  /\ read' = [read EXCEPT ![p] = @ + 1]
  /\ UNCHANGED <<file, field, pc>>

Throw(p) ==
  /\ Reading(p)
  /\ \/ Key(Line(p)) \in Keys /\ Value(Line(p)) \notin DOMAIN Number
     \/ Converts(p) /\ ~ Numeric(Witness(Line(p)))
  /\ pc' = [pc EXCEPT ![p] = "failed"]
  /\ UNCHANGED <<file, read, field, assignment>>

EndOfFile(p) ==
  /\ pc[p] = "lines" /\ read[p] = Len(file)
  /\ pc' = [pc EXCEPT ![p] = "done"]
  /\ UNCHANGED <<file, read, field, assignment>>

Step(p) == ReadField(p) \/ ReadWitness(p) \/ Throw(p) \/ EndOfFile(p)

Next == \E p \in Parties : Step(p)

Spec == Init /\ [][Next]_vars

(* c1_begin, c1_end, pub_end and n_c1_cls; c2_cls and miter_cls are not    *)
(* used, but a line without their number ends the process all the same.    *)
Output(f) ==
  LET c1_end == f["input_lit:"] + f["c1_lit:"]
  IN  [c1_begin |-> f["input_lit:"] + 1, c1_end |-> c1_end,
       pub_end |-> c1_end + f["c2_lit:"] + f["miter_lit:"],
       n_c1_cls |-> f["c1_cls:"]]

-----------------------------------------------------------------------------
(* What the last line of a keyword says, wherever in the file it is.       *)
LastLine(k) ==
  LET ms == {m \in DOMAIN file : Key(file[m]) = k}
  IN  IF ms = {} THEN 0 ELSE Number[file[Max(ms)][2]]

Words == FlattenSeq([m \in DOMAIN file |-> Witness(file[m])])

(* Lines may come in any order.  A party that has read the file encodes    *)
(* the ids and checks the number of clauses that the last line of each     *)
(* keyword says, and will exchange one word for every value of the         *)
(* witness, although only the prover has converted it; and one party ends  *)
(* alone only for a witness that is no number, and then it is the prover.  *)
PartiesAgree ==
  /\ \A p \in Parties : pc[p] = "done" =>
       /\ Output(field[p]) = Output([k \in Keys |-> LastLine(k)])
       /\ Len(assignment[p]) = Len(Words)
  /\ (\A p \in Parties : pc[p] # "lines") /\ pc[ALICE] # pc[BOB] =>
       pc[ALICE] = "failed" /\ ~ Numeric(Words)
=============================================================================
