----------------------------- MODULE Refutation -----------------------------
(***************************************************************************)
(* The protocol run of main.cpp and check_chain (clauseRAM.h) on one proof *)
(* file: commit the clauses, check that the first n_c1_cls of them avoid   *)
(* the public literals and are satisfied by the witness, initialise the    *)
(* clause memory, check one resolution chain per derived clause, and close *)
(* with the zero check and the memory check.                               *)
(*                                                                         *)
(* Prover and verifier run the same program in lockstep on the prover's    *)
(* committed values, so the model has one control state.  "accepted" is    *)
(* the end of main, "rejected" a call of error() in either process,        *)
(* "aborted" a failed assertion.  A run is of one of the two builds, zkcec *)
(* (file.unfold, the macro UNFOLD) or zkcec_opt.                           *)
(***************************************************************************)
EXTENDS Clause

CONSTANTS
  IndexRange,   (* see ClauseRAM                                           *)
  Vars,         (* the variables of the formula                            *)
  Files         (* the proof files, see FileType                           *)

VARIABLES
  file,           (* the proof and info files of this run, and the build   *)
  pc,
  i,              (* loop index of main                                    *)
  k,              (* loop index of check_chain                             *)
  raw_formula,    (* the committed clauses                                 *)
  resource,       (* the clauses read for this chain                       *)
  end_clause,     (* the derived clause of this chain                      *)
  intermediate,   (* the resolvents of this chain                          *)
  zero_hash,      (* the blocks given to check_zero_MAC since the last     *)
                  (* comparison: "empty", all "zeros", or some "nonzero"   *)
  clear_mem, clear_access_record, access_record, step, errored

RAM == INSTANCE ClauseRAM WITH Memories <- Seq(Seq(Int))

ram_vars == <<clear_mem, clear_access_record, access_record, step, errored>>
chain_vars == <<resource, end_clause, intermediate>>
vars == <<file, pc, i, k, raw_formula, chain_vars, zero_hash, ram_vars>>

Literals == Vars \cup {-v : v \in Vars}

(* What readproof and read_info leave: clauses, supports and pivots are    *)
(* vectors of equal length; pub are the variables private_end + 1 ..       *)
(* public_end; witness the c1_sat line.  In zkcec chains of one antecedent *)
(* do not occur ("pivots.size() always equals 2", clauseRAM.h:420).        *)
FileType(f) ==
  /\ f.clauses \in Seq(Seq(Literals \cup {0}))
  /\ f.supports \in Seq(Seq(Nat)) /\ Len(f.supports) = Len(f.clauses)
  /\ f.pivots \in Seq(Seq(Literals)) /\ Len(f.pivots) = Len(f.clauses)
  /\ f.n_c1_cls \in 0 .. Len(f.clauses)
  /\ f.witness \subseteq Literals
  /\ f.pub \subseteq Vars
  /\ f.unfold \in BOOLEAN
  /\ f.unfold => \A m \in DOMAIN f.supports : Len(f.supports[m]) # 1

ASSUME RefutationAssumption ==
  /\ IndexRange \in Nat \ {0}
  /\ Vars \subseteq Nat \ {0}
  /\ \A f \in Files : FileType(f)

ncls == Len(file.clauses)

(* readproof counts the entries with a non-empty pivot list.               *)
nres == Cardinality({m \in DOMAIN file.pivots : file.pivots[m] # <<>>})

pub_lits_positive == file.pub          (* faulty: negations left out       *)
pub_lits == {l \in Literals : l \in file.pub \/ -l \in file.pub}

(* Faulty variant: the accumulator remembers only the last block.          *)
Put_last(hash, holds) == IF holds THEN "zeros" ELSE "nonzero"

(* check_zero_MAC without end: a block is zero when its check holds.       *)
Put(hash, holds) == IF holds /\ hash # "nonzero" THEN "zeros" ELSE "nonzero"

(* check_zero_MAC(zero_block, 1): the verifier compares the digests, which *)
(* starts the accumulator afresh.                                          *)
CompareDigests(next_pc) ==
  /\ zero_hash' = "empty"
  /\ pc' = IF Put(zero_hash, TRUE) = "zeros" THEN next_pc ELSE "rejected"

Finished == {"accepted", "rejected", "aborted"}

-----------------------------------------------------------------------------
Init ==
  /\ file \in Files
  /\ pc = "commit"
  /\ i = 0
  /\ k = 0
  /\ raw_formula = <<>>
  /\ resource = <<>> /\ end_clause = <<>> /\ intermediate = <<>>
  /\ zero_hash = "empty"
  /\ RAM!Fresh

(* One clause of the input loop; the constructor of clause asserts that it *)
(* has at most DEGREE literals.                                            *)
Commit ==
  LET literals == padding(file.clauses[i + 1])
  IN  /\ pc = "commit"
      /\ i < ncls
      /\ IF Len(literals) > DEGREE
         THEN pc' = "aborted" /\ UNCHANGED <<i, raw_formula>>
         ELSE /\ raw_formula' = Append(raw_formula, literals)
              /\ i' = i + 1
              /\ UNCHANGED pc
      /\ UNCHANGED <<file, k, chain_vars, zero_hash, ram_vars>>

CommitDone ==
  /\ pc = "commit"
  /\ i = ncls
  /\ pc' = "disjoint"
  /\ i' = 0
  /\ UNCHANGED <<file, k, raw_formula, chain_vars, zero_hash, ram_vars>>

(* clauseChecker::check: a value that is zero at a public literal has no   *)
(* inverse, which is an error; the product with the inverse is one.        *)
Disjoint ==
  /\ pc = "disjoint"
  /\ i < file.n_c1_cls
  /\ IF \E l \in pub_lits : EvaluatesToZero(raw_formula[i + 1], l)
     THEN pc' = "rejected" /\ UNCHANGED <<i, zero_hash>>
     ELSE /\ zero_hash' = IF pub_lits = {} THEN zero_hash
                          ELSE Put(zero_hash, TRUE)
          /\ i' = i + 1
          /\ UNCHANGED pc
  /\ UNCHANGED <<file, k, raw_formula, chain_vars, ram_vars>>

DisjointDone ==
  /\ pc = "disjoint"
  /\ i = file.n_c1_cls
  /\ CompareDigests("sat")
  /\ i' = 0
  /\ UNCHANGED <<file, k, raw_formula, chain_vars, ram_vars>>

(* Faulty variant: the loop does not advance.                              *)
CheckSAT_stuck ==
  /\ pc = "sat"
  /\ i < file.n_c1_cls
  /\ \E holds \in BOOLEAN : zero_hash' = Put(zero_hash, holds)
  /\ UNCHANGED <<file, pc, i, k, raw_formula, chain_vars, ram_vars>>

(* checkSAT: the product of the values at the witness literals; with no    *)
(* witness the block compared is never assigned.                           *)
CheckSAT ==
  /\ pc = "sat"
  /\ i < file.n_c1_cls
  /\ \E holds \in BOOLEAN :
       /\ file.witness # {} =>
            holds = \E l \in file.witness :
                      EvaluatesToZero(raw_formula[i + 1], l)
       /\ zero_hash' = Put(zero_hash, holds)
  /\ i' = i + 1
  /\ UNCHANGED <<file, pc, k, raw_formula, chain_vars, ram_vars>>

(* The comparison of checkSAT and formula->init(raw_formula).              *)
CheckSATDone ==
  /\ pc = "sat"
  /\ i = file.n_c1_cls
  /\ CompareDigests("chain")
  /\ RAM!init(raw_formula)
  /\ raw_formula' = <<>>
  /\ i' = ncls - nres
  /\ UNCHANGED <<file, k, chain_vars>>

-----------------------------------------------------------------------------
support == file.supports[i + 1]
pivots  == <<0>> \o file.pivots[i + 1]
ptr_previous == i - 1                   (* faulty: the clause before        *)
ptr     == i

(* The head of the loop over the last nres clauses.                        *)
ChainStart ==
  /\ pc = "chain"
  /\ i < ncls
  /\ pc' = IF Len(support) = Len(file.pivots[i + 1]) + 1
           THEN "fetch" ELSE "aborted"
  /\ k' = 1
  /\ resource' = <<>> /\ intermediate' = <<>>
  /\ UNCHANGED <<file, i, raw_formula, end_clause, zero_hash, ram_vars>>

(* formula->get(index), which may run check(): one block per logged entry, *)
(* zero for committed values.                                              *)
Read(index) ==
  /\ RAM!get(index)
  /\ zero_hash' = IF step' = step + 1 THEN zero_hash ELSE Put(zero_hash, TRUE)

(* An antecedent of check_chain: its index is below ptr, or error().       *)
Fetch ==
  LET index == RAM!Committed(support[k])
  IN  /\ pc = "fetch"
      /\ k <= Len(support)
      /\ IF index >= RAM!Committed(ptr)
         THEN /\ pc' = "rejected"
              /\ UNCHANGED <<k, resource, zero_hash, ram_vars>>
         ELSE /\ Read(index)
              /\ pc' = IF errored' THEN "rejected" ELSE "fetch"
              /\ resource' = Append(resource, clear_mem[index + 1])
              /\ k' = k + 1
      /\ UNCHANGED <<file, i, raw_formula, end_clause, intermediate>>

FetchEnd ==
  LET index == RAM!Committed(ptr)
  IN  /\ pc = "fetch"
      /\ k > Len(support)
      /\ Read(index)
      /\ end_clause' = clear_mem[index + 1]
      /\ intermediate' = <<resource[1]>>
      /\ k' = 2
      /\ pc' = IF errored' THEN "rejected"
               ELSE IF file.unfold THEN "unfold" ELSE "resolve"
      /\ UNCHANGED <<file, i, raw_formula, resource>>

(* zkcec: one check of the derived clause against the two antecedents.     *)
Unfold ==
  /\ pc = "unfold"
  /\ IF xres_aborts(resource[1], resource[2], end_clause, pivots[2])
     THEN pc' = "aborted" /\ UNCHANGED zero_hash
     ELSE /\ pc' = "last"
          /\ zero_hash' = Put(zero_hash, check_xres(resource[1], resource[2],
                                                    end_clause, pivots[2]))
  /\ UNCHANGED <<file, i, k, raw_formula, chain_vars, ram_vars>>

(* zkcec_opt, first loop: the prover computes the next resolvent.          *)
Resolve ==
  /\ pc = "resolve"
  /\ k <= Len(pivots)
  /\ IF res_overflows(intermediate[k - 1], resource[k], pivots[k])
     THEN pc' = "aborted" /\ UNCHANGED <<k, intermediate>>
     ELSE /\ intermediate' = Append(intermediate,
               get_res_f2k(intermediate[k - 1], resource[k], pivots[k]))
          /\ k' = k + 1
          /\ UNCHANGED pc
  /\ UNCHANGED <<file, i, raw_formula, resource, end_clause, zero_hash,
                 ram_vars>>

ResolveDone ==
  /\ pc = "resolve"
  /\ k > Len(pivots)
  /\ pc' = "check"
  /\ k' = 2
  /\ UNCHANGED <<file, i, raw_formula, chain_vars, zero_hash, ram_vars>>

(* zkcec_opt, second loop: check the resolvents one by one.                *)
Check ==
  /\ pc = "check"
  /\ k <= Len(pivots)
  /\ IF xres_aborts(intermediate[k - 1], resource[k], intermediate[k],
                    pivots[k])
     THEN pc' = "aborted" /\ UNCHANGED <<k, zero_hash>>
     ELSE /\ zero_hash' = Put(zero_hash,
               check_xres(intermediate[k - 1], resource[k], intermediate[k],
                          pivots[k]))
          /\ k' = k + 1
          /\ UNCHANGED pc
  /\ UNCHANGED <<file, i, raw_formula, chain_vars, ram_vars>>

CheckDone ==
  /\ pc = "check"
  /\ k > Len(pivots)
  /\ zero_hash' = Put(zero_hash,
                      Equal(end_clause, intermediate[Len(intermediate)]))
  /\ pc' = "last"
  /\ UNCHANGED <<file, i, k, raw_formula, chain_vars, ram_vars>>

(* Faulty variant: the empty clause is looked for one chain too late.      *)
ChainDone_late ==
  /\ pc = "last"
  /\ zero_hash' = IF i = ncls THEN Put(zero_hash, Equal(end_clause, <<0>>))
                  ELSE zero_hash
  /\ pc' = "chain"
  /\ i' = i + 1
  /\ UNCHANGED <<file, k, raw_formula, chain_vars, ram_vars>>

(* The end of check_chain: the last clause of the file must be empty.      *)
ChainDone ==
  /\ pc = "last"
  /\ zero_hash' = IF i = ncls - 1 THEN Put(zero_hash, Equal(end_clause, <<0>>))
                  ELSE zero_hash
  /\ pc' = "chain"
  /\ i' = i + 1
  /\ UNCHANGED <<file, k, raw_formula, chain_vars, ram_vars>>

-----------------------------------------------------------------------------
LastCompare ==
  /\ pc = "chain"
  /\ i = ncls
  /\ CompareDigests("final")
  /\ UNCHANGED <<file, i, k, raw_formula, chain_vars, ram_vars>>

(* formula->check() and the report.                                        *)
FinalCheck ==
  /\ pc = "final"
  /\ RAM!check
  /\ zero_hash' = Put(zero_hash, TRUE)
  /\ pc' = IF errored' THEN "rejected" ELSE "accepted"
  /\ UNCHANGED <<file, i, k, raw_formula, chain_vars>>

Next ==
  \/ Commit \/ CommitDone \/ Disjoint \/ DisjointDone
  \/ CheckSAT \/ CheckSATDone
  \/ ChainStart \/ Fetch \/ FetchEnd
  \/ Unfold \/ Resolve \/ ResolveDone \/ Check \/ CheckDone \/ ChainDone
  \/ LastCompare \/ FinalCheck

Spec == Init /\ [][Next]_vars

(* The program keeps running until it ends.                                *)
FairSpec == Spec /\ WF_vars(Next)
-----------------------------------------------------------------------------
TypeOK ==
  /\ FileType(file)
  /\ pc \in {"commit", "disjoint", "sat", "chain", "fetch", "unfold",
             "resolve", "check", "last", "final"} \cup Finished
  /\ i \in 0 .. ncls
  /\ k \in Nat
  /\ \A s \in {raw_formula, resource, intermediate, clear_mem} :
       \A m \in DOMAIN s : Len(s[m]) = DEGREE /\ Lits(s[m]) \subseteq Literals
  /\ Lits(end_clause) \subseteq Literals
  /\ zero_hash \in {"empty", "zeros", "nonzero"}

Holds(a, l) == IF l > 0 THEN a[l] ELSE ~ a[-l]

Satisfies(a, c) == \E l \in Lits(c) : Holds(a, l)

(* The clauses in front of the last nres are unsatisfiable whenever the    *)
(* run is accepted (a file with nres = 0 is accepted unchecked): whatever  *)
(* derived clauses, antecedents and pivots the file claims, the chain      *)
(* checks, the accumulated zero checks and the empty last clause together  *)
(* leave no accepted refutation of a satisfiable formula.                  *)
SoundAcceptance ==
  pc = "accepted" /\ nres > 0 =>
    \A a \in [Vars -> BOOLEAN] :
      \E m \in 1 .. ncls - nres : ~ Satisfies(a, file.clauses[m])

(* In an accepted run no private clause mentions a public literal and the  *)
(* witness satisfies each of them.  The disjointness check alone does not  *)
(* see the literals of a clause whose leading coefficient was lost; the    *)
(* satisfaction check refuses such a clause.                               *)
PrivatePartAccepted ==
  pc = "accepted" /\ file.witness # {} =>
    \A m \in 1 .. file.n_c1_cls :
      /\ \A l \in Lits(file.clauses[m]) : {l, -l} \cap file.pub = {}
      /\ Lits(file.clauses[m]) \cap file.witness # {}

(* A check that failed is not forgotten by a later one: once a nonzero     *)
(* block is in the accumulator, only rejection empties it.                 *)
FailedCheckRejects ==
  [][zero_hash = "nonzero" /\ zero_hash' # "nonzero" => pc' = "rejected"]_vars

(* The run keeps the promise of the accumulator: it passes three           *)
(* comparisons, each over every block since the one before, and is         *)
(* accepted after the third and not without it.                            *)
Zero == INSTANCE ZeroCheck WITH
  hash <- zero_hash,
  compared <- CASE pc \in {"commit", "disjoint", "rejected", "aborted"} -> 0
                [] pc = "sat" -> 1
                [] pc \in {"final", "accepted"} -> 3
                [] OTHER -> 2,
  verdict <- CASE pc = "accepted" -> "accepted"
               [] pc \in {"rejected", "aborted"} -> "stopped"
               [] OTHER -> "running"

KeepsZeroCheck == Zero!Spec

(* Every run ends, whatever the file claims.                               *)
Terminates == <>(pc \in Finished)

-----------------------------------------------------------------------------
(* What a correct resolution proof is, by sets of literals.                *)
LitsOf(index) == Lits(file.clauses[index + 1])

(* The resolvents of a chain, from the first antecedent on.                *)
Resolvents(s, p) ==
  LET r[j \in 0 .. Len(p)] ==
        IF j = 0 THEN LitsOf(s[1])
        ELSE (r[j - 1] \ {p[j]}) \cup (LitsOf(s[j + 1]) \ {-p[j]})
  IN  r

(* A derived clause has pivots; each of them is there to resolve on.       *)
ValidChain(index, width) ==
  LET s == file.supports[index + 1]
      p == file.pivots[index + 1]
      r == Resolvents(s, p)
  IN  /\ p # <<>>
      /\ Len(s) = Len(p) + 1
      /\ file.unfold => Len(s) = 2
      /\ \A m \in DOMAIN s : s[m] < index
      /\ \A j \in DOMAIN p : p[j] \in r[j - 1] /\ -p[j] \in LitsOf(s[j + 1])
      /\ \A j \in DOMAIN r : Cardinality(r[j]) <= width
      /\ IF file.unfold THEN r[1] \subseteq LitsOf(index)
         ELSE r[Len(p)] = LitsOf(index)

ValidFile(width) ==
  /\ ncls <= IndexRange
  /\ nres > 0
  /\ \A m \in 1 .. ncls :
       Distinct(file.clauses[m]) /\ Len(file.clauses[m]) <= width
  /\ \A index \in ncls - nres .. ncls - 1 : ValidChain(index, width)
  /\ LitsOf(ncls - 1) = {}
  /\ \A m \in 1 .. file.n_c1_cls :
       /\ Lits(file.clauses[m]) \cap pub_lits = {}
       /\ Lits(file.clauses[m]) \cap file.witness # {}

(* The honest prover of a correct refutation narrower than DEGREE is never *)
(* refused and hits no assertion, in whatever order its chains read the    *)
(* memory and wherever the automatic memory checks fall.                   *)
Completeness == ValidFile(DEGREE - 1) => pc \notin {"rejected", "aborted"}

(* The same up to the width the assertions of clause.h:28 and              *)
(* polynomial.h:35 admit, and which readproof computes when the file has   *)
(* no DEGREE line.                                                         *)
CompletenessAtFullWidth ==
  ValidFile(DEGREE) => pc \notin {"rejected", "aborted"}

(* check_zero_MAC "takes all mac blocks to be check"; at the end of the    *)
(* proof it "will hash all blocks, and send it to verifier"                *)
(* (utils.cpp:137-141): a run ends with every block compared.              *)
AllBlocksCompared == pc = "accepted" => zero_hash = "empty"
=============================================================================
