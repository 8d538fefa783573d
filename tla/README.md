# ZKCEC: TLA+ models, checks and proofs

ZKCEC proves in zero knowledge that two circuits are equivalent: a prover
(ALICE) holds a resolution refutation of the miter's CNF and a verifier (BOB)
checks it without learning the private clauses or the proof. Two executables are
built from the same sources: `zkcec` (UNFOLD: every chain has one resolution
step) and `zkcec_opt` (chains of any length). Both parties run the same
program; values are committed with MACs, and a check is a block that must be
the MAC of zero.

All paths below are relative to the repository, with `src/` for its `src/`
directory.

## 1. Inventory

| Component | State | Operations | Hard behaviour |
|---|---|---|---|
| Literal encoder, `encoder.hpp` | per-party key, `forward_map_`, `reverse_map_` | construct, `init`, `encode`, `decode`, `sync_key` (unused) | the two parties use different keys; hash collisions are never detected; the zero word is padding |
| Clauses and polynomials, `clause.h`, `polynomial.*`, `utils.cpp` | literals, coefficients and their MACs | `padding`, product of roots, `Evaluate`, `Equal`, `InnerProductEqual`, `witness_generator`, `check_xres`, `get_res_f2k` | only DEGREE coefficients are committed; repeated literals; assertions that end one party |
| Clause memory, `clauseRAM.h` | `clear_mem`, two access logs, `step` | `init`, `get`, `check` | automatic check in the middle of a chain; two logs cut back at different moments; index width; batched product |
| Protocol run, `main.cpp`, `check_chain` | loop indices, fetched clauses, resolvents | input, disjointness, satisfaction, chains, final checks | a failed check is noticed only at the next comparison of digests |
| Private-part checks, `clauseCheck.hpp` | a committed one | `check`, `checkSAT` | inverse of zero; empty witness |
| Zero-check accumulator, `check_zero_MAC` | one static hash | put a block, compare digests | shared by all phases |
| Proof and info files, `readproof`, `read_info` | vectors of clauses, supports, pivots; ranges | parse | counts that must agree between two files; DEGREE line |
| Authenticated values, `utils.cpp`, `polynomial.cpp` | value and MAC in the prover, key in the verifier | commit, `multiply_const`, `compute_xor`, products, comparison of digests or of MACs | the two parties compute their halves by different formulas |
| Batched product, `vector_inn_prdt*` | loop index, partial product | 1 to 4 factors per multiplication | unsigned bounds; two loops that must meet |
| Correlation pool, `fill_data_and_mac` | pool, pointer, in each party | take one, refill | both parties must take in lockstep |
| Two-party session (emp `NetIO`) | a FIFO channel in each direction | send, receive, challenge from the transcript | a party that stops leaves the other waiting; errors seen by one party only |
| Scripts, `run_experiment.sh`, `run_all.sh`, `res/analyze.py` | logs | start both processes, collect, tabulate | failures of background processes; logs and tables of earlier calls |

Interaction: `main` commits the clauses (encoder, polynomials), runs the two
checks on the first `c1_cls` clauses (clauseCheck, accumulator), hands the
clauses to the memory, and then runs `check_chain` once per derived clause. A
chain reads its antecedents and its own clause from the memory (each read may
run the memory's check), asks `check_xres` to relate them, and leaves blocks in
the accumulator. The last comparison of digests and the last memory check end
the run. There is no concurrency inside a party; the two parties exchange
messages in program order.

What makes each component correct:

* encoder: different literals get different words, negation commutes with
  encoding, the parties agree on public literals;
* polynomials: a check on coefficients decides the intended relation between
  clauses;
* memory: a read returns the clause committed at its index, whatever the prover
  supplies, once `check()` has passed and the blocks that tie the hashes to the
  clauses have been compared (after the last `check()` of a run they never are,
  finding 2); an honest prover is never refused;
* authenticated values: MAC and key differ by `delta` times the value, so that
  a comparison decides what it is meant to decide;
* batched product: every entry is a factor exactly once, no read past the end;
* session: both parties use the same correlation, challenge and message at the
  same place, are never both waiting, and the verifier does not end well over a
  failed check, however far the prover is ahead;
* files: what main gets is what whole items of the file say; the two parties read
  the same info file alike;
* scripts: a success leaves a table measured in the same call;
* run: an accepted run means that the formula is unsatisfiable and that the
  private part meets its two conditions; a correct refutation is accepted;
  every run ends.

## 2. Modules

| Module | Models | Notes |
|---|---|---|
| `Encoder` | `encoder.hpp` for both parties | a word is the record of its two flag bits and the other 62 bits; `Next` interleaves the loops of the two `init()` |
| `Clause` | clause and polynomial operations as operators on vectors of literals | a literal is an integer, 0 the padding; a polynomial is known by the multiplicities of its roots and by whether its leading term was lost |
| `PolyField` | the same operations on coefficients in GF(8) | justifies `Clause`: its properties say that the two agree |
| `AccessRecord` | log entries, their order, the two comparisons of `check()` for an honest prover | `MemoryCheck` uses `check_set_euqality` of it, and has its own order |
| `ClauseRAM` | `clauseRAM` with an honest prover | actions `Load`, `Get`, `Check`; the action operators `init`, `get`, `check` are also used by `Refutation` |
| `MemoryCheck` | the comparisons of `check()` on arbitrary committed records, and the comparison of its blocks in `main` | the prover chooses both records and every hash in them |
| `Refutation` | `main` and `check_chain`, composed with `ClauseRAM` | one action per loop iteration of each phase; the build (`unfold`) is part of the input; `RAM == INSTANCE ClauseRAM` shares the memory's variables |
| `ZeroCheck` | what `check_zero_MAC` promises | abstract: blocks are collected, a comparison covers all since the last one, three comparisons before acceptance. `Refutation` and `Session` implement it (`KeepsZeroCheck`) |
| `Session` | prover and verifier as two processes | each works off its own list of operations; FIFO channels, pool of correlations, challenges, one-sided errors, a closed channel |
| `AuthValues` | values, MACs and keys | both halves of every operation, over any field of characteristic 2 |
| `BatchProduct` | `vector_inn_prdt`, `bch2`, `bch3`, `bch4` | bounds modulo the width of `size_t`; checked by proofs alone, in `MemoryCheckProofs` |
| `ProofFile` | `readproof` | word by word, on complete, truncated and broken files |
| `InfoFile` | `read_info` in both parties | line by line |
| `InputFiles` | the calls of both in `main` | composes the two: `readproof` runs in the prover once `read_info` has returned |
| `Experiments` | `run_all.sh`, `run_experiment.sh`, `res/analyze.py` | repeated calls, background processes, logs and table that outlive a call |
| `MC*` | values of the constants | |
| `*Proofs` | theorems about the module of that name | those on `Clause` are in `RefutationProofs`, those on `InfoFile` in `InputFilesProofs` |

### State and actions

* `Encoder.forward_map_`, `reverse_map_` are the two maps, `next[p]` the loop
  index of `init()`. The keyed hash is a function chosen in `Init`, separately
  for each party, because each constructor draws its own key and nothing ever
  calls `sync_key()`.
* `ClauseRAM.clear_mem`, `clear_access_record`, `access_record`, `step` are the
  members of the class; `errored` says that the process ended in `error()`.
  `CheckRecords` is the whole body of `check()`: the clear log is cut back
  first, the committed log and `step` only if every comparison passed. Indices
  are committed modulo `IndexRange` (2^INDEX_SZ), those of `init()` with one bit
  more. With fewer than three entries the product never ends (`BatchMin`):
  the loop bound `X.size() - 3` wraps.
* `MemoryCheck.access_record` and `sorted_record` hold, beside index and clause,
  what the prover commits as the clause's hash; `getHash` binds the two only by a
  block in the accumulator. `zeros` says that all these blocks are zero, `cheat`
  and `i` are the code's, `pc = "returned"` is the end of `check()` and `Compare`,
  `Order`, `Multiset` are its steps. `CompareDigests` is the comparison in `main`
  that follows every `check()` but the last, which stays at `returned`.
* `Refutation.pc` is the phase: `commit`, `disjoint`, `sat`, `chain` (head of
  the loop), `fetch`, `unfold` (zkcec) or `resolve`, `check` (zkcec_opt), `last`,
  `final`. `i` and `k` are the loop indices. `zero_hash` is what a comparison of
  digests can tell of the accumulator: nothing put in, zeros only, or some
  nonzero block. `accepted` is the end of `main`, `rejected` a call of `error()`,
  `aborted` a failed assertion.

* `Session.st[p]` holds the variables of party p. `todo` stands for its program
  counter: the operations still to be done, with the counters of the loops they
  are in. A loop head or a call puts its body in front (`Body`, `ChainBody`,
  `CheckBody`, ...), from the party's own variables: `degree` (4 in the verifier
  until the header arrives), `mem`, `reads` and `logged` of its clause memory.
  `pool` and `pointer` are `data`/`mac` and `data_mac_pointer`; `put` and `base`
  number the blocks given to `check_zero_MAC` and those already compared;
  `transcript` counts the messages a challenge depends on and `drawn` keeps the
  challenges. `Transfer` is `send_data` in the prover and `recv_data` at the same
  place in the verifier.
  An assertion ends the prover (`ProverStops`) before the
  operation it belongs to; the one on the second witness of a step therefore
  fails when the coefficients of the first are already sent (`Witness`).
* `AuthValues.wires` are the pairs the code calls `coefficient` and
  `mcoefficient`, `xx` and `xm`, and so on: `x` and `m` in the prover, `k` in
  the verifier.
* `ProofFile.pc` is the place in `readproof`: `lines`, `words`, `keyword` (the
  chain of `if` in one iteration, which a record runs through with `word`
  changing under it), the vector being read, `done` or `failed`.
* `Experiments.logs[d][b]` is the sequence of verifiers' reports in a log; a
  report is known by the call that wrote it and by whether it is whole.

### Abstractions, all of them

* Prover and verifier of `Refutation` are one process on the prover's committed
  values. `Session` has two, without values: which statement is false and which
  error the prover's data can trigger is a parameter of the run.
* `Session` leaves out the messages the library exchanges for itself (products,
  committed bits, its own final check); a revealed bit is a message of the
  prover. A party whose peer has gone may get an error from the channel
  (`Broken`) or wait: nothing assumes that it notices.
* `AuthValues` lets both parties make a step together, which `Session` shows to
  be harmless: they use the same correlation. The products and the addition of
  a constant are the library's and taken to be correct.
* `ProofFile` cuts and breaks files between words, never inside a number: a
  number that lost its last digits is another number, which the reader cannot
  tell. Numbers too large for `stoi` are words that are no numbers. Pivots are
  kept as literals: `wrap` is `Encoder!encode`.
* `Experiments` leaves out a script that is interrupted and the processes it then
  leaves running, and the numbers in a report.
* A test at a random challenge is the identity it tests, the product of
  `check_set_euqality` is the multiset. The statistical error of these tests is
  not modelled.
* In `ClauseRAM` and `Refutation`, whose prover is honest about its memory, the
  hash of a clause is the clause. In `MemoryCheck` a hash is any committed value.
  The factors of the hash and of the block made of hash and index are drawn after
  clauses and indices are committed, so both tell clauses and indices apart
  (`HashAndMacAssumption`); the hashes are committed after that draw, and
  nothing is assumed of the block of a value that is no clause's hash. For this
  reason nothing is stated of a log that has passed `check()` alone: two
  products that agree say nothing of the clauses before the blocks of `getHash`
  are compared.
* Literals are integers in `Clause`; `Encoder` is what justifies this when the
  hash does not collide.
* `Equal` of a clause that lost its leading term with one that did not is taken
  as different; in a large field the two products can only agree by a coincidence
  of hash values.
* `geq` of the external library is a parameter of `MemoryCheck`: `check()` relies on
  its being the order of the INDEX_SZ-bit indices that the prover commits in the
  sorted copy (`GeqAssumption`). A comparison by the top bit of the difference
  is that order as long as no index has the top bit (`DifferenceOrders`); beyond
  that nothing is claimed. In the honest prover's sorted copy the indices of
  neighbours are equal or consecutive, because every index is in the log.
* Only the build with PADDING is modelled; the other branch does not compile
  (`clauseRAM.h:134` uses a name that is commented out).
* In UNFOLD builds chains have at least two antecedents, as the comment at
  `clauseRAM.h:420` says of the files; `n_c1_cls <= ncls`; support indices are
  non-negative.

## 3. Runs

| Run | Instance | Shows |
|---|---|---|
| `encoder` | secret ids 2..3, public ids 1 and 4, words with 5 low values, any digests of `MCDigest` | injectivity, negation, agreement of the parties; a collision always merges two literals; `decode` inverts `encode` on secret ones |
| `encoder_decode_public` | same | **violated**, finding 1 |
| `poly_field` | DEGREE 3, two variables, every pair of multisets | field checks agree with `Clause`, repeated literals and witnesses of higher degree included |
| `clause_ram` | 4 index values, memories of 1 to 5 clauses | log coherence, mirrored logs, bounded log, honest prover passes; a memory too large for its indices never does |
| `memory_check` | every pair of records of length 3 over 2 indices, 2 clauses and 3 hashes | a log that has passed and whose blocks have been compared is that of a memory; truthful logs are accepted |
| `refutation` | DEGREE 3, three variables; zkcec on `UnfoldFiles`, zkcec_opt on `OptFiles` (chains of up to four antecedents) | soundness, private part, completeness, the accumulator's promise, termination |
| `session` | pool of 7 correlations, DEGREE 2, three clauses, one false block or one fault; chains of two antecedents in zkcec, of none to three in zkcec_opt | lockstep of pool, messages and challenges; sound verdict; the accumulator's promise; a rejection is reached; every run settles |
| `auth_values` | GF(4), three values, two blocks | the relation of MAC and key, and what both comparisons decide |
| `input_files` | info files of up to three lines out of 17 in any order; proof files of up to three items of six kinds, cut or broken at any word | the parties read the same; whole items only, complete files are read; reading ends |
| `experiments` | two designs, two calls | a success leaves a fresh table; a failed run changes no table |
| `all_blocks_compared` | a correct file | **violated**, finding 2 |
| `completeness_at_full_width` | DEGREE 2, the same file | **violated**, finding 3 |

Why the bounds are enough to be of interest:

* Two secret and two public variables give every pair that the encoder can
  confuse: secret/secret, secret/public, public/public, each with both signs.
* GF(8) has 4 words for positive and 4 for negated literals, so that products of
  DEGREE roots already differ only in a leading coefficient; every multiset of
  literals over the variables, every pivot and the padding are tried.
* In `clause_ram` every memory reaches the automatic check (after 2n reads), a
  check after it and explicit checks before it; there are memories of fewer than
  three entries, of repeated clauses, of as many clauses as indices and of one
  more. A log never exceeds 3n entries. The one bound is `OversizeInOrder`: a
  memory of more clauses than indices is read in ascending order only.
* Three entries are the shortest sorted copy in which two entries of one index
  are separated by one of another index. The third hash of `memory_check` is
  no clause's, and its block is that of a clause at the other index, so that
  products can agree although the logs do not.
* The files of `Refutation` combine satisfiable and unsatisfiable formulas,
  repeated and full-width clauses with correct, incorrect and ill-formed chains,
  premature uses of later clauses, missing pivots and clauses too wide. The
  instances contain accepted correct files, accepted incorrect files of
  unsatisfiable formulas, rejections in every phase, both kinds of assertion, and
  an automatic memory check in the middle of a chain (`UnfoldLong`, `OptLong`).
* The pools of `Session` are smaller than what a single clause, inverse or
  memory check takes, so that refills fall on every kind of commitment, and in
  particular while the two parties are in different calls; the prover may be
  any number of messages ahead, so that channels hold whole phases. Each fault
  of `Faults` occurs in some run, and `FalseBlocks` has numbers in every phase and
  one that no run reaches.
* The parsers of the two files share no state, so `input_files` pairs every info
  file with an empty proof and every proof with two info files. A line of
  `ProofFile` cut at any word leaves every branch of `readproof` in the
  middle; `MemoryBound` stands for the size of the heap and is larger than any
  vector of a complete file. With three items a record can precede and follow a
  DEGREE line.
* Two calls of `run_all.sh` are enough for stale logs and tables, two designs for
  one that is no longer listed.
* Operators named as faulty variants in the modules (`Put_last`, `resize_front`,
  ...) are plausible mistakes: with the variant in place of its definition the
  property it belongs to is violated under the same configuration
  (`PROJECT.json`, "mutants").

Deadlock is not checked (`CHECK_DEADLOCK FALSE`): the components stop when
`init()` has returned, when a check has failed or when the run has ended.
`Terminates`, `Settles` and `ReadingEnds` cover what deadlock checking
would say.

Fairness: `Refutation` assumes `WF_vars(Next)`, that is, a sequential program goes
on while it can take a step; `InputFiles` the same for each function it calls.
`Session` assumes `WF_vars(Step(p))` for each of the two processes, which the operating system's
scheduler gives; `Broken` and `ProverStops` are under no fairness, since a
closed channel need not be noticed and an assertion need not fail.

## 4. Findings

1. `decode()` returns public literals with the wrong sign: `encode()` sets bit 62
   on negative ones (`encoder.hpp:98-99`), the branch of `decode()` taken when it
   is set is labelled "positive" (`encoder.hpp:109`). `decode()` is used for
   printing only.
2. `check_zero_MAC` is documented to have all blocks compared at the end of the
   proof (`utils.cpp:137-141`). The last comparison (`main.cpp:274`) precedes the
   last memory check (`main.cpp:278`), whose blocks are left in the
   accumulator. Among them are those of `getHash`, the only link between the
   hashes that `check()` compares and the clauses read since the check before:
   `ReadsReturnCommitted` therefore asks for the later comparison.
   `check_set_euqality` compares its two MACs itself and is not concerned.
3. The assertions of `clause.h:28` and `polynomial.h:35` admit DEGREE literals,
   and `readproof` sets DEGREE to the widest clause when the file has no DEGREE
   line, but DEGREE coefficients hold only DEGREE - 1 roots. A correct refutation
   of full width is refused; `Completeness` holds for narrower ones.

A message of the scripts that no run states as a property: `run_all.sh:77`
announces that all experiments completed successfully when no run was counted as
failed, but `run_experiment.sh` ends with `wait` without arguments, which returns
0 whatever the two processes returned (`Experiments!WaitStatus`). A failed party
is noticed, if at all, by `analyze.py` missing a field: `TableIsFresh` shows that
this is enough to keep its numbers out of the table.

No document says what becomes of designs taken out of `input/design.f`: their old
logs stay, and `analyze.py` keeps a row for each of them in every later table.

## 5. Proofs

All theorems are checked by TLAPS for every value of the constants that meets the
named assumptions of the modules.

* `MemoryCheckProofs`. `MemoryCheckSound`: when `check()` has let a log pass and
  the blocks of its hashes have been compared, no index occurs with two clauses.
  The code compares neighbours only, so the property is not inductive;
  `PrefixOrdered` says that the prefix compared so far is ordered, by
  transitivity, and that equal indices in it hold equal hashes. `ZerosMeaning`
  says what the accumulator stands for: with all blocks zero each hash is that of
  its clause. `MultisetContains` finds the block of a log entry in the sorted
  copy, and `BlocksDiffer` makes it the same index and clause (`LogEntrySorted`).
  The proof uses `GeqAssumption` for indices of the sorted copy and
  `HashAndMacAssumption` for hashes of clauses, nothing else of either operator.
  `DifferenceOrders` says when a comparison by difference meets the first.
  `MemoryCheckComplete`: a log of a memory with its own entries in index order
  and with true hashes is never refused; each block occurs as often in one record
  as in the other (`BlockOccurrences`). `TypeCorrect` is the type invariant.

  The products of the two records are `BatchProduct`. The invariant says that
  exactly the factors below `i` have been taken: it links the two loops whatever
  the bound of the first one is, so `ProductComplete` needs nothing of the
  unsigned arithmetic. `ProductInBounds` adds that the bound has not wrapped. No
  run checks this module, so the conditions on its constants are a hypothesis of
  the theorems (`BatchProductAssumption`) and not an assumption of the module.
* `ClauseRAMProofs`. `ReadsCoherent`, `LogsMirror`, `LogIsBounded`: the logs
  start with the entries of `init()`, hold the memory's clause at each index, and
  agree with each other; the number of unchecked reads is bounded. The invariant
  is the conjunction of the three with the type invariant: the log's length links
  `step` to the moment at which `check()` cuts it back.

  `HonestChecksPass` (`CheckNeverFails`) and `OversizeNeverPasses` say what the
  sort does. `sort` puts each entry at its rank, the number of entries that
  precede it. `Precedes` is a total order, so different places have different
  ranks, and an injection of a finite set into one of the same size is onto:
  `sort` is a permutation, hence has the same multiset and ascends. In a memory
  with more clauses than indices the entry of `init()` with index `IndexRange` is
  committed in full in the log and modulo `IndexRange` in the sorted copy, so
  that the multisets differ.
* `EncoderProofs`. `EncodingInjective` and `NegationIsEncoding`: the invariant
  says what the maps hold for the ids already passed by the loop of `init()`.
  Injectivity is proved in both directions: `EqualLowBitsMerge` and
  `ZeroLowBitsMerge` show that the encoder needs all of `NoCollision`.
  `PublicLiteralsAgree` needs neither that nor equal keys: bit 63 separates
  public words from all others. `DecodingInvertsSecret` needs the invariant of
  `reverse_map_`: what an iteration puts into it stays there as long as no later
  hash agrees with it.
* `RefutationProofs` begins with lemmas on the operators of `Clause`.
  `LiftLiterals`: when a clause divides the derived one up to the pivot, its
  literals other than the pivot are literals of the derived clause;
  `StepIsSound`: a passed `check_xres` is a sound resolution step for any two
  clauses and any pivot, opposite or not in the antecedents; `PaddingLiterals`,
  `ResolventType`: padding and resolving add no literal and give DEGREE entries.

  `TypeCorrect` needs `IInv`: besides the types, what the loop
  indices mean in each phase (`AtFetch`, `AtStep`, `AtCheck`, ...), because a
  resolvent is typed only while the loop reads inside the vectors.
  `Memory == INSTANCE ClauseRAMProofs` brings in what is proved about the memory,
  for memories of any clauses; `MInv` is its invariant at every place of a run,
  since each action of a run is an action of the memory or leaves it alone.

  `AcceptanceSound` strengthens `IInv` by `SInv`: the committed clauses are those
  of the file; as long as no block is nonzero, every clause of the file before the
  current one, every antecedent read and every resolvent checked so far is
  satisfied by each model of the formula; after the last chain the last clause is
  empty, so there is no model. `StepIsSound` carries entailment over one check.
  In a file with more clauses than an index can name a chain may read another
  clause than the one it claims, and `SInv` says nothing of it; `MInv` and
  `OversizeNeverPasses` say that the final check of the memory refuses it.

  `HonestProverAccepted` (`Completeness`) is the other direction: `HInv` says
  that on a correct file no block is nonzero, no check of the memory has failed
  and every resolvent has the literals that `Resolvents` gives it, each once.
  `Resolvents` is recursive, and the prover has to know that such a function
  exists: the resolvent after j steps has a closed form (a literal is in it when
  some antecedent has it and no later pivot removes it), which satisfies the
  equations. A clause without repetitions has multiplicities 0 and 1, so that
  equal sets of literals are equal clauses, and it is narrower than DEGREE, so
  that no leading coefficient is lost. A correct refutation has at least three
  clauses, so that a batch of the memory's product is never too short; this is
  where a derived clause needs its pivots (`ValidChain`).

  `PrivateClausesChecked` adds `PInv`, what the two loops over the private clauses
  have found so far; both are needed at the end, since the first says nothing of
  a clause that lost its leading coefficient. `FailuresAreKept` needs no
  invariant: each action that touches the accumulator keeps a nonzero block or
  compares it; `KeepsZeroCheck`, which the run checks, says more.

  `ImplementsZeroCheck`: a run implements `ZeroCheck`. Initial states map to
  initial states; each action collects blocks, passes a comparison, stops,
  accepts, or changes nothing of the accumulator. The type invariant is all it
  needs.
* `SessionProofs`. The two parties expand their lists of operations each from its
  own variables, and one may be any number of messages behind. The proof compares
  both with one imaginary party that runs the same program and never fails: `t`
  is its trace, party p is at position a or b of it (`Alike`: up to what only a
  failure or a missing header changes), and a channel holds exactly the messages
  between the two positions (`Synchrony`). `Inv` says that such a trace exists; a
  step of a party moves it to the next position, for which the trace is made
  longer when it has to be, or ends the party (`StepOutcome`, with one lemma per
  kind of operation). `PoolStaysInStep`, `MessagesAreExpected` and
  `ChallengesAgree` then follow from the two positions: pointers, next operation
  and challenges are functions of the position. `VerdictIsSound` adds that no
  block below `base` is false. Since `Inv` quantifies over traces, the run checks
  its consequences and not `Inv` itself. `VerifierKeepsZeroCheck` needs that the
  verifier reports with no comparison left (`Left` counts those in its
  list), which holds whatever the other party does.
* `AuthValuesProofs`. `MacsCorrect` has one lemma per operation, each an identity
  in the field: the verifier's formula keeps key and MAC apart by `delta` times the
  value. `ComparisonIsExact` and `SetEqualityIsExact` add that multiplication by
  `delta` has an inverse, which is where `delta` must not be zero.
* `InputFilesProofs`. `PartiesReadAlike` is about files of any length, and what
  they say is given by the last line of a keyword and by the concatenation of all
  witness lines. `Progress` says of each party that its fields are what the lines
  read so far say last and that it has an entry for each of their witness words
  (`UpTo`). The concatenation is a fold, which the lemmas on `FlattenSeq` step
  through; the induction over the length that they need is `LeastNumber`: a set of
  numbers that is not empty has a least one, by well-foundedness of the order.

  `ProofReadWhole` is about proof files of any number of items of any width, cut
  or broken at any word. Its invariant `ReadsItems` has two parts. `Cuts(src)`
  gives every line of the file its origin: the item it belongs to and the words
  of that item on earlier lines (`SourceExists`, for the complete file, `CutAt` and
  `SplitAt`). `Consistent` then relates the number of words of the item that have
  been read to the place in `readproof`: outside an item the output is what the
  items before it say (`Between`), at a keyword or in a vector it also has the
  vectors that are finished (`Stage`) and `item` has the numbers of the current one
  up to `word` (`InVector`). Without `Starved` this would not be inductive: at the
  end of a line that ends inside an item, `word` stays what it was, no terminator,
  and the loop can only push it again or fail. There is one lemma per action.
  `EndPivotStep` and `DegreeStep` close an item and need that `Meaning(n)` is
  `Meaning(n - 1)` with item `n` (`NextMeaning`): for the records, which are
  defined by recursion (`Recursion` gives the function its existence), for
  `DegreeOf`, a maximum over the clauses since the last DEGREE: line
  (`NextWidth`), and for the number of derived clauses (`NextDerived`). In a
  complete file no line is starved (`NeverStarved`), and the generator's vectors
  fit in the memory (`Fits`), so that `ThrowStep` is impossible there.
* `ExperimentsProofs`. `SuccessLeavesFreshTable`: `Measured` says that the logs of
  the listed designs already run hold nothing but reports of this call, and that
  the log of a run under way is empty until its verifier has written. A design
  without the whole report makes the analysis fail, so that the status is not 0;
  a log with it holds no other (`SingleReport`). `TableNeedsReports` follows from
  the same invariant. Logs that do not exist differ from all sequences of
  reports (`ExperimentsAssumption`).

Only model-checked:

* the agreement of `Clause` with coefficients in `PolyField`: its arithmetic is
  that of module Bitwise, which a module with theorems cannot use;
* liveness (`Terminates`, `RejectionReached`, `Settles`, `HonestRunEnds`,
  `ReadingEnds`), which is outside what the prover can do.

## 6. Not modelled

Everything of the program that keeps state is modelled, and every safety property
and action property of the runs but those of `PolyField` is proved for all values
of the constants.

Left out for good: the libraries (emp-zk, emp-tool, NTL, libsodium; modelled as
external operators by what they promise); `sync_key`, `check_MAC_valid`,
`ProductEqual`, `pack` and `unwrap`, which nothing calls; the branches without
PADDING, which do not compile; timing, statistics and the progress bar; the
formatting of numbers and the layout of the plot in `analyze.py`; a proof with
DEGREE 1, an info file with more private clauses than the proof has clauses
(undefined behaviour), and what a proof without derived clauses means, which the
code accepts and reports as length 0.
