------------------------------- MODULE Session -------------------------------
(***************************************************************************)
(* Prover and verifier as two processes.  Both run main.cpp on their own   *)
(* variables: each works off a list of operations, which grows when a loop *)
(* head or a call is reached, and every value the prover commits travels   *)
(* through a FIFO channel.  What the values are is left out; which message *)
(* is sent, which correlation masks it, which challenge is drawn from the  *)
(* transcript and which block goes into check_zero_MAC are kept.           *)
(*                                                                         *)
(* The messages emp-zk exchanges for itself (products, bits, sync_zk_bool, *)
(* finalize_zk_bool) are left out; extend_inplace, which both parties must *)
(* call together, is one message in each direction.  When a process has    *)
(* ended, the other may fail on the closed channel ("broken") or wait.     *)
(***************************************************************************)
EXTENDS Integers, Sequences, SequencesExt

CONSTANTS
  ALICE, BOB,
  PoolSize,     (* svole->param.n                                          *)
  Runs          (* what the files of a run determine, see RunType          *)

VARIABLES
  run,    (* the run                                                       *)
  st,     (* the variables of each party                                   *)
  chan    (* chan[p]: sent by p and not yet received                       *)

vars == <<run, st, chan>>

Parties == {ALICE, BOB}
Peer(p) == IF p = ALICE THEN BOB ELSE ALICE

(* The prover's assertions and errors that depend on its data, and the     *)
(* revealed bits that may say so; which of them can happen in a run.       *)
Faults == {"width", "inverse", "sizes", "index", "overflow", "witness",
           "order", "set"}

(* unfold: the build, zkcec or zkcec_opt; chains: the lengths of the       *)
(* support lists of the derived clauses;                                   *)
(* false_block: the number of the block whose statement is false, or 0.    *)
RunType == [unfold : BOOLEAN, witness : Nat, degree : Nat \ {0, 1},
            ncls : Nat, n_c1_cls : Nat, pub_lits : Nat, chains : Seq(Nat),
            false_block : Nat, faults : SUBSET Faults]

ASSUME SessionAssumption ==
  /\ ALICE # BOB
  /\ PoolSize \in Nat \ {0}
  /\ Runs \subseteq RunType
  /\ \A r \in Runs :
       /\ 3 <= r.ncls /\ Len(r.chains) <= r.ncls /\ r.n_c1_cls <= r.ncls
       /\ r.unfold => \A m \in DOMAIN r.chains : r.chains[m] # 1

-----------------------------------------------------------------------------
(* An operation and how many times in a row it is still to be done.        *)
Ops(op, times) ==
  IF times = 0 THEN <<>> ELSE <<[op |-> op, times |-> times]>>

Current(s) == Head(s.todo)

(* The head operation is done once, ops come next.                         *)
Advance(s, ops) ==
  [s EXCEPT !.todo = ops \o Ops(Current(s).op, Current(s).times - 1)
                        \o Tail(@)]

Fail(s, how) == [s EXCEPT !.out = how]

(* main from the input loop on, when the header is known.                  *)
Body(h) ==
  Ops("clause", h.ncls)
    \o Ops("one", 1) \o Ops("inv", run.n_c1_cls * run.pub_lits)
    \o Ops("compare", 1)
    \o Ops("sat", run.n_c1_cls) \o Ops("compare", 1)
    \o Ops("chain", h.nres) \o Ops("compare", 1)
    \o Ops("check", 1) \o Ops("report", 1)

(* check_chain for a chain of the given length.                            *)
ChainBody(s, length) ==
  Ops("fetch", length) \o Ops("get", 1)
    \o (IF run.unfold THEN Ops("xres", 1)
        ELSE Ops("resolve", length - 1) \o Ops("xres", length - 1)
               \o Ops("equal", 1))
    \o (IF Current(s).times = 1             \* the last clause of the file
        THEN Ops("coef", s.degree) \o Ops("equal", 1) ELSE <<>>)

(* The commitments of check_xres: two witnesses, three zeros, two pivots.  *)
XresBody(s) ==
  Ops("witness", 2) \o Ops("coef", 2 * s.degree + 3) \o Ops("equal", 3)

(* clauseRAM::check on the logged entries.                                 *)
CheckBody(s) ==
  Ops("coef", s.logged * s.degree) \o Ops("challenge", s.degree + 2)
    \o Ops("hash", s.logged) \o Ops("order", s.logged - 1)
    \o Ops("verdict", 1) \o Ops("set", 1)

(* get() runs check() at the 2n-th read.                                   *)
CheckDue(s) == s.reads + 1 = 2 * s.mem

-----------------------------------------------------------------------------
(* check_zero_MAC: the number of the block put last; base is the number    *)
(* up to which blocks have been compared.                                  *)
Put(s, blocks) == [s EXCEPT !.put = @ + blocks]

Digest(s) == s.base + 1 .. s.put

(* io->get_hash_block(): determined by the messages so far.                *)
Draw(s) == [s EXCEPT !.drawn = Append(@, s.transcript)]

(* The correlation fill_data_and_mac hands out next.                       *)
Correlation(s) == <<s.pool, s.pointer>>

Exhausted_late(s) == s.pointer > PoolSize
Exhausted(s) == s.pointer = PoolSize

MaskedOps == {"coef", "one", "inv"}

Doing(p, op) == st[p].out = "running" /\ Current(st[p]).op = op

Local(p, s) == st' = [st EXCEPT ![p] = s] /\ UNCHANGED <<run, chan>>

Message(kind, value) == [kind |-> kind, value |-> value]

Count(s) == [s EXCEPT !.transcript = @ + 1]

(* The value that passes: the one the prover sends, or the next one the    *)
(* verifier receives.                                                      *)
Passed(p, value) == IF p = ALICE THEN value ELSE Head(chan[ALICE]).value

(* send_data of v in the prover, recv_data at the same place in the        *)
(* verifier; s is the state of the party then.                             *)
Transfer(p, kind, v, s) ==
  /\ IF p = ALICE
     THEN chan' = [chan EXCEPT ![p] = Append(@, Message(kind, v))]
     ELSE /\ chan[ALICE] # <<>>
          /\ Head(chan[ALICE]).kind = kind
          /\ chan' = [chan EXCEPT ![ALICE] = Tail(@)]
  /\ st' = [st EXCEPT ![p] = Count(s)]
  /\ UNCHANGED run

(* A bit the prover computes from its data: TRUE is a fault.               *)
Bits(p, fault) == {FALSE, p = ALICE /\ fault \in run.faults}

-----------------------------------------------------------------------------
Init ==
  /\ run \in Runs
  /\ st = [p \in Parties |->
            [todo |-> Ops("word", run.witness) \o Ops("header", 1),
             degree |-> IF p = ALICE THEN run.degree ELSE 4,
             mem |-> 0, reads |-> 0, logged |-> 0,
             pool |-> 0, pointer |-> 0, extending |-> FALSE,
             put |-> 0, base |-> 0, drawn |-> <<>>, transcript |-> 0,
             cheat |-> FALSE, garbled |-> FALSE, out |-> "running"]]
  /\ chan = [p \in Parties |-> <<>>]

(* One word of the encoded assignment.                                     *)
Word(p) ==
  /\ Doing(p, "word")
  /\ Transfer(p, "word", 0, Advance(st[p], <<>>))

FileHeader ==
  [nres |-> Len(run.chains), ncls |-> run.ncls, degree |-> run.degree]

(* Faulty variant: the verifier keeps its own DEGREE.                      *)
Header_no_degree(p) ==
  /\ Doing(p, "header")
  /\ LET h == Passed(p, FileHeader)
     IN  Transfer(p, "header", h,
           [Advance(st[p], Body(h)) EXCEPT !.mem = h.ncls, !.logged = h.ncls])

(* nres, ncls and DEGREE; formula->init logs every clause once.            *)
Header(p) ==
  /\ Doing(p, "header")
  /\ LET h == Passed(p, FileHeader)
     IN  Transfer(p, "header", h,
           [Advance(st[p], Body(h)) EXCEPT
              !.degree = h.degree, !.mem = h.ncls, !.logged = h.ncls])

(* The constructor of clause in the input loop.                            *)
Clause(p) ==
  /\ Doing(p, "clause")
  /\ Local(p, Advance(st[p], Ops("coef", st[p].degree)))

(* fill_data_and_mac, then the value masked with the correlation.  The     *)
(* MACs of a verifier that uses another correlation are worthless.         *)
Masked(p, op, takes, blocks) ==
  /\ Doing(p, op)
  /\ ~ Exhausted(st[p])
  /\ LET c == Passed(p, Correlation(st[ALICE]))
     IN  Transfer(p, op, c,
           [Put(Advance(st[p], <<>>), blocks) EXCEPT
              !.pointer = @ + takes,
              !.garbled = @ \/ c # Correlation(st[p])])

(* One coefficient of a committed polynomial.                              *)
Coefficient(p) == Masked(p, "coef", 1, 0)

(* Faulty variant: the verifier takes no correlation.                      *)
One_free(p) == Masked(p, "one", IF p = ALICE THEN 1 ELSE 0, 0)

(* The constructor of clauseChecker commits to one.                        *)
One(p) == Masked(p, "one", 1, 0)

(* One public literal of clauseChecker::check: the inverse, and a block.   *)
MaskedInverse(p) == Masked(p, "inv", 1, 1)

(* The pool is used up: svole->extend_inplace, by both parties.            *)
Extend(p) ==
  LET s == st[p]
  IN  /\ \E op \in MaskedOps : Doing(p, op)
      /\ Exhausted(s)
      /\ ~ s.extending
      /\ st' = [st EXCEPT ![p] = [Count(s) EXCEPT !.extending = TRUE]]
      /\ chan' = [chan EXCEPT ![p] = Append(@, Message("extend", 0))]
      /\ UNCHANGED run

Extended(p) ==
  LET s == st[p]
  IN  /\ s.out = "running" /\ s.extending
      /\ chan[Peer(p)] # <<>>
      /\ Head(chan[Peer(p)]).kind = "extend"
      /\ chan' = [chan EXCEPT ![Peer(p)] = Tail(@)]
      /\ st' = [st EXCEPT ![p] = [Count(s) EXCEPT !.extending = FALSE,
                                    !.pool = @ + 1, !.pointer = 0]]
      /\ UNCHANGED run

CheckSAT(p) == Doing(p, "sat") /\ Local(p, Put(Advance(st[p], <<>>), 1))

(* Faulty variants of the next: the prover's accumulator is not started    *)
(* afresh; the verifier compares the last block only.                      *)
Compare_running(p) ==
  /\ Doing(p, "compare")
  /\ LET s == Put(Advance(st[p], <<>>), 1)
         d == Passed(p, Digest(s))
     IN  Transfer(p, "digest", d,
           IF p = ALICE THEN s
           ELSE IF d # Digest(s) THEN Fail(s, "error")
           ELSE [s EXCEPT !.base = s.put])

Compare_last(p) ==
  /\ Doing(p, "compare")
  /\ LET s == Put(Advance(st[p], <<>>), 1)
     IN  Transfer(p, "digest", Digest(s),
           IF p = BOB /\ run.false_block = s.put
           THEN Fail(s, "error")
           ELSE [s EXCEPT !.base = s.put])

(* check_zero_MAC(zero_block, 1): the verifier alone sees a difference.    *)
Compare(p) ==
  /\ Doing(p, "compare")
  /\ LET s == Put(Advance(st[p], <<>>), 1)
         d == Passed(p, Digest(s))
     IN  Transfer(p, "digest", d,
           IF p = BOB /\ (\/ s.garbled \/ d # Digest(s)
                          \/ run.false_block \in Digest(s))
           THEN Fail(s, "error")
           ELSE [s EXCEPT !.base = s.put])

-----------------------------------------------------------------------------
(* The chain length, and assert(s.size() == p.size() + 1): the verifier    *)
(* pads both lists, so that it fails there only for an empty chain.        *)
Chain(p) ==
  /\ Doing(p, "chain")
  /\ \E unequal \in Bits(p, "sizes") :
       LET length == Passed(p,
             run.chains[Len(run.chains) + 1 - Current(st[ALICE]).times])
       IN  Transfer(p, "length", length,
             IF unequal \/ length = 0 THEN Fail(st[p], "aborted")
             ELSE Advance(st[p], ChainBody(st[p], length)))

(* index >= ptr is revealed to both, and both end when it holds.           *)
Fetch(p) ==
  /\ Doing(p, "fetch")
  /\ \E bit \in Bits(p, "index") :
       Transfer(p, "bit", Passed(p, bit),
         IF Passed(p, bit) THEN Fail(st[p], "error")
         ELSE Advance(st[p], Ops("get", 1)))

(* clauseRAM::get commits the clause read and logs it.                     *)
Get(p) ==
  /\ Doing(p, "get")
  /\ Local(p, Advance(st[p], Ops("coef", st[p].degree) \o Ops("log", 1)))

Log(p) ==
  /\ Doing(p, "log")
  /\ LET s == [st[p] EXCEPT !.reads = @ + 1, !.logged = @ + 1]
     IN  Local(p, Advance(s, IF CheckDue(st[p]) THEN Ops("check", 1)
                             ELSE <<>>))

(* The resolvent of get_res_f2k, padded and committed.                     *)
Resolve(p) ==
  /\ Doing(p, "resolve")
  /\ Local(p, Advance(st[p], Ops("coef", st[p].degree)))

Xres(p) == Doing(p, "xres") /\ Local(p, Advance(st[p], XresBody(st[p])))

(* GF2EX2polynomial for one of the two witnesses.                          *)
Witness(p) ==
  /\ Doing(p, "witness")
  /\ Local(p, Advance(st[p], Ops("coef", st[p].degree)))

(* Equal, InnerProductEqual, ConverseCheck: a challenge and a block.       *)
Equal(p) ==
  Doing(p, "equal") /\ Local(p, Put(Draw(Advance(st[p], <<>>)), 1))

-----------------------------------------------------------------------------
Check(p) == Doing(p, "check") /\ Local(p, Advance(st[p], CheckBody(st[p])))

(* A challenge of update_hash.                                             *)
Challenge(p) ==
  Doing(p, "challenge") /\ Local(p, Draw(Advance(st[p], <<>>)))

(* getHash of a logged and of a sorted clause: a block each.               *)
Hash(p) == Doing(p, "hash") /\ Local(p, Put(Advance(st[p], <<>>), 2))

(* The comparison of two neighbours, revealed to both.                     *)
Order(p) ==
  /\ Doing(p, "order")
  /\ \E bit \in Bits(p, "order") :
       Transfer(p, "bit", Passed(p, bit),
         [Advance(st[p], <<>>) EXCEPT !.cheat = @ \/ Passed(p, bit)])

Verdict(p) ==
  /\ Doing(p, "verdict")
  /\ Local(p, IF st[p].cheat THEN Fail(st[p], "error")
              ELSE Advance(st[p], <<>>))

(* Faulty variant: the prover draws the challenge after sending.           *)
SetEquality_late(p) ==
  /\ Doing(p, "set")
  /\ \E bit \in Bits(p, "set") :
       LET s == Draw(IF p = ALICE THEN Count(st[p]) ELSE st[p])
       IN  Transfer(p, "macs", Passed(p, bit),
             IF p = BOB /\ Passed(p, bit) THEN Fail(s, "error")
             ELSE [Advance(s, <<>>) EXCEPT
                     !.logged = st[p].mem, !.reads = 0])

(* check_set_euqality and the reset of the log: the verifier alone sees    *)
(* a difference.                                                           *)
SetEquality(p) ==
  /\ Doing(p, "set")
  /\ \E bit \in Bits(p, "set") :
       Transfer(p, "macs", Passed(p, bit),
         IF p = BOB /\ Passed(p, bit) THEN Fail(Draw(st[p]), "error")
         ELSE [Advance(Draw(st[p]), <<>>) EXCEPT
                 !.logged = st[p].mem, !.reads = 0])

Report(p) == Doing(p, "report") /\ Local(p, Fail(st[p], "ended"))

(* An assertion or error that only the prover's data can trigger: the      *)
(* width of a clause or a resolvent, the degree of a witness, and the      *)
(* inverse of zero.                                                        *)
ProverStops ==
  \E stop \in {<<"clause", "width", "aborted">>, <<"inv", "inverse", "error">>,
               <<"resolve", "overflow", "aborted">>,
               <<"witness", "witness", "aborted">>} :
    /\ Doing(ALICE, stop[1])
    /\ stop[2] \in run.faults
    /\ Local(ALICE, Fail(st[ALICE], stop[3]))

(* The kind of message the current operation sends or receives.            *)
Kind(s) ==
  LET op == Current(s).op
  IN  CASE op \in MaskedOps -> IF Exhausted(s) THEN "extend" ELSE op
        [] op \in {"word", "header"} -> op
        [] op = "compare" -> "digest"
        [] op = "chain" -> "length"
        [] op \in {"fetch", "order"} -> "bit"
        [] op = "set" -> "macs"
        [] OTHER -> "none"

(* The process is in recv_data.                                            *)
Receiving(p) ==
  /\ st[p].out = "running"
  /\ \/ st[p].extending
     \/ p = BOB /\ Kind(st[p]) \notin {"none", "extend"}

Waiting(p) == Receiving(p) /\ chan[Peer(p)] = <<>>

(* The operating system ends a party whose peer has gone.                  *)
Broken(p) ==
  /\ st[p].out = "running"
  /\ st[Peer(p)].out # "running"
  /\ Waiting(p) \/ (p = ALICE /\ Kind(st[p]) # "none")
  /\ Local(p, Fail(st[p], "broken"))

Step(p) ==
  \/ Word(p) \/ Header(p) \/ Clause(p)
  \/ Coefficient(p) \/ One(p) \/ MaskedInverse(p) \/ Extend(p) \/ Extended(p)
  \/ CheckSAT(p) \/ Compare(p)
  \/ Chain(p) \/ Fetch(p) \/ Get(p) \/ Log(p) \/ Resolve(p) \/ Xres(p)
  \/ Witness(p) \/ Equal(p)
  \/ Check(p) \/ Challenge(p) \/ Hash(p) \/ Order(p) \/ Verdict(p)
  \/ SetEquality(p) \/ Report(p)

Next == (\E p \in Parties : Step(p) \/ Broken(p)) \/ ProverStops

Spec == Init /\ [][Next]_vars

(* Each process keeps running.                                             *)
FairSpec == Spec /\ \A p \in Parties : WF_vars(Step(p))
-----------------------------------------------------------------------------
Kinds == {"word", "header", "coef", "one", "inv", "extend", "digest",
          "length", "bit", "macs"}

TypeOK ==
  /\ run \in Runs
  /\ \A p \in Parties :
       /\ st[p].pointer \in 0 .. PoolSize
       /\ st[p].base <= st[p].put
       /\ st[p].out \in {"running", "ended", "error", "aborted", "broken"}
       /\ st[p].out = "running" => st[p].todo # <<>>
       /\ \A m \in DOMAIN chan[p] : chan[p][m].kind \in Kinds

(* Which correlation since the start; how many a party has used.           *)
Number(c) == c[1] * PoolSize + c[2]

Taken(s) == Number(Correlation(s))

InFlight == {m \in DOMAIN chan[ALICE] : chan[ALICE][m].kind \in MaskedOps}

(* However far the prover is ahead and wherever the pool is refilled, the  *)
(* verifier will unmask every committed value with the correlation that    *)
(* masked it (fill_data_and_mac has one global pointer in each process     *)
(* and nothing but the order of calls keeps the two together).             *)
PoolInStep ==
  /\ Taken(st[ALICE]) = Taken(st[BOB]) + Cardinality(InFlight)
  /\ \A m \in InFlight :
       LET c == chan[ALICE][m].value
       IN  /\ c[2] < PoolSize
           /\ Number(c) =
                Taken(st[BOB]) + Cardinality({k \in InFlight : k < m})

(* What a party is about to read is what it expects: the two lists of      *)
(* operations, expanded by each party from its own variables (DEGREE, the  *)
(* reads since the last memory check, the chain length it was told), name  *)
(* the same messages in the same order.                                    *)
MessagesExpected ==
  \A p \in Parties :
    Receiving(p) /\ chan[Peer(p)] # <<>> =>
      Head(chan[Peer(p)]).kind = Kind(st[p])

(* Both parties derive every challenge from the same transcript: the one   *)
(* who is behind has drawn the first challenges of the other.              *)
SameChallenges ==
  \/ IsPrefix(st[ALICE].drawn, st[BOB].drawn)
  \/ IsPrefix(st[BOB].drawn, st[ALICE].drawn)

(* The verifier that reached the end compared no digest with a false block *)
(* in it, and its prover met no error and no failed assertion on the way.  *)
VerdictSound ==
  st[BOB].out = "ended" =>
    /\ run.false_block \notin 1 .. st[BOB].base
    /\ ~ st[BOB].garbled
    /\ st[ALICE].out = "ended" \/ Doing(ALICE, "report")

(* The verifier's process keeps the promise of the accumulator (module     *)
(* ZeroCheck), which Refutation keeps as one run: what happens between     *)
(* sending and receiving, and the prover's errors, do not let a nonzero    *)
(* block past a comparison.                                                *)
Zero == INSTANCE ZeroCheck WITH
  hash <- LET s == st[BOB]
          IN  IF Digest(s) = {} THEN "empty"
              ELSE IF s.garbled \/ run.false_block \in Digest(s)
                   THEN "nonzero" ELSE "zeros",
  compared <- LET s == st[BOB]
                  left == {m \in DOMAIN s.todo : s.todo[m].op = "compare"}
              IN  IF s.mem = 0 THEN 0 ELSE 3 - Cardinality(left),
  verdict <- CASE st[BOB].out = "running" -> "running"
               [] st[BOB].out = "ended" -> "accepted"
               [] OTHER -> "stopped"

KeepsZeroCheck == Zero!Spec

(* A digest that covers a false block ends the verifier in an error,       *)
(* whatever the prover, who is not told, goes on to send.                  *)
RejectionReached ==
  run.false_block \in 1 .. st[ALICE].base ~> st[BOB].out = "error"

(* Every process ends, or waits for one that has: prover and verifier are  *)
(* never both without the message they need, not even in extend_inplace,   *)
(* the one place where the prover waits too, and which each of them enters *)
(* on its own count of correlations.                                       *)
Settles ==
  \A p \in Parties :
    <>[](\/ st[p].out # "running"
         \/ Waiting(p) /\ st[Peer(p)].out # "running")

(* With true statements, no fault and no empty chain both processes reach  *)
(* their report.                                                           *)
HonestRunEnds ==
  /\ run.false_block = 0 /\ run.faults = {}
  /\ \A m \in DOMAIN run.chains : run.chains[m] > 0
  =>
    <>(\A p \in Parties : st[p].out = "ended")
=============================================================================
