------------------------------ MODULE InputFiles ------------------------------
(***************************************************************************)
(* How main.cpp reads its two input files: read_info in both parties, then *)
(* readproof in the prover.  The encoding of the witness and the messages  *)
(* in between are in Encoder and Session.                                  *)
(***************************************************************************)
EXTENDS InfoFile

CONSTANTS
  Inputs,        (* pairs of an info file and the items of a proof file    *)
  MemoryBound

VARIABLES
  written, text, line, pos, word, item,
  clauses, supports, pivots, d, ncls, nres,
  proof_pc

proof_vars == <<written, text, line, pos, word, item,
                clauses, supports, pivots, d, ncls, nres, proof_pc>>

Proof == INSTANCE ProofFile WITH
  Files <- {input.proof : input \in Inputs}, pc <- proof_pc

ASSUME InputFilesAssumption ==
  /\ \A input \in Inputs : input.info \in InfoFiles
  /\ Proof!ProofFileAssumption

InputsInit ==
  /\ \E input \in Inputs : file = input.info /\ written = input.proof
  /\ Init
  /\ Proof!Init

ReadInfo(p) == Step(p) /\ UNCHANGED proof_vars

(* Only the prover has the proof; a failure of read_info ends it before.   *)
ReadProof == pc[ALICE] = "done" /\ Proof!Next /\ UNCHANGED vars

InputsNext == ReadProof \/ \E p \in Parties : ReadInfo(p)

InputsSpec == InputsInit /\ [][InputsNext]_<<vars, proof_vars>>

(* Both functions are sequential and go on while they can.                 *)
FairInputsSpec ==
  /\ InputsSpec
  /\ WF_<<vars, proof_vars>>(ReadProof)
  /\ \A p \in Parties : WF_<<vars, proof_vars>>(ReadInfo(p))

-----------------------------------------------------------------------------
WholeItemsOnly == Proof!WholeItemsOnly

(* A runaway line does not hang the prover for good: the verifier, which   *)
(* then waits for the header, sees the connection close.                   *)
ReadingEnds ==
  /\ <>(pc[BOB] # "lines")
  /\ <>(pc[ALICE] = "failed" \/ proof_pc \in {"done", "failed"})
=============================================================================
