----------------------------- MODULE ZeroCheck ------------------------------
(***************************************************************************)
(* What the accumulator of check_zero_MAC promises: blocks are collected,  *)
(* a comparison covers every block since the one before, a nonzero block   *)
(* never gets past a comparison, and a run is accepted only after the      *)
(* three comparisons of main.  Refutation implements this with one control *)
(* state, Session with the verifier's process.                             *)
(***************************************************************************)
EXTENDS Naturals

VARIABLES
  hash,       (* the blocks since the last comparison: none ("empty"),     *)
              (* all "zeros", or some "nonzero"                            *)
  compared,   (* comparisons passed                                        *)
  verdict     (* "running", "accepted" or "stopped"                        *)

vars == <<hash, compared, verdict>>

Hashes == {"empty", "zeros", "nonzero"}

Comparisons == 3

Init == hash = "empty" /\ compared = 0 /\ verdict = "running"

Collect ==
  /\ verdict = "running"
  /\ hash' \in IF hash = "nonzero" THEN {"nonzero"} ELSE {"zeros", "nonzero"}
  /\ UNCHANGED <<compared, verdict>>

Compare ==
  /\ verdict = "running"
  /\ hash # "nonzero"
  /\ hash' = "empty"
  /\ compared' = compared + 1
  /\ UNCHANGED verdict

(* An error or a failed assertion, of a comparison or anything else.       *)
Stop ==
  /\ verdict = "running"
  /\ hash' \in Hashes
  /\ compared' \in 0 .. Comparisons
  /\ verdict' = "stopped"

(* The blocks of the last memory check are not compared.                   *)
Accept ==
  /\ verdict = "running"
  /\ compared = Comparisons
  /\ hash' \in Hashes
  /\ verdict' = "accepted"
  /\ UNCHANGED compared

Next == Collect \/ Compare \/ Stop \/ Accept

Spec == Init /\ [][Next]_vars
=============================================================================
