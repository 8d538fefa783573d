----------------------------- MODULE MCSession ------------------------------
(* Runs over files of three clauses, two or one of them derived, with the  *)
(* widths and counts small and every kind of fault in some run.            *)
EXTENDS Session

Shape(unfold, chains, false_block, faults) ==
  [unfold |-> unfold, witness |-> 1, degree |-> 2, ncls |-> 3, n_c1_cls |-> 1,
   pub_lits |-> 2, chains |-> chains, false_block |-> false_block,
   faults |-> faults]

FalseBlocks == {0, 2, 4, 8, 11, 40}

RunsOf(unfold, chains) ==
  {Shape(unfold, c, b, {}) : c \in chains, b \in FalseBlocks}
    \cup {Shape(unfold, c, 0, {f}) : c \in chains, f \in Faults}

MCRuns ==
  RunsOf(TRUE, {<<2>>, <<2, 2>>})
    \cup RunsOf(FALSE, {<<3>>, <<1, 2>>, <<2, 0>>})
=============================================================================
