--------------------------- MODULE MCMemoryCheck ----------------------------
(* Records of three entries over two indices and two clauses; a hash that  *)
(* is no clause's and gives an entry the block of another index.           *)
EXTENDS MemoryCheck

(* A comparison by the top bit of the difference.                          *)
MCgeq(v, w) == 2 * ((v - w) % IndexRange) < IndexRange

Other == CHOOSE c \in Clauses : TRUE

MChash_and_mac(h, v) ==
  IF h \in Clauses THEN <<h, v>> ELSE <<Other, 1 - v>>
=============================================================================
