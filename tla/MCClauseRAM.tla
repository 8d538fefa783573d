---------------------------- MODULE MCClauseRAM -----------------------------
(* Memories of one to three clauses drawn from three clauses of two        *)
(* literals, equal clauses at different indices included, one of as many   *)
(* clauses as an index can name and one of one more.                       *)
EXTENDS ClauseRAM

MCMemories ==
  UNION {[1 .. m -> {<<1, 0>>, <<1, 2>>, <<2, 0>>}] : m \in 1 .. 3}
    \cup {<< <<1, 0>>, <<1, 2>>, <<1, 0>>, <<2, 0>> >>,
          << <<1, 0>>, <<1, 2>>, <<1, 0>>, <<2, 0>>, <<1, 2>> >>}

(* Bound: the memory with more clauses than an index can name is read in   *)
(* ascending order only.                                                   *)
OversizeInOrder ==
  n > IndexRange =>
    \A k \in n + 1 .. Len(access_record) - 1 :
      access_record[k].index <= access_record[k + 1].index
=============================================================================
