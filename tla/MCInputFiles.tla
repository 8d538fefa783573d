----------------------------- MODULE MCInputFiles -----------------------------
(* Info files of up to three lines, with missing values, blank lines,      *)
(* keywords that are passed over, repeated keywords and a witness that is  *)
(* no number, and proof files of up to three items: clauses of no, one or  *)
(* two literals, with and without antecedents, and a DEGREE: line at any   *)
(* place.  The two parsers share no state, so every file of one kind is    *)
(* paired with one of the other.                                           *)
EXTENDS InputFiles, TLC

MCNumber == ("0" :> 0) @@ ("1" :> 1) @@ ("2" :> 2) @@ ("-2" :> -2)
              @@ ("3" :> 3) @@ ("-3" :> -3)

MCLines ==
  {<<k, n>> : k \in {"input_lit:", "c1_lit:", "c1_cls:"}, n \in {"1", "2"}}
    \cup {<<"c2_lit:", "2">>, <<"miter_lit:", "1">>, <<"c1_lit:">>,
          <<"c2_cls:">>, <<"miter_cls:", "1">>, <<"c1_lit_all:", "2">>, <<>>,
          <<"c1_sat:">>, <<"c1_sat:", "1", "2">>, <<"c1_sat:", "-3">>,
          <<"c1_sat:", "1", "x">>}

MCInfoFiles == UNION {[1 .. m -> MCLines] : m \in 0 .. 3}

Base(clause) == [clause |-> clause, support |-> <<>>, pivot |-> <<>>]

Items ==
  {Base(<<"1">>), Base(<<"1", "-2">>),
   [clause |-> <<>>, support |-> <<"1">>, pivot |-> <<>>],
   [clause |-> <<"-2">>, support |-> <<"1", "3">>, pivot |-> <<"1">>],
   [degree |-> "3"], [degree |-> "1"]}

ProofFiles == UNION {[1 .. m -> Items] : m \in 1 .. 3}

MCInputs == [info : MCInfoFiles, proof : {<<>>}]
              \cup [info : {<<>>, << <<"c1_sat:", "1", "x">> >>},
                   proof : ProofFiles]
=============================================================================
