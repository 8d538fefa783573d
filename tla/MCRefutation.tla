---------------------------- MODULE MCRefutation ----------------------------
(* Proof files over three variables: a base formula of two to four clauses *)
(* followed by two derived clauses, with correct and incorrect claims.     *)
EXTENDS Refutation

MCVars == 1 .. 3

FileOf(base, derived, private) ==
  [unfold   |-> TRUE,
   clauses  |-> base \o [m \in DOMAIN derived |-> derived[m].clause],
   supports |-> [m \in DOMAIN base |-> <<>>]
                  \o [m \in DOMAIN derived |-> derived[m].support],
   pivots   |-> [m \in DOMAIN base |-> <<>>]
                  \o [m \in DOMAIN derived |-> derived[m].pivots],
   n_c1_cls |-> private.n, witness |-> private.witness, pub |-> private.pub]

File(base, d1, d2, private) == FileOf(base, <<d1, d2>>, private)

Step(clause, support_, pivots_) ==
  [clause |-> clause, support |-> support_, pivots |-> pivots_]

Steps(clauses, supports, pivots_) ==
  {Step(c, s, p) : c \in clauses, s \in supports, p \in pivots_}

Private(n, witness, pub) == [n |-> n, witness |-> witness, pub |-> pub]

NoPrivate == Private(0, {1}, {3})

(* Unsatisfiable and satisfiable formulas, one with a repeated literal,    *)
(* one with a full-width clause.                                           *)
Bases ==
  {<< <<1, 2>>, <<-1, 2>>, <<-2>> >>,
   << <<1>>, <<-1, 2>>, <<-2>> >>,
   << <<1>>, <<2>>, <<-2, 3>> >>,
   << <<1, 1>>, <<-1>>, <<2, 3>> >>,
   << <<1, 2, 3>>, <<-1, 2>>, <<-2>>, <<-3>> >>,
   << <<1>>, <<-1>> >>}

Privates ==
  {Private(1, {2}, {3}), Private(1, {-1}, {2}), Private(2, {1, 2}, {}),
   Private(2, {2, -3}, {1}), Private(1, {}, {3}), Private(0, {}, {1, 2})}

(* The first derived clause, then a last one that uses it or not.          *)
UnfoldFirst ==
  Steps({<<2>>, <<0>>, <<1, 2>>, <<2, 3, 0>>},
        {<<0, 1>>, <<1, 0>>, <<0, 0>>, <<1, 2>>, <<0, 3>>, <<0, 1, 2>>},
        {<<1>>, <<-1>>, <<2>>, <<1, 2>>})

UnfoldLast ==
  Steps({<<0>>, <<2>>}, {<<3, 2>>, <<2, 3>>, <<0, 1>>, <<4, 3>>},
        {<<2>>, <<-2>>, <<1>>})
    \cup {Step(<<0>>, <<>>, <<>>), Step(<<0>>, <<>>, <<2>>),
         Step(<<1, 2, 3>>, <<3, 2>>, <<2>>)}

(* Correct refutations long enough to reach the automatic memory check.    *)
UnfoldLong ==
  FileOf(<< <<1>>, <<-1>> >>,
         [m \in 1 .. 5 |-> Step(<<0>>, <<m % 2, (m + 1) % 2>>,
                               IF m % 2 = 0 THEN <<1>> ELSE <<-1>>)],
         Private(1, {1}, {2}))

OptLong ==
  FileOf(<< <<1>>, <<-1, 2>>, <<-2, -1>> >>,
         [m \in 1 .. 3 |-> Step(<<0>>, <<0, 1, 2, 0>>, <<1, 2, -1>>)],
         Private(1, {1}, {3}))

Overwide == File(<< <<1, 2, 3, -1>>, <<1>>, <<-1>> >>,
                 Step(<<2>>, <<0, 1>>, <<1>>),
                 Step(<<0>>, <<1, 2>>, <<1>>), NoPrivate)

(* The private clause mentions the negation of the public variable.        *)
NegativePublic ==
  File(<< <<-1, 2>>, <<1, 2>>, <<-2>> >>, Step(<<2>>, <<1, 0>>, <<1>>),
       Step(<<0>>, <<3, 2>>, <<2>>), Private(1, {2}, {1}))

Correct == Step(<<2>>, <<0, 1>>, <<1>>)

UnfoldFiles ==
  {File(b, f, l, NoPrivate) : b \in Bases, f \in UnfoldFirst, l \in UnfoldLast}
    \cup {File(b, Correct, Step(<<0>>, <<3, 2>>, <<2>>), p) :
            b \in Bases, p \in Privates}
    \cup {Overwide, UnfoldLong, NegativePublic}

OptFirst ==
  Steps({<<2>>, <<0>>, <<3, 2>>},
        {<<0, 1>>, <<1, 0>>, <<1>>, <<0, 1, 2>>, <<0, 1, 2, 0>>},
        {<<1>>, <<>>, <<1, 2>>, <<1, -2, 1>>, <<2>>})

OptLast ==
  Steps({<<0>>, <<2>>},
        {<<3, 2>>, <<2, 3>>, <<4, 3>>, <<0, 1, 2>>, <<3>>, <<4, 0>>},
        {<<2>>, <<-2>>, <<1, 2>>, <<>>})

OptClaims ==
  {File(b, f, l, NoPrivate) : b \in Bases, f \in OptFirst, l \in OptLast}
    \cup {File(b, Correct, Step(<<0>>, <<3, 2>>, <<2>>), p) :
            b \in Bases, p \in Privates}
    \cup {OptLong, NegativePublic}

(* The first files are those of a run of zkcec, the second of zkcec_opt.   *)
OptFiles == {[f EXCEPT !.unfold = FALSE] : f \in OptClaims}

MCFiles == UnfoldFiles \cup OptFiles

(* A correct refutation whose widest clause has two literals.              *)
CorrectFiles ==
  {File(<< <<1, 2>>, <<-1, 2>>, <<-2>> >>, Correct,
        Step(<<0>>, <<3, 2>>, <<2>>), NoPrivate)}
=============================================================================
