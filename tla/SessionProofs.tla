---------------------------- MODULE SessionProofs ----------------------------
(***************************************************************************)
(* Theorems about module Session, for every set of runs and every size of  *)
(* the pool.  Both parties are compared with one imaginary party that runs *)
(* the same program and never fails: each of them is at some position of   *)
(* its trace, and the channel holds the messages between the positions.    *)
(***************************************************************************)
EXTENDS Session, FiniteSetTheorems, TLAPS

(* The operations main starts and ends with, and those in between.         *)
Inner == {"clause", "coef", "one", "inv", "compare", "sat", "chain", "fetch",
          "get", "log", "resolve", "xres", "equal", "check", "challenge",
          "hash", "order", "verdict", "set", "witness"}

OpNames == {"word", "header", "report"} \cup Inner

(* The bodies of the loops are put in front with counts that are positive  *)
(* in every run; what is proved here holds for any.                        *)
Operation ==
  {o \in [op : OpNames, times : Int \ {0}] :
     o.op = "chain" => o.times \in 1 .. Len(run.chains)}

Calls == {o \in Operation : o.op \in Inner}

Outs == {"running", "ended", "error", "aborted", "broken"}

States ==
  [todo : Seq(Operation), degree : Nat, mem : Nat, reads : Nat, logged : Nat,
   pool : Nat, pointer : 0 .. PoolSize, extending : BOOLEAN,
   put : Nat, base : Nat, drawn : Seq(Nat), transcript : Nat,
   cheat : BOOLEAN, garbled : BOOLEAN, out : Outs]

Messages ==
  [kind : {"word", "extend"}, value : {0}]
    \cup [kind : {"header"}, value : {FileHeader}]
    \cup [kind : MaskedOps, value : Nat \X (0 .. PoolSize - 1)]
    \cup [kind : {"digest"}, value : SUBSET Int]
    \cup [kind : {"length"}, value : Nat]
    \cup [kind : {"bit", "macs"}, value : BOOLEAN]

Types ==
  /\ run \in Runs
  /\ st \in [Parties -> States]
  /\ chan \in [Parties -> Seq(Messages)]

LEMMA RunProperties ==
  ASSUME run \in Runs
  PROVE  /\ run.unfold \in BOOLEAN /\ run.witness \in Nat
         /\ run.degree \in Nat /\ run.degree > 1
         /\ run.ncls \in Nat /\ run.ncls >= 3
         /\ run.n_c1_cls \in Nat /\ run.pub_lits \in Nat
         /\ run.chains \in Seq(Nat) /\ Len(run.chains) \in Nat
         /\ run.false_block \in Nat
BY SessionAssumption DEF RunType

LEMMA PartiesProperties ==
  /\ ALICE # BOB /\ Parties = {ALICE, BOB}
  /\ Peer(ALICE) = BOB /\ Peer(BOB) = ALICE
  /\ PoolSize \in Nat /\ PoolSize > 0
BY SessionAssumption DEF Parties, Peer

-----------------------------------------------------------------------------
LEMMA SmallNumbers ==
  \A n \in Nat : /\ n >= 1 => n = 1 \/ n >= 2
                 /\ n >= 2 => n = 2 \/ n >= 3
OBVIOUS

LEMMA SmallSums ==
  \A m, n \in Nat : /\ n >= 2 => m + n - 1 >= 1
                    /\ n >= 3 => m + n - 1 >= 2
                    /\ n = 2 /\ m > 0 => m + n - 1 >= 2
OBVIOUS

LEMMA EmptyParts ==
  /\ \A x \in Seq(Operation) : <<>> \o x = x /\ x \o <<>> = x
  /\ \A x \in Seq(Operation) : Len(x) = 1 => Tail(x) = <<>>
<1>1. \A x \in Seq(Operation) : <<>> \o x = x /\ x \o <<>> = x
  OBVIOUS
<1>2. ASSUME NEW x \in Seq(Operation), Len(x) = 1
      PROVE  Tail(x) = <<>>
  <2>1. Tail(x) \in Seq(Operation) /\ Len(Tail(x)) = 0
    BY <1>2
  <2>2. \A y \in Seq(Operation) : Len(y) = 0 => y = <<>>
    OBVIOUS
  <2> QED
    BY <2>1, <2>2
<1> QED
  BY <1>1, <1>2

LEMMA LastOfConcat ==
  ASSUME NEW S, NEW x \in Seq(S), NEW e
  PROVE  /\ Len(x \o <<e>>) = Len(x) + 1
         /\ (x \o <<e>>)[Len(x) + 1] = e
         /\ x \o <<e>> # <<>>
OBVIOUS

LEMMA OpsType ==
  ASSUME NEW op \in OpNames, NEW k \in Int,
         op = "chain" => k \in 0 .. Len(run.chains)
  PROVE  Ops(op, k) \in Seq(Operation)
<1>1. CASE k = 0
  BY <1>1 DEF Ops
<1>2. CASE k # 0
  <2>1. [op |-> op, times |-> k] \in Operation
    BY <1>2 DEF Operation
  <2>2. Ops(op, k) = <<[op |-> op, times |-> k]>>
    BY <1>2 DEF Ops
  <2> QED
    BY <2>1, <2>2
<1> QED
  BY <1>1, <1>2

LEMMA CallsType ==
  ASSUME NEW op \in Inner, NEW k \in Int,
         op = "chain" => k \in 0 .. Len(run.chains)
  PROVE  Ops(op, k) \in Seq(Calls)
<1>1. CASE k = 0
  BY <1>1 DEF Ops
<1>2. CASE k # 0
  <2>1. [op |-> op, times |-> k] \in Calls
    BY <1>2 DEF Operation, Calls, OpNames
  <2>2. Ops(op, k) = <<[op |-> op, times |-> k]>>
    BY <1>2 DEF Ops
  <2> QED
    BY <2>1, <2>2
<1> QED
  BY <1>1, <1>2

LEMMA CallsTypes ==
  ASSUME NEW k \in Int
  PROVE  /\ Ops("clause", k) \in Seq(Calls) /\ Ops("coef", k) \in Seq(Calls)
         /\ Ops("one", k) \in Seq(Calls) /\ Ops("inv", k) \in Seq(Calls)
         /\ Ops("compare", k) \in Seq(Calls) /\ Ops("sat", k) \in Seq(Calls)
         /\ Ops("fetch", k) \in Seq(Calls) /\ Ops("get", k) \in Seq(Calls)
         /\ Ops("log", k) \in Seq(Calls) /\ Ops("resolve", k) \in Seq(Calls)
         /\ Ops("xres", k) \in Seq(Calls) /\ Ops("equal", k) \in Seq(Calls)
         /\ Ops("check", k) \in Seq(Calls)
         /\ Ops("challenge", k) \in Seq(Calls)
         /\ Ops("hash", k) \in Seq(Calls) /\ Ops("order", k) \in Seq(Calls)
         /\ Ops("verdict", k) \in Seq(Calls) /\ Ops("set", k) \in Seq(Calls)
         /\ Ops("witness", k) \in Seq(Calls)
<1>1. \A op \in Inner : op # "chain" => Ops(op, k) \in Seq(Calls)
  BY CallsType
<1>2. /\ "clause" \in Inner /\ "coef" \in Inner /\ "one" \in Inner
      /\ "inv" \in Inner /\ "compare" \in Inner /\ "sat" \in Inner
      /\ "fetch" \in Inner /\ "get" \in Inner /\ "log" \in Inner
      /\ "resolve" \in Inner /\ "xres" \in Inner /\ "equal" \in Inner
      /\ "check" \in Inner /\ "challenge" \in Inner /\ "hash" \in Inner
      /\ "order" \in Inner /\ "verdict" \in Inner /\ "set" \in Inner
      /\ "witness" \in Inner
  BY DEF Inner
<1> QED
  BY <1>1, <1>2

LEMMA ConcatType ==
  ASSUME NEW x \in Seq(Calls), NEW y \in Seq(Calls)
  PROVE  x \o y \in Seq(Calls)
OBVIOUS

LEMMA CallsAreOperations ==
  /\ Seq(Calls) \subseteq Seq(Operation)
  /\ \A x \in Seq(Calls) : \A m \in 1 .. Len(x) : x[m].op \in Inner
<1>1. Calls \subseteq Operation
  BY DEF Calls
<1>2. \A o \in Calls : o.op \in Inner
  BY DEF Calls
<1> QED
  BY <1>1, <1>2

LEMMA CurrentType ==
  ASSUME NEW s \in States, s.todo # <<>>
  PROVE  /\ Current(s) \in Operation
         /\ Current(s).op \in OpNames /\ Current(s).times \in Int
         /\ Ops(Current(s).op, Current(s).times - 1) \in Seq(Operation)
         /\ Tail(s.todo) \in Seq(Operation)
<1>1. Current(s) \in Operation /\ Tail(s.todo) \in Seq(Operation)
  BY DEF Current, States
<1>2. /\ Current(s).op \in OpNames /\ Current(s).times \in Int
      /\ Current(s).op = "chain" =>
           Current(s).times - 1 \in 0 .. Len(run.chains)
  BY <1>1 DEF Operation
<1> QED
  BY <1>1, <1>2, OpsType

LEMMA AdvanceType ==
  ASSUME NEW s \in States, s.todo # <<>>, NEW ops \in Seq(Operation)
  PROVE  /\ Advance(s, ops) \in States
         /\ Advance(s, ops).todo =
              ops \o Ops(Current(s).op, Current(s).times - 1) \o Tail(s.todo)
<1> DEFINE todo ==
      ops \o Ops(Current(s).op, Current(s).times - 1) \o Tail(s.todo)
<1>1. todo \in Seq(Operation)
  BY CurrentType
<1>2. Advance(s, ops) = [s EXCEPT !.todo = todo]
  BY DEF Advance
<1> HIDE DEF todo
<1>3. Advance(s, ops) \in States /\ Advance(s, ops).todo = todo
  BY <1>1, <1>2 DEF States
<1> QED
  BY <1>3 DEF todo

LEMMA PutType ==
  ASSUME NEW s \in States, NEW k \in Nat
  PROVE  Put(s, k) \in States
<1> DEFINE x == s.put + k
<1>1. x \in Nat
  BY DEF States
<1>2. Put(s, k) = [s EXCEPT !.put = x]
  BY DEF Put
<1> HIDE DEF x
<1> QED
  BY <1>1, <1>2 DEF States

LEMMA DrawType ==
  ASSUME NEW s \in States
  PROVE  Draw(s) \in States
<1> DEFINE x == Append(s.drawn, s.transcript)
<1>1. x \in Seq(Nat)
  BY DEF States
<1>2. Draw(s) = [s EXCEPT !.drawn = x]
  BY DEF Draw
<1> HIDE DEF x
<1> QED
  BY <1>1, <1>2 DEF States

LEMMA CountType ==
  ASSUME NEW s \in States
  PROVE  Count(s) \in States
<1> DEFINE x == s.transcript + 1
<1>1. x \in Nat
  BY DEF States
<1>2. Count(s) = [s EXCEPT !.transcript = x]
  BY DEF Count
<1> HIDE DEF x
<1> QED
  BY <1>1, <1>2 DEF States

LEMMA FailType ==
  ASSUME NEW s \in States, NEW how \in Outs
  PROVE  Fail(s, how) \in States
BY DEF States, Fail

-----------------------------------------------------------------------------
(* main after the header: calls, the last of them to the memory's check.   *)
AfterHeader ==
  Ops("clause", run.ncls)
    \o Ops("one", 1) \o Ops("inv", run.n_c1_cls * run.pub_lits)
    \o Ops("compare", 1)
    \o Ops("sat", run.n_c1_cls) \o Ops("compare", 1)
    \o Ops("chain", Len(run.chains)) \o Ops("compare", 1)

LEMMA BodyType ==
  ASSUME run \in Runs
  PROVE  /\ AfterHeader \in Seq(Calls)
         /\ Body(FileHeader) =
              AfterHeader \o <<[op |-> "check", times |-> 1]>>
                          \o <<[op |-> "report", times |-> 1]>>
         /\ Body(FileHeader) \in Seq(Operation)
<1>1. Ops("chain", Len(run.chains)) \in Seq(Calls)
  <2>1. Len(run.chains) \in Int /\ Len(run.chains) \in 0 .. Len(run.chains)
    BY RunProperties
  <2> QED
    BY <2>1, CallsType DEF Inner
<1>2. run.n_c1_cls * run.pub_lits \in Int /\ run.n_c1_cls \in Int
      /\ run.ncls \in Int /\ 1 \in Int
  BY RunProperties
<1>3. /\ Ops("clause", run.ncls) \in Seq(Calls)
      /\ Ops("one", 1) \in Seq(Calls)
      /\ Ops("inv", run.n_c1_cls * run.pub_lits) \in Seq(Calls)
      /\ Ops("compare", 1) \in Seq(Calls)
      /\ Ops("sat", run.n_c1_cls) \in Seq(Calls)
  BY <1>2, CallsTypes, Zenon
<1>4. AfterHeader \in Seq(Calls)
  BY <1>1, <1>3, ConcatType DEF AfterHeader
<1>5. /\ Ops("check", 1) = <<[op |-> "check", times |-> 1]>>
      /\ Ops("report", 1) = <<[op |-> "report", times |-> 1]>>
  BY DEF Ops
<1>6. Body(FileHeader) = AfterHeader \o Ops("check", 1) \o Ops("report", 1)
  BY DEF Body, FileHeader, AfterHeader
<1>7. Ops("check", 1) \in Seq(Operation) /\ Ops("report", 1) \in Seq(Operation)
  BY OpsType DEF OpNames, Inner
<1>8. AfterHeader \in Seq(Operation)
  BY <1>4, CallsAreOperations
<1>9. Body(FileHeader) \in Seq(Operation)
  BY <1>6, <1>7, <1>8
<1> QED
  BY <1>4, <1>5, <1>6, <1>9

LEMMA ChainBodyType ==
  ASSUME NEW s \in States, NEW length \in Nat
  PROVE  ChainBody(s, length) \in Seq(Calls)
<1>1. s.degree \in Int /\ length \in Int /\ length - 1 \in Int
      /\ 1 \in Int /\ <<>> \in Seq(Calls)
  BY DEF States
<1>2. /\ Ops("fetch", length) \in Seq(Calls)
      /\ Ops("get", 1) \in Seq(Calls)
      /\ Ops("xres", 1) \in Seq(Calls)
      /\ Ops("resolve", length - 1) \in Seq(Calls)
      /\ Ops("xres", length - 1) \in Seq(Calls)
      /\ Ops("equal", 1) \in Seq(Calls)
      /\ Ops("coef", s.degree) \in Seq(Calls)
  BY <1>1, CallsTypes, Zenon
<1> QED
  BY <1>1, <1>2, ConcatType DEF ChainBody

LEMMA CallBodyTypes ==
  ASSUME NEW s \in States
  PROVE  /\ XresBody(s) \in Seq(Calls)
         /\ CheckBody(s) \in Seq(Calls)
         /\ CheckBody(s) # <<>>
         /\ CheckBody(s)[Len(CheckBody(s))].op = "set"
         /\ Ops("coef", s.degree) \in Seq(Calls)
         /\ Ops("coef", s.degree) \o Ops("log", 1) \in Seq(Calls)
         /\ Ops("get", 1) \in Seq(Calls)
         /\ Ops("check", 1) \in Seq(Calls)
         /\ <<>> \in Seq(Calls)
<1>1. s.degree \in Nat /\ s.logged \in Nat
  BY DEF States
<1>2. /\ s.degree \in Int /\ 2 * s.degree + 3 \in Int /\ s.degree + 2 \in Int
      /\ s.logged \in Int /\ s.logged - 1 \in Int
      /\ s.logged * s.degree \in Int /\ 1 \in Int /\ 2 \in Int /\ 3 \in Int
      /\ <<>> \in Seq(Calls)
  BY <1>1
<1>3. /\ Ops("coef", 2 * s.degree + 3) \in Seq(Calls)
      /\ Ops("witness", 2) \in Seq(Calls)
      /\ Ops("coef", s.logged * s.degree) \in Seq(Calls)
      /\ Ops("coef", s.degree) \in Seq(Calls)
      /\ Ops("equal", 3) \in Seq(Calls)
      /\ Ops("challenge", s.degree + 2) \in Seq(Calls)
      /\ Ops("hash", s.logged) \in Seq(Calls)
      /\ Ops("order", s.logged - 1) \in Seq(Calls)
      /\ Ops("verdict", 1) \in Seq(Calls)
  BY <1>2, CallsTypes, Zenon
<1>4. /\ Ops("set", 1) \in Seq(Calls)
      /\ Ops("log", 1) \in Seq(Calls)
      /\ Ops("get", 1) \in Seq(Calls)
      /\ Ops("check", 1) \in Seq(Calls)
  BY <1>2, CallsTypes, Zenon
<1> DEFINE front == Ops("coef", s.logged * s.degree)
                      \o Ops("challenge", s.degree + 2)
                      \o Ops("hash", s.logged) \o Ops("order", s.logged - 1)
                      \o Ops("verdict", 1)
<1>5. front \in Seq(Calls)
  BY <1>3, ConcatType
<1>6. CheckBody(s) = front \o Ops("set", 1)
  BY DEF CheckBody
<1>7. Ops("set", 1) = <<[op |-> "set", times |-> 1]>>
  BY DEF Ops
<1> HIDE DEF front
<1>8. CheckBody(s) \in Seq(Calls)
  BY <1>4, <1>5, <1>6, ConcatType
<1>9. CheckBody(s) # <<>> /\ CheckBody(s)[Len(CheckBody(s))].op = "set"
  <2> DEFINE last == [op |-> "set", times |-> 1]
  <2>1. last.op = "set" /\ CheckBody(s) = front \o <<last>>
    BY <1>6, <1>7
  <2> HIDE DEF last
  <2>2. /\ Len(CheckBody(s)) = Len(front) + 1 /\ CheckBody(s) # <<>>
        /\ CheckBody(s)[Len(front) + 1] = last
    BY <1>5, <2>1, LastOfConcat
  <2> QED
    BY <2>1, <2>2
<1> QED
  BY <1>2, <1>3, <1>4, <1>8, <1>9, ConcatType DEF XresBody

-----------------------------------------------------------------------------
(* The length of the chain the loop of main is at.                         *)
ChainAt(v) == run.chains[Len(run.chains) + 1 - Current(v).times]

(* One committed value, or one of the two halves of a refill.              *)
OnwardMasked(v, blocks) ==
  IF v.extending
  THEN [Count(v) EXCEPT !.extending = FALSE, !.pool = @ + 1, !.pointer = 0]
  ELSE IF Exhausted(v)
  THEN [Count(v) EXCEPT !.extending = TRUE]
  ELSE Count([Put(Advance(v, <<>>), blocks) EXCEPT !.pointer = @ + 1])

(* One step of a party in which nothing fails.                             *)
Onward(v) ==
  LET op == Current(v).op
      go(ops) == Advance(v, ops)
  IN  CASE op \in {"coef", "one"} -> OnwardMasked(v, 0)
        [] op = "inv" -> OnwardMasked(v, 1)
        [] op \in {"word", "order"} -> Count(go(<<>>))
        [] op = "header" ->
             Count([go(Body(FileHeader)) EXCEPT
                      !.degree = run.degree, !.mem = run.ncls,
                      !.logged = run.ncls])
        [] op \in {"clause", "resolve", "witness"} -> go(Ops("coef", v.degree))
        [] op = "sat" -> Put(go(<<>>), 1)
        [] op = "compare" ->
             Count([Put(go(<<>>), 1) EXCEPT !.base = v.put + 1])
        [] op = "chain" ->
             Count(go(IF ChainAt(v) = 0 THEN <<>>
                      ELSE ChainBody(v, ChainAt(v))))
        [] op = "fetch" -> Count(go(Ops("get", 1)))
        [] op = "get" -> go(Ops("coef", v.degree) \o Ops("log", 1))
        [] op = "log" ->
             [go(IF CheckDue(v) THEN Ops("check", 1) ELSE <<>>) EXCEPT
                !.reads = v.reads + 1, !.logged = v.logged + 1]
        [] op = "xres" -> go(XresBody(v))
        [] op = "equal" -> Put(Draw(go(<<>>)), 1)
        [] op = "check" -> go(CheckBody(v))
        [] op = "challenge" -> Draw(go(<<>>))
        [] op = "hash" -> Put(go(<<>>), 2)
        [] op = "verdict" -> go(<<>>)
        [] op = "set" ->
             Count([go(<<>>) EXCEPT !.drawn = Draw(v).drawn,
                                    !.logged = v.mem, !.reads = 0])
        [] OTHER -> v

(* The variables of a party that the two keep alike: not its failures, and *)
(* DEGREE only once it is known.                                           *)
Alike(s, v) ==
  /\ s.todo = v.todo
  /\ s.mem # 0 => s.degree = v.degree
  /\ s.mem = v.mem /\ s.reads = v.reads /\ s.logged = v.logged
  /\ s.pool = v.pool /\ s.pointer = v.pointer /\ s.extending = v.extending
  /\ s.put = v.put /\ s.base = v.base /\ s.drawn = v.drawn
  /\ s.transcript = v.transcript

LEMMA OnwardCases ==
  ASSUME NEW v
  PROVE  LET op == Current(v).op
         IN  /\ op \in {"coef", "one"} => Onward(v) = OnwardMasked(v, 0)
             /\ op = "inv" => Onward(v) = OnwardMasked(v, 1)
             /\ op \in {"word", "order"} => Onward(v) = Count(Advance(v, <<>>))
             /\ op \in {"clause", "resolve", "witness"} =>
                  Onward(v) = Advance(v, Ops("coef", v.degree))
             /\ op = "sat" => Onward(v) = Put(Advance(v, <<>>), 1)
             /\ op = "fetch" => Onward(v) = Count(Advance(v, Ops("get", 1)))
             /\ op = "get" =>
                  Onward(v) =
                    Advance(v, Ops("coef", v.degree) \o Ops("log", 1))
             /\ op = "xres" => Onward(v) = Advance(v, XresBody(v))
             /\ op = "equal" => Onward(v) = Put(Draw(Advance(v, <<>>)), 1)
             /\ op = "check" => Onward(v) = Advance(v, CheckBody(v))
             /\ op = "challenge" => Onward(v) = Draw(Advance(v, <<>>))
             /\ op = "hash" => Onward(v) = Put(Advance(v, <<>>), 2)
             /\ op = "verdict" => Onward(v) = Advance(v, <<>>)
BY DEF Onward

LEMMA OnwardHeader ==
  ASSUME NEW v, Current(v).op = "header"
  PROVE  Onward(v) = Count([Advance(v, Body(FileHeader)) EXCEPT
                              !.degree = run.degree, !.mem = run.ncls,
                              !.logged = run.ncls])
BY DEF Onward

LEMMA OnwardCompare ==
  ASSUME NEW v, Current(v).op = "compare"
  PROVE  Onward(v) =
           Count([Put(Advance(v, <<>>), 1) EXCEPT !.base = v.put + 1])
BY DEF Onward

LEMMA OnwardChain ==
  ASSUME NEW v, Current(v).op = "chain"
  PROVE  Onward(v) =
           Count(Advance(v, IF ChainAt(v) = 0 THEN <<>>
                            ELSE ChainBody(v, ChainAt(v))))
BY DEF Onward

LEMMA OnwardLog ==
  ASSUME NEW v, Current(v).op = "log"
  PROVE  Onward(v) =
           [Advance(v, IF CheckDue(v) THEN Ops("check", 1) ELSE <<>>) EXCEPT
              !.reads = v.reads + 1, !.logged = v.logged + 1]
BY DEF Onward

LEMMA OnwardSet ==
  ASSUME NEW v, Current(v).op = "set"
  PROVE  Onward(v) =
           Count([Advance(v, <<>>) EXCEPT !.drawn = Draw(v).drawn,
                                          !.logged = v.mem, !.reads = 0])
BY DEF Onward

LEMMA AlikeAdvance ==
  ASSUME NEW s \in States, NEW v \in States, Alike(s, v), NEW ops
  PROVE  Alike(Advance(s, ops), Advance(v, ops))
BY DEF Alike, States, Advance, Current

LEMMA AlikePut ==
  ASSUME NEW s \in States, NEW v \in States, Alike(s, v), NEW k
  PROVE  Alike(Put(s, k), Put(v, k))
BY DEF Alike, States, Put

LEMMA AlikeDraw ==
  ASSUME NEW s \in States, NEW v \in States, Alike(s, v)
  PROVE  Alike(Draw(s), Draw(v))
BY DEF Alike, States, Draw

LEMMA AlikeCount ==
  ASSUME NEW s \in States, NEW v \in States, Alike(s, v)
  PROVE  Alike(Count(s), Count(v))
BY DEF Alike, States, Count

-----------------------------------------------------------------------------
(* What a list of operations looks like: words and the header, and after   *)
(* it calls, the last one to the memory's check, and the report.           *)
Program(todo, started) ==
  LET n == Len(todo)
  IN  /\ n >= 1
      /\ todo[n] = [op |-> IF started THEN "report" ELSE "header", times |-> 1]
      /\ \A m \in 1 .. n - 1 :
           todo[m].op \in (IF started THEN Inner ELSE {"word"})
      /\ started /\ n > 1 => todo[n - 1].op \in {"check", "set"}

LEMMA OpsShape ==
  ASSUME NEW op, NEW k \in Int
  PROVE  /\ Ops(op, k) = <<>> \/ (/\ Len(Ops(op, k)) = 1
                                  /\ Ops(op, k)[1].op = op)
         /\ Ops(op, k) # <<>> <=> k # 0
<1>1. CASE k = 0
  BY <1>1 DEF Ops
<1>2. CASE k # 0
  <2>1. Ops(op, k) = <<[op |-> op, times |-> k]>>
    BY <1>2 DEF Ops
  <2> QED
    BY <2>1, <1>2
<1> QED
  BY <1>1, <1>2

LEMMA Spliced ==
  ASSUME NEW todo \in Seq(Operation), Len(todo) >= 2,
         NEW x \in Seq(Operation), NEW I,
         \A m \in 1 .. Len(x) : x[m].op \in I,
         \A m \in 1 .. Len(todo) - 1 : todo[m].op \in I
  PROVE  LET z == x \o Tail(todo)
         IN  /\ z \in Seq(Operation)
             /\ Len(z) = Len(x) + Len(todo) - 1
             /\ z[Len(z)] = todo[Len(todo)]
             /\ \A m \in 1 .. Len(z) - 1 : z[m].op \in I
             /\ Len(todo) >= 3 => z[Len(z) - 1] = todo[Len(todo) - 1]
             /\ Len(todo) = 2 /\ Len(x) > 0 => z[Len(z) - 1] = x[Len(x)]
<1> DEFINE z == x \o Tail(todo)
<1>1. /\ Tail(todo) \in Seq(Operation) /\ Len(Tail(todo)) = Len(todo) - 1
      /\ \A m \in 1 .. Len(todo) - 1 : Tail(todo)[m] = todo[m + 1]
      /\ Len(todo) \in Nat /\ Len(x) \in Nat
  OBVIOUS
<1>2. /\ z \in Seq(Operation) /\ Len(z) = Len(x) + Len(todo) - 1
      /\ \A m \in 1 .. Len(x) : z[m] = x[m]
      /\ \A m \in Len(x) + 1 .. Len(z) : z[m] = Tail(todo)[m - Len(x)]
  BY <1>1
<1>3. \A m \in Len(x) + 1 .. Len(z) : z[m] = todo[m - Len(x) + 1]
  BY <1>1, <1>2
<1>4. ASSUME NEW m \in 1 .. Len(z) - 1
      PROVE  z[m].op \in I
  <2>1. CASE m <= Len(x)
    BY <2>1, <1>1, <1>2
  <2>2. CASE m > Len(x)
    BY <2>2, <1>1, <1>2, <1>3, SMTT(30)
  <2> QED
    BY <2>1, <2>2, <1>1
<1>5. z[Len(z)] = todo[Len(todo)]
  BY <1>1, <1>2, <1>3
<1>6. Len(todo) >= 3 => z[Len(z) - 1] = todo[Len(todo) - 1]
  BY <1>1, <1>2, <1>3
<1>7. Len(todo) = 2 /\ Len(x) > 0 => z[Len(z) - 1] = x[Len(x)]
  BY <1>1, <1>2
<1> QED
  BY <1>2, <1>4, <1>5, <1>6, <1>7

LEMMA ProgramAdvance ==
  ASSUME NEW s \in States, Program(s.todo, TRUE), Current(s).op # "report",
         NEW ops \in Seq(Calls),
         Current(s).op = "set" => ops = <<>>,
         Current(s).op = "check" => /\ Len(ops) > 0
                                    /\ ops[Len(ops)].op = "set"
  PROVE  /\ Program(Advance(s, ops).todo, TRUE)
         /\ Current(s).op # "set" => Current(Advance(s, ops)).op # "report"
<1> DEFINE op == Current(s).op
           more == Ops(op, Current(s).times - 1)
           x == ops \o more
           todo == s.todo
           z == Advance(s, ops).todo
<1>1. /\ todo \in Seq(Operation) /\ Len(todo) \in Nat /\ Len(todo) >= 1
      /\ Current(s) = todo[1] /\ todo # <<>>
  BY DEF States, Program, Current
<1>2. Len(todo) >= 2 /\ (Len(todo) = 2 \/ Len(todo) >= 3)
  <2>1. Len(todo) = 1 => Current(s).op = "report"
    BY <1>1 DEF Program
  <2>2. Len(todo) # 1
    BY <2>1
  <2> QED
    BY <1>1, <2>2, SmallNumbers
<1>3. op \in Inner /\ Current(s).times \in Int
  BY <1>1, <1>2, CurrentType DEF Program
<1>4. ops \in Seq(Operation) /\ (\A m \in 1 .. Len(ops) : ops[m].op \in Inner)
  BY CallsAreOperations
<1>5. /\ more \in Seq(Operation)
      /\ more = <<>> \/ (Len(more) = 1 /\ more[1].op = op)
  BY <1>1, <1>3, CurrentType, OpsShape
<1> HIDE DEF op, more
<1>6. /\ x \in Seq(Operation) /\ Len(x) = Len(ops) + Len(more)
      /\ Len(x) \in Nat /\ Len(ops) \in Nat /\ Len(more) \in Nat
  BY <1>4, <1>5
<1>7. \A m \in 1 .. Len(x) : x[m].op \in Inner
  BY <1>3, <1>4, <1>5
<1>8. z = x \o Tail(todo)
  BY <1>1, <1>4, AdvanceType DEF op, more
<1> HIDE DEF x, z
<1>9. \A m \in 1 .. Len(todo) - 1 : todo[m].op \in Inner
  BY DEF Program
<1>10. /\ z \in Seq(Operation) /\ Len(z) = Len(x) + Len(todo) - 1
       /\ z[Len(z)] = todo[Len(todo)]
       /\ \A m \in 1 .. Len(z) - 1 : z[m].op \in Inner
       /\ Len(todo) >= 3 => z[Len(z) - 1] = todo[Len(todo) - 1]
       /\ Len(todo) = 2 /\ Len(x) > 0 => z[Len(z) - 1] = x[Len(x)]
  BY <1>1, <1>2, <1>6, <1>7, <1>8, <1>9, Spliced
<1>11. Len(z) > 1 => z[Len(z) - 1].op \in {"check", "set"}
  <2>1. CASE Len(todo) >= 3
    BY <2>1, <1>1, <1>10 DEF Program
  <2>2. CASE Len(todo) = 2
    <3>1. op \in {"check", "set"}
      BY <2>2, <1>1 DEF Program, op
    <3>2. Len(x) > 0 => x[Len(x)].op \in {"check", "set"}
      <4>1. CASE more # <<>>
        BY <4>1, <1>4, <1>5, <3>1 DEF x
      <4>2. CASE more = <<>> /\ op = "check"
        BY <4>2, <1>4, <1>5 DEF x, op
      <4>3. CASE more = <<>> /\ op = "set"
        BY <4>3, <1>4, <1>5 DEF x, op
      <4> QED
        BY <3>1, <4>1, <4>2, <4>3
    <3> QED
      BY <2>2, <3>2, <1>6, <1>10
  <2> QED
    BY <1>1, <1>2, <2>1, <2>2
<1>12. Program(z, TRUE)
  <2>1. todo[Len(todo)] = [op |-> "report", times |-> 1]
    BY DEF Program
  <2>2. Len(z) >= 1
    BY <1>1, <1>2, <1>6, <1>10, SmallSums
  <2> QED
    BY <2>1, <2>2, <1>10, <1>11 DEF Program
<1>13. op # "set" => Len(z) >= 2
  <2>1. CASE Len(todo) >= 3
    BY <2>1, <1>1, <1>6, <1>10, SmallSums
  <2>2. CASE Len(todo) = 2 /\ op # "set"
    <3>1. op = "check"
      BY <2>2, <1>1 DEF Program, op
    <3>2. Len(ops) > 0
      BY <3>1 DEF op
    <3> QED
      BY <3>2, <2>2, <1>1, <1>6, <1>10, SmallSums
  <2> QED
    BY <1>1, <1>2, <2>1, <2>2
<1>14. Len(z) >= 2 => Current(Advance(s, ops)).op # "report"
  <2>1. Len(z) >= 2 => z[1].op \in Inner
    BY <1>10
  <2>2. Current(Advance(s, ops)) = Head(z)
    BY DEF Current, z
  <2>3. "report" \notin Inner
    BY DEF Inner
  <2>4. Len(z) >= 2 => Head(z) = z[1]
    BY <1>10
  <2> QED
    BY <2>1, <2>2, <2>3, <2>4
<1> QED
  BY <1>12, <1>13, <1>14 DEF z, op

(* Messages a party has sent to the verifier's side, and those received    *)
(* there: a refill sends first and receives in its second half.            *)
Sent(v) == v.transcript - v.pool

Received(v) == Sent(v) - (IF v.extending THEN 1 ELSE 0)

Sends(v) == ~ v.extending /\ Kind(v) # "none"

Receives(v) == v.extending \/ Kind(v) \notin {"none", "extend"}

Extends(s, t) ==
  /\ Len(s) <= Len(t)
  /\ \A m \in 1 .. Len(s) : s[m] = t[m]

(* A position of a party that never failed.                                *)
Good(v) ==
  /\ v \in States
  /\ Program(v.todo, v.mem # 0)
  /\ v.mem \in {0, run.ncls}
  /\ v.extending => Current(v).op \in MaskedOps /\ Exhausted(v)
  /\ v.base <= v.put

LEMMA GoodProperties ==
  ASSUME run \in Runs, NEW v, Good(v)
  PROVE  /\ v \in States /\ v.todo # <<>>
         /\ Current(v).op \in OpNames
         /\ v.mem = 0 <=> Current(v).op \in {"word", "header"}
         /\ Current(v).op = "report" => v.mem # 0
         /\ Current(v).op = "header" => Len(v.todo) = 1
         /\ Current(v).op \in {"header", "report"} => Current(v).times = 1
         /\ Current(v).op = "word" => Len(v.todo) >= 2
         /\ Sent(v) \in Int /\ Received(v) \in Int
         /\ Received(v) <= Sent(v)
<1> DEFINE todo == v.todo
<1>1. /\ v \in States /\ todo \in Seq(Operation) /\ Len(todo) \in Nat
      /\ Len(todo) >= 1 /\ todo # <<>> /\ Current(v) = todo[1]
  BY DEF Good, States, Program, Current
<1>2. Current(v).op \in OpNames
  BY <1>1, CurrentType
<1>3. Len(todo) = 1 \/ Len(todo) >= 2
  BY <1>1, SmallNumbers
<1>4. CASE v.mem = 0
  <2>1. Program(todo, FALSE)
    BY <1>4 DEF Good
  <2>2. Len(todo) = 1 => /\ Current(v).op = "header" /\ Current(v).times = 1
    BY <2>1, <1>1 DEF Program
  <2>3. Len(todo) >= 2 => Current(v).op = "word"
    BY <2>1, <1>1 DEF Program
  <2> QED
    BY <1>1, <1>2, <1>3, <1>4, <2>2, <2>3 DEF Sent, Received, States
<1>5. CASE v.mem # 0
  <2>1. Program(todo, TRUE)
    BY <1>5 DEF Good
  <2>2. Len(todo) = 1 => Current(v).op = "report" /\ Current(v).times = 1
    BY <2>1, <1>1 DEF Program
  <2>3. Len(todo) >= 2 => Current(v).op \in Inner
    BY <2>1, <1>1 DEF Program
  <2>4. Current(v).op \notin {"word", "header"}
    BY <1>3, <2>2, <2>3 DEF Inner
  <2>5. Current(v).op = "report" => Len(todo) = 1
    BY <1>3, <2>3 DEF Inner
  <2> QED
    BY <1>1, <1>2, <1>5, <2>2, <2>4, <2>5 DEF Sent, Received, States
<1> QED
  BY <1>4, <1>5

LEMMA KindCases ==
  ASSUME NEW v
  PROVE  LET op == Current(v).op
         IN  /\ op \in MaskedOps =>
                  Kind(v) = IF Exhausted(v) THEN "extend" ELSE op
             /\ op \in {"word", "header"} => Kind(v) = op
             /\ op = "compare" => Kind(v) = "digest"
             /\ op = "chain" => Kind(v) = "length"
             /\ op \in {"fetch", "order"} => Kind(v) = "bit"
             /\ op = "set" => Kind(v) = "macs"
             /\ op \in {"clause", "sat", "get", "log", "resolve", "xres",
                        "witness", "equal", "check", "challenge", "hash",
                        "verdict", "report"} => Kind(v) = "none"
BY DEF Kind, MaskedOps

LEMMA Unchanged ==
  ASSUME NEW s \in States
  PROVE  /\ \A ops :
              LET t == Advance(s, ops)
              IN  /\ t.mem = s.mem /\ t.pool = s.pool
                  /\ t.extending = s.extending /\ t.put = s.put
                  /\ t.base = s.base /\ t.transcript = s.transcript
                  /\ t.drawn = s.drawn /\ t.pointer = s.pointer
                  /\ t.out = s.out /\ t.logged = s.logged
         /\ \A k :
              LET t == Put(s, k)
              IN  /\ t.mem = s.mem /\ t.pool = s.pool
                  /\ t.extending = s.extending /\ t.put = s.put + k
                  /\ t.base = s.base /\ t.transcript = s.transcript
                  /\ t.drawn = s.drawn /\ t.pointer = s.pointer
                  /\ t.out = s.out /\ t.todo = s.todo
         /\ LET t == Draw(s)
            IN  /\ t.mem = s.mem /\ t.pool = s.pool
                /\ t.extending = s.extending /\ t.put = s.put
                /\ t.base = s.base /\ t.transcript = s.transcript
                /\ t.drawn = Append(s.drawn, s.transcript)
                /\ t.out = s.out /\ t.todo = s.todo
         /\ LET t == Count(s)
            IN  /\ t.mem = s.mem /\ t.pool = s.pool
                /\ t.extending = s.extending /\ t.put = s.put
                /\ t.base = s.base /\ t.transcript = s.transcript + 1
                /\ t.drawn = s.drawn /\ t.pointer = s.pointer
                /\ t.out = s.out /\ t.todo = s.todo
<1>1. \A ops :
        LET t == Advance(s, ops)
        IN  /\ t.mem = s.mem /\ t.pool = s.pool
            /\ t.extending = s.extending /\ t.put = s.put
            /\ t.base = s.base /\ t.transcript = s.transcript
            /\ t.drawn = s.drawn /\ t.pointer = s.pointer
            /\ t.out = s.out /\ t.logged = s.logged
  BY DEF States, Advance
<1>2. \A k :
        LET t == Put(s, k)
        IN  /\ t.mem = s.mem /\ t.pool = s.pool
            /\ t.extending = s.extending /\ t.put = s.put + k
            /\ t.base = s.base /\ t.transcript = s.transcript
            /\ t.drawn = s.drawn /\ t.pointer = s.pointer
            /\ t.out = s.out /\ t.todo = s.todo
  BY DEF States, Put
<1>3. LET t == Draw(s)
      IN  /\ t.mem = s.mem /\ t.pool = s.pool
          /\ t.extending = s.extending /\ t.put = s.put
          /\ t.base = s.base /\ t.transcript = s.transcript
          /\ t.drawn = Append(s.drawn, s.transcript)
          /\ t.out = s.out /\ t.todo = s.todo
  BY DEF States, Draw
<1>4. LET t == Count(s)
      IN  /\ t.mem = s.mem /\ t.pool = s.pool
          /\ t.extending = s.extending /\ t.put = s.put
          /\ t.base = s.base /\ t.transcript = s.transcript + 1
          /\ t.drawn = s.drawn /\ t.pointer = s.pointer
          /\ t.out = s.out /\ t.todo = s.todo
  BY DEF States, Count
<1> QED
  BY <1>1, <1>2, <1>3, <1>4

(* What one step of a party that does not fail does to its position.       *)
Progress(v, w) ==
  /\ Good(w)
  /\ Sent(w) = Sent(v) + (IF Sends(v) THEN 1 ELSE 0)
  /\ Received(w) = Received(v) + (IF Receives(v) THEN 1 ELSE 0)
  /\ Extends(v.drawn, w.drawn)
  /\ Current(w).op = "report" => Current(v).op = "set"

LEMMA ExtendsProperties ==
  /\ \A s \in Seq(Nat) : Extends(s, s)
  /\ \A s \in Seq(Nat), n \in Nat : Extends(s, Append(s, n))
  /\ \A s, t, u \in Seq(Nat) : Extends(s, t) /\ Extends(t, u) => Extends(s, u)
BY DEF Extends

LEMMA Counted ==
  ASSUME NEW v, NEW w, v.transcript \in Nat, v.pool \in Nat,
         ~ v.extending, ~ w.extending, w.pool = v.pool, Kind(v) # "extend",
         w.transcript = v.transcript + (IF Kind(v) = "none" THEN 0 ELSE 1)
  PROVE  /\ Sent(w) = Sent(v) + (IF Sends(v) THEN 1 ELSE 0)
         /\ Received(w) = Received(v) + (IF Receives(v) THEN 1 ELSE 0)
<1>1. CASE Kind(v) = "none"
  BY <1>1 DEF Sent, Received, Sends, Receives
<1>2. CASE Kind(v) # "none"
  BY <1>2 DEF Sent, Received, Sends, Receives
<1> QED
  BY <1>1, <1>2

LEMMA ProgressOfCall ==
  ASSUME run \in Runs, NEW v, Good(v), v.mem # 0, ~ v.extending,
         Current(v).op # "report", Kind(v) # "extend",
         NEW ops \in Seq(Calls),
         Current(v).op = "set" => ops = <<>>,
         Current(v).op = "check" => ops = CheckBody(v),
         NEW w \in States, w.todo = Advance(v, ops).todo,
         w.mem = v.mem, w.pool = v.pool, ~ w.extending, w.base <= w.put,
         w.transcript = v.transcript + (IF Kind(v) = "none" THEN 0 ELSE 1),
         Extends(v.drawn, w.drawn)
  PROVE  Progress(v, w)
<1>1. v \in States /\ Program(v.todo, TRUE)
  BY DEF Good
<1>2. Current(v).op = "check" => Len(ops) > 0 /\ ops[Len(ops)].op = "set"
  BY <1>1, CallBodyTypes
<1>3. /\ Program(w.todo, TRUE)
      /\ Current(v).op # "set" => Current(Advance(v, ops)).op # "report"
  BY <1>1, <1>2, ProgramAdvance
<1>4. Good(w)
  BY <1>3 DEF Good
<1>5. Current(w) = Current(Advance(v, ops))
  BY DEF Current
<1>6. /\ Sent(w) = Sent(v) + (IF Sends(v) THEN 1 ELSE 0)
      /\ Received(w) = Received(v) + (IF Receives(v) THEN 1 ELSE 0)
  <2>1. v.transcript \in Nat /\ v.pool \in Nat
    BY <1>1 DEF States
  <2> QED
    BY <2>1, Counted
<1> QED
  BY <1>3, <1>4, <1>5, <1>6 DEF Progress

LEMMA WordProgress ==
  ASSUME run \in Runs, NEW v, Good(v), Current(v).op = "word"
  PROVE  Progress(v, Onward(v))
<1> DEFINE a == Advance(v, <<>>)
           w == Count(a)
           x == Ops("word", Current(v).times - 1)
<1>1. /\ v \in States /\ v.mem = 0 /\ Program(v.todo, FALSE)
      /\ Len(v.todo) >= 2 /\ v.todo # <<>> /\ v.todo \in Seq(Operation)
      /\ ~ v.extending
  BY GoodProperties DEF Good, States, MaskedOps
<1>2. a \in States /\ a.todo = <<>> \o x \o Tail(v.todo) /\ w \in States
  BY <1>1, AdvanceType, CountType, CallBodyTypes, CallsAreOperations
<1>3. x \in Seq(Operation) /\ (\A m \in 1 .. Len(x) : x[m].op \in {"word"})
      /\ Len(x) \in Nat
  <2>1. x \in Seq(Operation) /\ Current(v).times - 1 \in Int
    BY <1>1, CurrentType
  <2> QED
    BY <2>1, OpsShape
<1>4. a.todo = x \o Tail(v.todo)
  <2>1. <<>> \o x = x
    BY <1>3, EmptyParts
  <2> QED
    BY <1>2, <2>1
<1> DEFINE z == a.todo
<1>5. /\ z \in Seq(Operation) /\ Len(z) = Len(x) + Len(v.todo) - 1
      /\ z[Len(z)] = v.todo[Len(v.todo)]
      /\ \A m \in 1 .. Len(z) - 1 : z[m].op \in {"word"}
  <2> HIDE DEF x
  <2>1. \A m \in 1 .. Len(v.todo) - 1 : v.todo[m].op \in {"word"}
    BY <1>1 DEF Program
  <2>2. LET y == x \o Tail(v.todo)
        IN  /\ y \in Seq(Operation)
            /\ Len(y) = Len(x) + Len(v.todo) - 1
            /\ y[Len(y)] = v.todo[Len(v.todo)]
            /\ \A m \in 1 .. Len(y) - 1 : y[m].op \in {"word"}
    BY <1>1, <1>3, <2>1, Spliced
  <2> QED
    BY <1>4, <2>2
<1> HIDE DEF z, x
<1>6. Len(z) >= 1 /\ z # <<>> /\ Len(z) \in Nat
  BY <1>1, <1>3, <1>5, SmallSums
<1>7. Program(z, FALSE)
  BY <1>1, <1>5, <1>6 DEF Program
<1>8. Head(z).op \in {"word", "header"}
  BY <1>5, <1>6, <1>7 DEF Program
<1>9. /\ w.todo = z /\ w.mem = 0 /\ w.extending = v.extending
      /\ w.base = v.base /\ w.put = v.put /\ w.drawn = v.drawn
      /\ w.transcript = v.transcript + 1 /\ w.pool = v.pool
  BY <1>1, <1>2, Unchanged DEF z
<1>10. Onward(v) = w
  BY OnwardCases
<1>11. Kind(v) = "word"
  BY KindCases
<1> HIDE DEF a, w
<1>12. Good(w)
  BY <1>1, <1>2, <1>7, <1>9 DEF Good
<1>13. /\ Sent(w) = Sent(v) + (IF Sends(v) THEN 1 ELSE 0)
       /\ Received(w) = Received(v) + (IF Receives(v) THEN 1 ELSE 0)
  <2>1. v.transcript \in Nat /\ v.pool \in Nat
    BY <1>1 DEF States
  <2> QED
    BY <2>1, <1>1, <1>9, <1>11, Counted
<1>14. Extends(v.drawn, w.drawn) /\ Current(w).op # "report"
  BY <1>1, <1>8, <1>9, ExtendsProperties DEF States, Current
<1> QED
  BY <1>10, <1>12, <1>13, <1>14 DEF Progress

LEMMA HeaderProgress ==
  ASSUME run \in Runs, NEW v, Good(v), Current(v).op = "header"
  PROVE  Progress(v, Onward(v))
<1> DEFINE a == Advance(v, Body(FileHeader))
           b == [a EXCEPT !.degree = run.degree, !.mem = run.ncls,
                          !.logged = run.ncls]
           w == Count(b)
<1>1. /\ v \in States /\ v.mem = 0 /\ Current(v).times = 1
      /\ Len(v.todo) = 1 /\ v.todo # <<>> /\ v.todo \in Seq(Operation)
      /\ ~ v.extending
  BY GoodProperties DEF Good, States, MaskedOps
<1>2. /\ a \in States
      /\ a.todo = Body(FileHeader) \o Ops("header", 1 - 1) \o Tail(v.todo)
  BY <1>1, BodyType, AdvanceType
<1>3. Ops("header", 1 - 1) = <<>> /\ Tail(v.todo) = <<>>
  <2>1. Ops("header", 1 - 1) = <<>>
    BY DEF Ops
  <2> QED
    BY <2>1, <1>1, EmptyParts
<1>4. a.todo = Body(FileHeader)
  <2>1. \A x \in Seq(Operation) : x \o <<>> \o <<>> = x
    BY EmptyParts
  <2> QED
    BY <1>2, <1>3, <2>1, BodyType
<1>5. b \in States /\ b.todo = a.todo /\ b.mem = run.ncls
      /\ b.extending = a.extending /\ b.put = a.put /\ b.base = a.base
      /\ b.drawn = a.drawn /\ b.transcript = a.transcript /\ b.pool = a.pool
  <2>1. run.degree \in Nat /\ run.ncls \in Nat
    BY RunProperties
  <2> HIDE DEF a
  <2> QED
    BY <2>1, <1>2 DEF States
<1>6. /\ w \in States /\ w.todo = Body(FileHeader) /\ w.mem = run.ncls
      /\ w.extending = v.extending /\ w.base = v.base /\ w.put = v.put
      /\ w.drawn = v.drawn /\ w.transcript = v.transcript + 1
      /\ w.pool = v.pool
  <2> HIDE DEF a, b
  <2>1. /\ a.extending = v.extending /\ a.base = v.base /\ a.put = v.put
        /\ a.drawn = v.drawn /\ a.transcript = v.transcript
        /\ a.pool = v.pool
    BY <1>1, Unchanged DEF a
  <2> QED
    BY <1>4, <1>5, <2>1, Unchanged, CountType
<1>7. Onward(v) = w
  BY OnwardHeader
<1>8. Program(w.todo, TRUE) /\ w.todo[1].op # "report"
  <2> DEFINE check == [op |-> "check", times |-> 1]
             report == [op |-> "report", times |-> 1]
             x == AfterHeader \o <<check>>
             z == x \o <<report>>
  <2>1. AfterHeader \in Seq(Calls) /\ w.todo = z
    BY <1>6, BodyType
  <2>2. /\ Len(AfterHeader) \in Nat
        /\ \A m \in 1 .. Len(AfterHeader) : AfterHeader[m].op \in Inner
    BY <2>1, CallsAreOperations
  <2>3. /\ x \in Seq(Operation) /\ Len(x) = Len(AfterHeader) + 1
        /\ x[Len(AfterHeader) + 1] = check
        /\ \A m \in 1 .. Len(AfterHeader) : x[m] = AfterHeader[m]
    <3>1. check \in Operation
      BY DEF Operation, OpNames, Inner
    <3>2. AfterHeader \in Seq(Operation)
      BY <2>1, CallsAreOperations
    <3> HIDE DEF check
    <3> QED
      BY <3>1, <3>2
  <2>4. check.op \in Inner /\ check.op = "check"
    BY DEF Inner
  <2> HIDE DEF check
  <2>5. \A m \in 1 .. Len(x) : x[m].op \in Inner
    BY <2>2, <2>3, <2>4
  <2> HIDE DEF x
  <2>6. /\ Len(z) = Len(AfterHeader) + 2 /\ z[Len(AfterHeader) + 2] = report
        /\ \A m \in 1 .. Len(AfterHeader) + 1 : z[m] = x[m]
    BY <2>2, <2>3
  <2>7. report = [op |-> "report", times |-> 1]
    OBVIOUS
  <2> HIDE DEF z, report
  <2>8. Program(z, TRUE)
    BY <2>2, <2>3, <2>4, <2>5, <2>6, <2>7 DEF Program
  <2>9. z[1].op \in Inner
    BY <2>2, <2>3, <2>5, <2>6
  <2> QED
    BY <2>1, <2>8, <2>9 DEF Inner
<1>9. Kind(v) = "header"
  BY KindCases
<1> HIDE DEF a, b, w
<1>10. Good(w)
  <2>1. w.mem # 0 /\ v.base <= v.put
    BY <1>6, RunProperties DEF Good
  <2> QED
    BY <2>1, <1>1, <1>6, <1>8 DEF Good
<1>11. /\ Sent(w) = Sent(v) + (IF Sends(v) THEN 1 ELSE 0)
       /\ Received(w) = Received(v) + (IF Receives(v) THEN 1 ELSE 0)
  <2>1. v.transcript \in Nat /\ v.pool \in Nat
    BY <1>1 DEF States
  <2> QED
    BY <2>1, <1>1, <1>6, <1>9, Counted
<1>12. Extends(v.drawn, w.drawn) /\ Current(w).op # "report"
  <2>1. w.todo # <<>> /\ w.todo \in Seq(Operation)
    BY <1>6, <1>8 DEF Program, States
  <2>2. Current(w).op # "report"
    BY <2>1, <1>8 DEF Current
  <2>3. v.drawn \in Seq(Nat)
    BY <1>1 DEF States
  <2> QED
    BY <2>2, <2>3, <1>6, ExtendsProperties
<1> QED
  BY <1>7, <1>10, <1>11, <1>12 DEF Progress

LEMMA AdvanceCall ==
  ASSUME NEW s \in States, s.todo # <<>>, NEW ops \in Seq(Calls)
  PROVE  Advance(s, ops) \in States
<1>1. ops \in Seq(Operation)
  BY CallsAreOperations
<1> QED
  BY <1>1, AdvanceType

LEMMA MaskedProgress ==
  ASSUME run \in Runs, NEW v, Good(v), Current(v).op \in MaskedOps
  PROVE  Progress(v, Onward(v))
<1> DEFINE blocks == IF Current(v).op = "inv" THEN 1 ELSE 0
           w == OnwardMasked(v, blocks)
<1>1. /\ v \in States /\ v.mem # 0 /\ Program(v.todo, TRUE)
      /\ v.todo # <<>> /\ v.base <= v.put
      /\ Current(v).op \notin {"set", "check", "report"}
  BY GoodProperties DEF Good, MaskedOps
<1>2. Onward(v) = w
  BY OnwardCases DEF MaskedOps
<1>3. Kind(v) = IF Exhausted(v) THEN "extend" ELSE Current(v).op
  BY KindCases
<1>4. /\ v.transcript \in Nat /\ v.pool \in Nat /\ v.drawn \in Seq(Nat)
      /\ v.pointer \in 0 .. PoolSize /\ v.put \in Nat /\ v.base \in Nat
  BY <1>1 DEF States
<1>5. Current(v).op \notin {"none", "extend"}
  BY DEF MaskedOps
<1>6. CASE v.extending
  <2>1. w = [Count(v) EXCEPT !.extending = FALSE, !.pool = @ + 1,
                             !.pointer = 0]
    BY <1>6 DEF OnwardMasked
  <2> DEFINE c == Count(v)
             pool == c.pool + 1
  <2>2. /\ c \in States /\ c.todo = v.todo /\ c.mem = v.mem
        /\ c.transcript = v.transcript + 1 /\ c.pool = v.pool
        /\ c.drawn = v.drawn /\ c.put = v.put /\ c.base = v.base
    BY <1>1, CountType, Unchanged
  <2>3. pool \in Nat /\ 0 \in 0 .. PoolSize /\ pool = v.pool + 1
    BY <2>2, <1>4, PartiesProperties
  <2>4. w = [c EXCEPT !.extending = FALSE, !.pool = pool, !.pointer = 0]
    BY <2>1
  <2> HIDE DEF c, pool, w
  <2>5. /\ w \in States /\ w.todo = v.todo /\ w.mem = v.mem
        /\ w.transcript = v.transcript + 1 /\ w.pool = v.pool + 1
        /\ ~ w.extending /\ w.drawn = v.drawn /\ w.put = v.put
        /\ w.base = v.base
    BY <2>2, <2>3, <2>4 DEF States
  <2>6. Good(w) /\ Current(w) = Current(v)
    BY <1>1, <2>5 DEF Good, Current
  <2>7. /\ Sent(w) = Sent(v) + (IF Sends(v) THEN 1 ELSE 0)
        /\ Received(w) = Received(v) + (IF Receives(v) THEN 1 ELSE 0)
    <3>1. Receives(v) /\ ~ Sends(v)
      BY <1>6 DEF Sends, Receives
    <3>2. /\ Sent(w) = w.transcript - w.pool /\ Received(w) = Sent(w)
          /\ Sent(v) = v.transcript - v.pool /\ Received(v) = Sent(v) - 1
      BY <1>4, <1>6, <2>5 DEF Sent, Received
    <3>3. /\ w.transcript = v.transcript + 1 /\ w.pool = v.pool + 1
          /\ v.transcript \in Nat /\ v.pool \in Nat
      BY <1>4, <2>5
    <3>4. \A x, y \in Nat : /\ (x + 1) - (y + 1) = x - y
                            /\ (x - y) - 1 + 1 = x - y
                            /\ x - y \in Int /\ x - y = (x - y) + 0
      OBVIOUS
    <3>5. Sent(w) = Sent(v) /\ Sent(v) \in Int
      BY <3>2, <3>3, <3>4
    <3>6. Received(w) = Received(v) + 1
      BY <3>2, <3>5
    <3> QED
      BY <3>1, <3>5, <3>6
  <2>8. Extends(v.drawn, w.drawn)
    BY <1>4, <2>5, ExtendsProperties
  <2> QED
    BY <1>1, <1>2, <2>6, <2>7, <2>8 DEF Progress
<1>7. CASE ~ v.extending /\ Exhausted(v)
  <2>1. w = [Count(v) EXCEPT !.extending = TRUE]
    BY <1>7 DEF OnwardMasked
  <2> DEFINE c == Count(v)
  <2>2. /\ c \in States /\ c.todo = v.todo /\ c.mem = v.mem
        /\ c.transcript = v.transcript + 1 /\ c.pool = v.pool
        /\ c.drawn = v.drawn /\ c.put = v.put /\ c.base = v.base
        /\ c.pointer = v.pointer
    BY <1>1, CountType, Unchanged
  <2> HIDE DEF c
  <2>3. w = [c EXCEPT !.extending = TRUE]
    BY <2>1 DEF c
  <2> HIDE DEF w
  <2>4. /\ w \in States /\ w.todo = v.todo /\ w.mem = v.mem
        /\ w.transcript = v.transcript + 1 /\ w.pool = v.pool
        /\ w.extending = TRUE /\ w.drawn = v.drawn /\ w.put = v.put
        /\ w.base = v.base /\ w.pointer = v.pointer
    BY <2>2, <2>3 DEF States
  <2>5. Good(w) /\ Current(w) = Current(v)
    BY <1>1, <1>7, <2>4 DEF Good, Current, Exhausted
  <2>6. /\ Sent(w) = Sent(v) + (IF Sends(v) THEN 1 ELSE 0)
        /\ Received(w) = Received(v) + (IF Receives(v) THEN 1 ELSE 0)
    <3>1. Sends(v) /\ ~ Receives(v)
      BY <1>3, <1>7 DEF Sends, Receives
    <3> QED
      BY <3>1, <1>4, <1>7, <2>4 DEF Sent, Received
  <2>7. Extends(v.drawn, w.drawn)
    BY <1>4, <2>4, ExtendsProperties
  <2> QED
    BY <1>1, <1>2, <2>5, <2>6, <2>7 DEF Progress
<1>8. CASE ~ v.extending /\ ~ Exhausted(v)
  <2> DEFINE a == Advance(v, <<>>)
             b == Put(a, blocks)
             pointer == b.pointer + 1
             c == [b EXCEPT !.pointer = pointer]
  <2>1. w = Count(c)
    BY <1>8 DEF OnwardMasked
  <2>2. a \in States /\ b \in States
    BY <1>1, AdvanceType, PutType, CallBodyTypes, CallsAreOperations
  <2>3. /\ b.todo = a.todo /\ b.mem = v.mem /\ b.transcript = v.transcript
        /\ b.pool = v.pool /\ b.extending = v.extending
        /\ b.drawn = v.drawn /\ b.put = v.put + blocks /\ b.base = v.base
        /\ b.pointer = v.pointer
    BY <1>1, <2>2, Unchanged
  <2>4. pointer \in 0 .. PoolSize
    BY <1>4, <1>8, <2>3, PartiesProperties DEF Exhausted
  <2>5. blocks \in Nat
    OBVIOUS
  <2> HIDE DEF a, b, pointer, blocks
  <2>6. /\ c \in States /\ c.todo = b.todo /\ c.mem = b.mem
        /\ c.transcript = b.transcript /\ c.pool = b.pool
        /\ c.extending = b.extending /\ c.drawn = b.drawn /\ c.put = b.put
        /\ c.base = b.base
    BY <2>2, <2>4 DEF States
  <2> HIDE DEF c, w
  <2>7. /\ w \in States /\ w.todo = Advance(v, <<>>).todo /\ w.mem = v.mem
        /\ w.transcript = v.transcript + 1 /\ w.pool = v.pool
        /\ ~ w.extending /\ w.drawn = v.drawn /\ w.put = v.put + blocks
        /\ w.base = v.base
    BY <1>8, <2>1, <2>3, <2>6, CountType, Unchanged DEF a
  <2>8. w.base <= w.put
    BY <1>1, <1>4, <2>5, <2>7
  <2>9. Kind(v) \notin {"none", "extend"}
    BY <1>3, <1>5, <1>8
  <2>10. Extends(v.drawn, w.drawn) /\ <<>> \in Seq(Calls)
    BY <1>4, <2>7, ExtendsProperties
  <2> QED
    BY <1>1, <1>2, <1>8, <2>7, <2>8, <2>9, <2>10, ProgressOfCall
<1> QED
  BY <1>6, <1>7, <1>8

LEMMA SilentProgress ==
  ASSUME run \in Runs, NEW v, Good(v), NEW ops \in Seq(Calls),
         Current(v).op \in Inner \ MaskedOps, Kind(v) = "none",
         Current(v).op = "check" => ops = CheckBody(v),
         NEW w \in States, w.todo = Advance(v, ops).todo,
         w.mem = v.mem, w.pool = v.pool, w.extending = v.extending,
         w.base = v.base, w.put \in Nat, v.put <= w.put,
         w.transcript = v.transcript, Extends(v.drawn, w.drawn)
  PROVE  Progress(v, w)
<1>1. /\ v \in States /\ v.mem # 0 /\ ~ v.extending
      /\ Current(v).op # "report" /\ Current(v).op # "set"
  BY GoodProperties, KindCases DEF Good, Inner
<1>2. w.base <= w.put
  <2>1. v.base <= v.put
    BY DEF Good
  <2>2. v.base \in Nat /\ v.put \in Nat
    BY <1>1 DEF States
  <2> QED
    BY <2>1, <2>2
<1>3. w.transcript = v.transcript + 0
  BY <1>1 DEF States
<1> QED
  BY <1>1, <1>2, <1>3, ProgressOfCall

LEMMA SilentCallsProgress ==
  ASSUME run \in Runs, NEW v, Good(v),
         Current(v).op \in {"clause", "resolve", "get", "xres", "check",
                            "verdict", "sat", "hash", "equal", "challenge",
                            "witness"}
  PROVE  Progress(v, Onward(v))
<1> DEFINE op == Current(v).op
<1>1. /\ op \in Inner \ MaskedOps /\ Kind(v) = "none"
  BY KindCases DEF Inner, MaskedOps
<1>2. /\ v \in States /\ v.todo # <<>> /\ v.put \in Nat
      /\ v.drawn \in Seq(Nat) /\ v.transcript \in Nat
  BY GoodProperties DEF Good, States
<1>3. Extends(v.drawn, v.drawn)
      /\ Extends(v.drawn, Append(v.drawn, v.transcript))
  BY <1>2, ExtendsProperties
<1>4. ASSUME NEW ops \in Seq(Calls), op = "check" => ops = CheckBody(v)
      PROVE  Progress(v, Advance(v, ops))
  <2> DEFINE w == Advance(v, ops)
  <2>1. w \in States
    BY <1>2, AdvanceCall
  <2>2. /\ w.mem = v.mem /\ w.pool = v.pool
        /\ w.extending = v.extending /\ w.base = v.base /\ w.put = v.put
        /\ w.transcript = v.transcript /\ w.drawn = v.drawn
    BY <1>2, Unchanged
  <2>3. w.todo = Advance(v, ops).todo
    OBVIOUS
  <2>4. w.put \in Nat /\ v.put <= w.put
    BY <1>2, <2>2
  <2> HIDE DEF w
  <2>5. Progress(v, w)
    BY <1>1, <1>3, <1>4, <2>1, <2>2, <2>3, <2>4, SilentProgress
  <2> QED
    BY <2>5 DEF w
<1>5. CASE op \in {"clause", "resolve", "witness"}
  BY <1>2, <1>4, <1>5, OnwardCases, CallBodyTypes
<1>6. CASE op \in {"get", "xres", "check", "verdict"}
  BY <1>2, <1>4, <1>6, OnwardCases, CallBodyTypes
<1> DEFINE a == Advance(v, <<>>)
<1>7. /\ a \in States /\ a.mem = v.mem /\ a.pool = v.pool
      /\ a.extending = v.extending /\ a.base = v.base /\ a.put = v.put
      /\ a.transcript = v.transcript /\ a.drawn = v.drawn
      /\ <<>> \in Seq(Calls)
  <2>1. <<>> \in Seq(Calls)
    OBVIOUS
  <2>2. a \in States
    BY <1>2, <2>1, AdvanceCall
  <2> QED
    BY <1>2, <2>1, <2>2, Unchanged
<1>8. CASE op \in {"sat", "hash"}
  <2> DEFINE k == IF op = "sat" THEN 1 ELSE 2
             w == Put(a, k)
  <2>1. Onward(v) = w /\ op # "check"
    BY <1>8, OnwardCases
  <2>2. k \in Nat
    OBVIOUS
  <2> HIDE DEF a, k, op
  <2>3. /\ w \in States /\ w.todo = a.todo /\ w.mem = a.mem
        /\ w.pool = a.pool /\ w.extending = a.extending /\ w.base = a.base
        /\ w.put = a.put + k
        /\ w.transcript = a.transcript /\ w.drawn = a.drawn
    <3>1. a \in States
      BY <1>7
    <3>2. w \in States
      BY <3>1, <2>2, PutType
    <3> QED
      BY <3>1, <3>2, Unchanged
  <2>4. w.put \in Nat /\ v.put <= w.put
    BY <1>2, <1>7, <2>2, <2>3
  <2> HIDE DEF w
  <2> QED
    BY <1>1, <1>3, <1>7, <2>1, <2>3, <2>4, SilentProgress DEF a, op
<1>9. CASE op = "challenge"
  <2> DEFINE w == Draw(a)
  <2>1. Onward(v) = w /\ op # "check"
    BY <1>9, OnwardCases
  <2> HIDE DEF a, op
  <2>2. /\ w \in States /\ w.todo = a.todo /\ w.mem = a.mem
        /\ w.pool = a.pool /\ w.extending = a.extending /\ w.base = a.base
        /\ w.put = a.put /\ w.transcript = a.transcript
        /\ w.drawn = Append(a.drawn, a.transcript)
    BY <1>7, DrawType, Unchanged
  <2> HIDE DEF w
  <2>3. w.put \in Nat /\ v.put <= w.put
    BY <1>2, <1>7, <2>2
  <2> QED
    BY <1>1, <1>3, <1>7, <2>1, <2>2, <2>3, SilentProgress DEF a, op
<1>10. CASE op = "equal"
  <2> DEFINE d == Draw(a)
             w == Put(d, 1)
  <2>1. Onward(v) = w /\ op # "check"
    BY <1>10, OnwardCases
  <2> HIDE DEF a, op
  <2>2. /\ d \in States /\ d.todo = a.todo /\ d.mem = a.mem
        /\ d.pool = a.pool /\ d.extending = a.extending /\ d.base = a.base
        /\ d.put = a.put /\ d.transcript = a.transcript
        /\ d.drawn = Append(a.drawn, a.transcript)
    BY <1>7, DrawType, Unchanged
  <2> HIDE DEF d
  <2>3. /\ w \in States /\ w.todo = d.todo /\ w.mem = d.mem
        /\ w.pool = d.pool /\ w.extending = d.extending /\ w.base = d.base
        /\ w.put = d.put + 1
        /\ w.transcript = d.transcript /\ w.drawn = d.drawn
    <3>1. 1 \in Nat /\ d \in States
      BY <2>2
    <3>2. w \in States
      BY <3>1, PutType
    <3>3. \A n : LET t == Put(d, n)
                 IN  /\ t.mem = d.mem /\ t.pool = d.pool
                     /\ t.extending = d.extending /\ t.put = d.put + n
                     /\ t.base = d.base /\ t.transcript = d.transcript
                     /\ t.drawn = d.drawn /\ t.todo = d.todo
      BY <3>1, Unchanged
    <3> QED
      BY <3>2, <3>3
  <2> HIDE DEF w
  <2>4. w.put \in Nat /\ v.put <= w.put
    BY <1>2, <1>7, <2>2, <2>3
  <2> QED
    BY <1>1, <1>3, <1>7, <2>1, <2>2, <2>3, <2>4, SilentProgress DEF a, op
<1> QED
  BY <1>5, <1>6, <1>8, <1>9, <1>10


LEMMA ChainAtType ==
  ASSUME run \in Runs, NEW v, Good(v), Current(v).op = "chain"
  PROVE  ChainAt(v) \in Nat
<1>1. Current(v) \in Operation
  BY GoodProperties, CurrentType
<1>2. Current(v).times \in 1 .. Len(run.chains)
  BY <1>1 DEF Operation
<1>3. run.chains \in Seq(Nat) /\ Len(run.chains) \in Nat
  BY RunProperties
<1>4. Len(run.chains) + 1 - Current(v).times \in 1 .. Len(run.chains)
  BY <1>2, <1>3
<1> QED
  BY <1>3, <1>4 DEF ChainAt

LEMMA MessageCallsProgress ==
  ASSUME run \in Runs, NEW v, Good(v),
         Current(v).op \in {"chain", "fetch", "order"}
  PROVE  Progress(v, Onward(v))
<1>1. /\ Current(v).op \in Inner \ MaskedOps
      /\ Kind(v) \in {"length", "bit"} /\ Kind(v) \notin {"none", "extend"}
  BY KindCases DEF Inner, MaskedOps
<1>2. /\ v \in States /\ v.todo # <<>> /\ v.mem # 0 /\ ~ v.extending
      /\ v.drawn \in Seq(Nat) /\ v.transcript \in Nat /\ v.base <= v.put
  BY <1>1, GoodProperties DEF Good, States, Inner
<1>3. PICK ops \in Seq(Calls) : Onward(v) = Count(Advance(v, ops))
  <2>1. CASE Current(v).op = "chain"
    <3>1. ChainAt(v) \in Nat
      BY <2>1, ChainAtType
    <3>2. ChainBody(v, ChainAt(v)) \in Seq(Calls) /\ <<>> \in Seq(Calls)
      BY <1>2, <3>1, ChainBodyType
    <3> QED
      BY <2>1, <3>2, OnwardChain
  <2>2. CASE Current(v).op = "fetch"
    BY <1>2, <2>2, OnwardCases, CallBodyTypes
  <2>3. CASE Current(v).op = "order"
    BY <1>2, <2>3, OnwardCases, CallBodyTypes
  <2> QED
    BY <2>1, <2>2, <2>3
<1> DEFINE a == Advance(v, ops)
           w == Count(a)
<1>4. a \in States /\ a.todo = Advance(v, ops).todo
  BY <1>2, AdvanceCall
<1>5. /\ a.mem = v.mem /\ a.pool = v.pool
      /\ a.extending = v.extending /\ a.base = v.base /\ a.put = v.put
      /\ a.transcript = v.transcript /\ a.drawn = v.drawn
  BY <1>2, Unchanged
<1>6. Onward(v) = w
  BY <1>3
<1> HIDE DEF a
<1>7. w \in States
  BY <1>4, CountType
<1>8. /\ w.todo = a.todo /\ w.mem = v.mem /\ w.pool = v.pool
      /\ w.extending = v.extending /\ w.base = v.base /\ w.put = v.put
      /\ w.transcript = v.transcript + 1 /\ w.drawn = v.drawn
  BY <1>4, <1>5, Unchanged
<1> HIDE DEF w
<1>9. Extends(v.drawn, w.drawn)
  BY <1>2, <1>8, ExtendsProperties
<1>10. Current(v).op \notin {"report", "set", "check"}
  OBVIOUS
<1>11. Progress(v, w)
  BY <1>1, <1>2, <1>4, <1>7, <1>8, <1>9, <1>10, ProgressOfCall
<1> QED
  BY <1>6, <1>11

LEMMA CompareProgress ==
  ASSUME run \in Runs, NEW v, Good(v), Current(v).op = "compare"
  PROVE  Progress(v, Onward(v))
<1>1. Current(v).op \in Inner \ MaskedOps /\ Kind(v) = "digest"
  BY KindCases DEF Inner, MaskedOps
<1>2. /\ v \in States /\ v.todo # <<>> /\ v.mem # 0 /\ ~ v.extending
      /\ v.drawn \in Seq(Nat) /\ v.transcript \in Nat /\ v.put \in Nat
  BY <1>1, GoodProperties DEF Good, States, Inner
<1> DEFINE base == v.put + 1
           a == Advance(v, <<>>)
           b == Put(a, 1)
           c == [b EXCEPT !.base = base]
           w == Count(c)
<1>3. <<>> \in Seq(Calls) /\ a \in States /\ a.todo = Advance(v, <<>>).todo
  <2>1. <<>> \in Seq(Calls)
    OBVIOUS
  <2> QED
    BY <1>2, <2>1, AdvanceCall
<1>4. /\ a.mem = v.mem /\ a.pool = v.pool
      /\ a.extending = v.extending /\ a.put = v.put
      /\ a.transcript = v.transcript /\ a.drawn = v.drawn
  BY <1>2, Unchanged
<1>5. Onward(v) = w
  BY OnwardCompare
<1>6. base \in Nat
  BY <1>2
<1> HIDE DEF a
<1>7. /\ b \in States /\ b.todo = a.todo /\ b.mem = v.mem /\ b.pool = v.pool
      /\ b.extending = v.extending /\ b.put = v.put + 1
      /\ b.transcript = v.transcript /\ b.drawn = v.drawn
  BY <1>3, <1>4, PutType, Unchanged
<1> HIDE DEF b, base
<1>8. /\ c \in States /\ c.todo = a.todo /\ c.mem = v.mem /\ c.pool = v.pool
      /\ c.extending = v.extending /\ c.put = v.put + 1 /\ c.base = base
      /\ c.transcript = v.transcript /\ c.drawn = v.drawn
  BY <1>6, <1>7 DEF States
<1> HIDE DEF c
<1>9. /\ w \in States /\ w.todo = a.todo /\ w.mem = v.mem /\ w.pool = v.pool
      /\ w.extending = v.extending /\ w.put = v.put + 1 /\ w.base = base
      /\ w.transcript = v.transcript + 1 /\ w.drawn = v.drawn
  BY <1>8, CountType, Unchanged
<1> HIDE DEF w
<1>10. Extends(v.drawn, w.drawn) /\ w.base <= w.put
  BY <1>2, <1>9, ExtendsProperties DEF base
<1>11. Current(v).op \notin {"report", "set", "check"}
  OBVIOUS
<1>12. Progress(v, w)
  BY <1>1, <1>2, <1>3, <1>9, <1>10, <1>11, ProgressOfCall
<1> QED
  BY <1>5, <1>12

LEMMA SetProgress ==
  ASSUME run \in Runs, NEW v, Good(v), Current(v).op = "set"
  PROVE  Progress(v, Onward(v))
<1>1. Current(v).op \in Inner \ MaskedOps /\ Kind(v) = "macs"
  BY KindCases DEF Inner, MaskedOps
<1>2. /\ v \in States /\ v.todo # <<>> /\ v.mem # 0 /\ ~ v.extending
      /\ v.drawn \in Seq(Nat) /\ v.transcript \in Nat /\ v.mem \in Nat
      /\ v.base <= v.put
  BY <1>1, GoodProperties DEF Good, States, Inner
<1> DEFINE drawn == Draw(v).drawn
           logged == v.mem
           a == Advance(v, <<>>)
           c == [a EXCEPT !.drawn = drawn, !.logged = logged, !.reads = 0]
           w == Count(c)
<1>3. <<>> \in Seq(Calls) /\ a \in States /\ a.todo = Advance(v, <<>>).todo
  <2>1. <<>> \in Seq(Calls)
    OBVIOUS
  <2> QED
    BY <1>2, <2>1, AdvanceCall
<1>4. /\ a.mem = v.mem /\ a.pool = v.pool /\ a.base = v.base
      /\ a.extending = v.extending /\ a.put = v.put
      /\ a.transcript = v.transcript
  BY <1>2, Unchanged
<1>5. Onward(v) = w
  BY OnwardSet
<1>6. drawn = Append(v.drawn, v.transcript) /\ logged \in Nat
  BY <1>2, Unchanged
<1>7. drawn \in Seq(Nat) /\ Extends(v.drawn, drawn)
  BY <1>2, <1>6, ExtendsProperties
<1> HIDE DEF a, drawn, logged
<1>8. /\ c \in States /\ c.todo = a.todo /\ c.mem = v.mem /\ c.pool = v.pool
      /\ c.extending = v.extending /\ c.put = v.put /\ c.base = v.base
      /\ c.transcript = v.transcript /\ c.drawn = drawn
  BY <1>3, <1>4, <1>6, <1>7 DEF States
<1> HIDE DEF c
<1>9. /\ w \in States /\ w.todo = a.todo /\ w.mem = v.mem /\ w.pool = v.pool
      /\ w.extending = v.extending /\ w.put = v.put /\ w.base = v.base
      /\ w.transcript = v.transcript + 1 /\ w.drawn = drawn
  BY <1>8, CountType, Unchanged
<1> HIDE DEF w
<1>10. Current(v).op \notin {"report", "check"}
  OBVIOUS
<1>11. Extends(v.drawn, w.drawn) /\ w.base <= w.put
  BY <1>2, <1>7, <1>9
<1>12. Progress(v, w)
  BY <1>1, <1>2, <1>3, <1>9, <1>10, <1>11, ProgressOfCall
<1> QED
  BY <1>5, <1>12

LEMMA LogProgress ==
  ASSUME run \in Runs, NEW v, Good(v), Current(v).op = "log"
  PROVE  Progress(v, Onward(v))
<1>1. Current(v).op \in Inner \ MaskedOps /\ Kind(v) = "none"
  BY KindCases DEF Inner, MaskedOps
<1>2. /\ v \in States /\ v.todo # <<>> /\ v.put \in Nat
      /\ v.drawn \in Seq(Nat) /\ v.reads \in Nat /\ v.logged \in Nat
  BY <1>1, GoodProperties DEF Good, States, Inner
<1> DEFINE ops == IF CheckDue(v) THEN Ops("check", 1) ELSE <<>>
           reads == v.reads + 1
           logged == v.logged + 1
           a == Advance(v, ops)
           w == [a EXCEPT !.reads = reads, !.logged = logged]
<1>3. ops \in Seq(Calls) /\ a \in States /\ a.todo = Advance(v, ops).todo
  <2>1. Ops("check", 1) \in Seq(Calls) /\ <<>> \in Seq(Calls)
    BY <1>2, CallBodyTypes
  <2>2. ops \in Seq(Calls)
    BY <2>1
  <2> HIDE DEF ops
  <2> QED
    BY <1>2, <2>2, AdvanceCall
<1>4. /\ a.mem = v.mem /\ a.pool = v.pool /\ a.base = v.base
      /\ a.extending = v.extending /\ a.put = v.put /\ a.drawn = v.drawn
      /\ a.transcript = v.transcript
  BY <1>2, Unchanged
<1>5. Onward(v) = w
  BY OnwardLog
<1>6. reads \in Nat /\ logged \in Nat
  BY <1>2
<1> HIDE DEF a, ops, reads, logged
<1>7. /\ w \in States /\ w.todo = a.todo /\ w.mem = v.mem /\ w.pool = v.pool
      /\ w.extending = v.extending /\ w.put = v.put /\ w.base = v.base
      /\ w.transcript = v.transcript /\ w.drawn = v.drawn
  BY <1>3, <1>4, <1>6 DEF States
<1> HIDE DEF w
<1>8. Extends(v.drawn, w.drawn) /\ w.put \in Nat /\ v.put <= w.put
  BY <1>2, <1>7, ExtendsProperties
<1>9. Current(v).op # "check"
  OBVIOUS
<1>10. Progress(v, w)
  BY <1>1, <1>3, <1>7, <1>8, <1>9, SilentProgress
<1> QED
  BY <1>5, <1>10

(* A position that is not the last has a next one.                         *)
LEMMA OnwardProgress ==
  ASSUME run \in Runs, NEW v, Good(v), Current(v).op # "report"
  PROVE  Progress(v, Onward(v))
<1>1. Current(v).op \in OpNames
  BY GoodProperties
<1>2. CASE Current(v).op \in MaskedOps
  BY <1>2, MaskedProgress
<1>3. CASE Current(v).op \in {"clause", "resolve", "get", "xres", "check",
                              "verdict", "sat", "hash", "equal", "challenge",
                              "witness"}
  BY <1>3, SilentCallsProgress
<1>4. CASE Current(v).op \in {"chain", "fetch", "order"}
  BY <1>4, MessageCallsProgress
<1>5. Current(v).op \in {"word", "header", "compare", "set", "log"} =>
        Progress(v, Onward(v))
  BY WordProgress, HeaderProgress, CompareProgress, SetProgress, LogProgress
<1> QED
  BY <1>1, <1>2, <1>3, <1>4, <1>5 DEF OpNames, Inner, MaskedOps

-----------------------------------------------------------------------------
(* The verifier's messages are its halves of the refills.                  *)
Replies == \A m \in DOMAIN chan[BOB] : chan[BOB][m].kind = "extend"

(* No false block is among those the verifier has compared.                *)
BlocksTrue == run.false_block \notin 1 .. st[BOB].base

(* A running party p is at position v.                                     *)
Ready(p, v) ==
  /\ Types /\ Replies
  /\ p \in Parties
  /\ st[p].base <= st[p].put
  /\ st[p].out = "running"
  /\ Good(v) /\ Alike(st[p], v)
  /\ p = BOB /\ Kind(v) = "length" /\ chan[ALICE] # <<>> =>
       Head(chan[ALICE]).value = ChainAt(v)

(* A party that ends keeps its operations, or has done the current one.    *)
Leaves(p, s) ==
  s.out # "running" =>
    s.mem = st[p].mem /\ s.todo \in {st[p].todo, Advance(st[p], <<>>).todo}

(* What every step of p leaves alone and keeps.                            *)
Frame(p) ==
  /\ run' = run
  /\ st' \in [Parties -> States] /\ st'[Peer(p)] = st[Peer(p)]
  /\ chan' \in [Parties -> Seq(Messages)]
  /\ Replies'
  /\ Leaves(p, st'[p])
  /\ st'[p].base <= st'[p].put
  /\ p = BOB /\ BlocksTrue => BlocksTrue'

(* What happens to the correlations in a step of p: a masked value takes   *)
(* one, nothing else does.                                                 *)
Correlations(p) ==
  LET s == st[p]
      t == st'[p]
  IN  \/ /\ chan'[ALICE] = chan[ALICE]
         /\ Taken(t) = Taken(s) /\ t.garbled = s.garbled
      \/ /\ p = ALICE
         /\ \E m \in Messages :
              /\ chan'[ALICE] = Append(chan[ALICE], m)
              /\ IF m.kind \in MaskedOps
                 THEN m.value = Correlation(s) /\ Taken(t) = Taken(s) + 1
                 ELSE Taken(t) = Taken(s)
      \/ /\ p = BOB
         /\ chan[ALICE] # <<>> /\ chan'[ALICE] = Tail(chan[ALICE])
         /\ LET m == Head(chan[ALICE])
            IN  IF m.kind \in MaskedOps
                THEN /\ Taken(t) = Taken(s) + 1 /\ ~ Exhausted(s)
                     /\ t.garbled => s.garbled \/ m.value # Correlation(s)
                ELSE Taken(t) = Taken(s) /\ t.garbled = s.garbled

(* What passes on the prover's channel in a step of p from position v.     *)
Passes(p, v) ==
  IF p = ALICE /\ Sends(v)
  THEN \E m \in Messages :
         /\ m.kind = Kind(v)
         /\ m.kind = "length" => m.value = ChainAt(v)
         /\ chan'[ALICE] = Append(chan[ALICE], m)
  ELSE IF p = BOB /\ Receives(v)
  THEN chan[ALICE] # <<>> /\ chan'[ALICE] = Tail(chan[ALICE])
  ELSE chan'[ALICE] = chan[ALICE]

(* The party ends where it is, or goes to the next position; there it may  *)
(* end, too.                                                               *)
Stopped(p, v) ==
  /\ chan'[ALICE] = chan[ALICE]
  /\ st'[p].drawn = st[p].drawn
  /\ st'[p].out # "running"
  /\ st'[p].out = "ended" <=> Current(v).op = "report"

Moved(p, v) ==
  /\ Current(v).op # "report"
  /\ st'[p].drawn = Onward(v).drawn
  /\ IF st'[p].out = "running" THEN Alike(st'[p], Onward(v))
     ELSE st'[p].out # "ended" /\ (p = ALICE => Current(v).op # "set")
  /\ Passes(p, v)

Outcome(p, v) ==
  /\ Frame(p)
  /\ Correlations(p)
  /\ Stopped(p, v) \/ Moved(p, v)

LEMMA ReadyProperties ==
  ASSUME NEW p, NEW v, Ready(p, v)
  PROVE  /\ run \in Runs /\ p \in {ALICE, BOB} /\ p \in Parties
         /\ st[p] \in States /\ st[p].out = "running"
         /\ chan[ALICE] \in Seq(Messages) /\ chan[BOB] \in Seq(Messages)
         /\ v \in States /\ v.todo # <<>> /\ st[p].todo # <<>>
         /\ Current(st[p]) = Current(v) /\ Kind(st[p]) = Kind(v)
         /\ Exhausted(st[p]) = Exhausted(v)
         /\ st[p].extending = v.extending
         /\ st[p].drawn = v.drawn /\ st[p].put = v.put
         /\ Current(v).op \notin {"word", "header"} =>
              /\ v.mem # 0 /\ st[p].degree = v.degree
<1>1. /\ run \in Runs /\ p \in {ALICE, BOB} /\ p \in Parties
      /\ st[p] \in States /\ st[p].out = "running"
      /\ chan[ALICE] \in Seq(Messages) /\ chan[BOB] \in Seq(Messages)
      /\ Good(v) /\ Alike(st[p], v)
  BY PartiesProperties DEF Ready, Types
<1>2. v \in States /\ v.todo # <<>>
  BY <1>1, GoodProperties
<1>3. Current(v).op \notin {"word", "header"} => v.mem # 0
  BY <1>1, GoodProperties
<1>4. /\ st[p].todo = v.todo /\ st[p].pointer = v.pointer
      /\ st[p].extending = v.extending /\ st[p].drawn = v.drawn
      /\ st[p].put = v.put /\ st[p].mem = v.mem
      /\ st[p].mem # 0 => st[p].degree = v.degree
  BY <1>1 DEF Alike
<1>5. /\ Current(st[p]) = Current(v)
      /\ Exhausted(st[p]) = Exhausted(v)
  BY <1>4 DEF Current, Exhausted
<1>6. Kind(st[p]) = Kind(v)
  BY <1>5 DEF Kind
<1> QED
  BY <1>1, <1>2, <1>3, <1>4, <1>5, <1>6

LEMMA LocalStopped ==
  ASSUME NEW p, NEW v, Ready(p, v), NEW how \in Outs, how # "running",
         how = "ended" <=> Current(v).op = "report",
         Local(p, Fail(st[p], how))
  PROVE  Outcome(p, v)
<1> DEFINE t == Fail(st[p], how)
<1>1. /\ t \in States /\ t.out = how /\ t.drawn = st[p].drawn
      /\ t.base = st[p].base /\ t.put = st[p].put
      /\ t.pool = st[p].pool /\ t.pointer = st[p].pointer
      /\ t.garbled = st[p].garbled
      /\ t.todo = st[p].todo /\ t.mem = st[p].mem
  BY ReadyProperties DEF Fail, States
<1>2. st' = [st EXCEPT ![p] = t] /\ run' = run /\ chan' = chan
  BY DEF Local
<1> HIDE DEF t
<1>3. /\ p \in Parties /\ st \in [Parties -> States]
      /\ chan \in [Parties -> Seq(Messages)] /\ Replies
      /\ p \in {ALICE, BOB} /\ st[p].base <= st[p].put
  BY ReadyProperties DEF Ready, Types
<1>4. /\ st' \in [Parties -> States] /\ st'[p] = t
      /\ st'[Peer(p)] = st[Peer(p)]
  BY <1>1, <1>2, <1>3, PartiesProperties
<1>5. Frame(p)
  <2>1. Replies'
    BY <1>2, <1>3 DEF Replies
  <2>2. p = BOB /\ BlocksTrue => BlocksTrue'
    BY <1>1, <1>2, <1>4 DEF BlocksTrue
  <2>3. Leaves(p, st'[p])
    BY <1>1, <1>4 DEF Leaves
  <2> QED
    BY <1>1, <1>2, <1>3, <1>4, <2>1, <2>2, <2>3 DEF Frame
<1>6. Taken(t) = Taken(st[p])
  BY <1>1 DEF Taken, Correlation
<1>7. Correlations(p)
  BY <1>1, <1>2, <1>4, <1>6 DEF Correlations
<1>8. Stopped(p, v)
  BY <1>1, <1>2, <1>4 DEF Stopped
<1> QED
  BY <1>5, <1>7, <1>8 DEF Outcome

(* A step without a message.                                               *)
LEMMA LocalMoved ==
  ASSUME NEW p, NEW v, Ready(p, v), NEW t \in States, Local(p, t),
         Kind(v) = "none", Current(v).op # "report",
         Alike(t, Onward(v)), t.out = "running",
         t.base = st[p].base, t.put \in Nat, st[p].put <= t.put,
         t.pool = st[p].pool, t.pointer = st[p].pointer,
         t.garbled = st[p].garbled
  PROVE  Outcome(p, v)
<1>1. st' = [st EXCEPT ![p] = t] /\ run' = run /\ chan' = chan
  BY DEF Local
<1>2. /\ p \in Parties /\ st \in [Parties -> States]
      /\ chan \in [Parties -> Seq(Messages)] /\ Replies
      /\ p \in {ALICE, BOB} /\ st[p].base <= st[p].put
  BY ReadyProperties DEF Ready, Types
<1>3. /\ st' \in [Parties -> States] /\ st'[p] = t
      /\ st'[Peer(p)] = st[Peer(p)]
  BY <1>1, <1>2, PartiesProperties
<1>4. t.base <= t.put
  <2>1. st[p].base \in Nat /\ st[p].put \in Nat
    BY ReadyProperties DEF States
  <2> QED
    BY <1>2, <2>1
<1>5. Frame(p)
  <2>1. Replies'
    BY <1>1, <1>2 DEF Replies
  <2>2. p = BOB /\ BlocksTrue => BlocksTrue'
    BY <1>1, <1>3 DEF BlocksTrue
  <2>3. Leaves(p, st'[p])
    BY <1>3 DEF Leaves
  <2> QED
    BY <1>1, <1>2, <1>3, <1>4, <2>1, <2>2, <2>3 DEF Frame
<1>6. Taken(t) = Taken(st[p])
  BY DEF Taken, Correlation
<1>7. Correlations(p)
  BY <1>1, <1>3, <1>6 DEF Correlations
<1>8. ~ Sends(v) /\ ~ Receives(v)
  <2>1. v.extending => Kind(v) = "extend"
    BY KindCases DEF Ready, Good
  <2> QED
    BY <2>1 DEF Sends, Receives
<1>9. t.drawn = Onward(v).drawn
  BY DEF Alike
<1>10. Moved(p, v)
  BY <1>1, <1>3, <1>8, <1>9 DEF Moved, Passes
<1> QED
  BY <1>5, <1>7, <1>10 DEF Outcome

(* A step with a message from the prover to the verifier.                  *)
LEMMA TransferFrame ==
  ASSUME NEW p, NEW v, Ready(p, v), NEW kind, NEW value, NEW s \in States,
         kind = Kind(v), kind \notin {"none", "extend"},
         Transfer(p, kind, value, s),
         p = ALICE => /\ Message(kind, value) \in Messages
                      /\ kind = "length" => value = ChainAt(v),
         s.base <= s.put, Leaves(p, s),
         p = BOB /\ BlocksTrue => run.false_block \notin 1 .. s.base
  PROVE  /\ Frame(p) /\ Passes(p, v) /\ st'[p] = Count(s)
         /\ p = ALICE =>
              chan'[ALICE] = Append(chan[ALICE], Message(kind, value))
         /\ p = BOB => /\ chan[ALICE] # <<>>
                       /\ chan'[ALICE] = Tail(chan[ALICE])
                       /\ Head(chan[ALICE]).kind = kind
<1> DEFINE t == Count(s)
           m == Message(kind, value)
<1>1. /\ t \in States /\ t.base = s.base /\ t.put = s.put
      /\ t.out = s.out /\ t.todo = s.todo /\ t.mem = s.mem
  BY CountType, Unchanged
<1>2. /\ p \in Parties /\ st \in [Parties -> States]
      /\ chan \in [Parties -> Seq(Messages)] /\ Replies
      /\ p \in {ALICE, BOB} /\ ALICE # BOB /\ Parties = {ALICE, BOB}
  BY ReadyProperties, PartiesProperties DEF Ready, Types
<1>3. st' = [st EXCEPT ![p] = t] /\ run' = run
  BY DEF Transfer
<1>4. p = ALICE => chan' = [chan EXCEPT ![ALICE] = Append(@, m)]
  BY DEF Transfer
<1>5. p = BOB => /\ chan[ALICE] # <<>> /\ Head(chan[ALICE]).kind = kind
                 /\ chan' = [chan EXCEPT ![ALICE] = Tail(@)]
  BY <1>2 DEF Transfer
<1>6. m.kind = kind /\ m.value = value
  BY DEF Message
<1> HIDE DEF t, m
<1>7. /\ st' \in [Parties -> States] /\ st'[p] = t
      /\ st'[Peer(p)] = st[Peer(p)]
  BY <1>1, <1>2, <1>3, PartiesProperties
<1>8. /\ chan' \in [Parties -> Seq(Messages)]
      /\ chan'[BOB] = chan[BOB]
      /\ p = ALICE => chan'[ALICE] = Append(chan[ALICE], m)
      /\ p = BOB => chan'[ALICE] = Tail(chan[ALICE])
  <2>1. CASE p = ALICE
    <3>1. Append(chan[ALICE], m) \in Seq(Messages)
      BY <2>1, <1>2 DEF m
    <3> QED
      BY <2>1, <3>1, <1>2, <1>4
  <2>2. CASE p = BOB
    <3>1. Tail(chan[ALICE]) \in Seq(Messages)
      BY <2>2, <1>2, <1>5
    <3> QED
      BY <2>2, <3>1, <1>2, <1>5
  <2> QED
    BY <1>2, <2>1, <2>2
<1>9. Frame(p)
  <2>1. Replies'
    BY <1>2, <1>8 DEF Replies
  <2>2. p = BOB /\ BlocksTrue => BlocksTrue'
    BY <1>1, <1>3, <1>7 DEF BlocksTrue
  <2>3. Leaves(p, st'[p])
    BY <1>1, <1>7 DEF Leaves
  <2> QED
    BY <1>1, <1>3, <1>7, <1>8, <2>1, <2>2, <2>3 DEF Frame
<1>10. Sends(v) /\ Receives(v)
  <2>1. v.extending => Kind(v) = "extend"
    BY KindCases DEF Ready, Good
  <2> QED
    BY <2>1 DEF Sends, Receives
<1>11. Passes(p, v)
  <2>1. CASE p = ALICE
    <3>1. m \in Messages /\ (m.kind = "length" => m.value = ChainAt(v))
      BY <2>1, <1>6 DEF m
    <3> QED
      BY <2>1, <3>1, <1>6, <1>8, <1>10 DEF Passes
  <2>2. CASE p = BOB
    BY <2>2, <1>2, <1>5, <1>8, <1>10 DEF Passes
  <2> QED
    BY <1>2, <2>1, <2>2
<1> QED
  BY <1>5, <1>7, <1>8, <1>9, <1>11 DEF t, m

LEMMA TransferMoved ==
  ASSUME NEW p, NEW v, Ready(p, v), NEW kind, NEW value, NEW s \in States,
         kind = Kind(v), kind \notin {"none", "extend"} \cup MaskedOps,
         Transfer(p, kind, value, s), Current(v).op # "report",
         p = ALICE => /\ Message(kind, value) \in Messages
                      /\ kind = "length" => value = ChainAt(v),
         s.base <= s.put, Leaves(p, s),
         p = BOB /\ BlocksTrue => run.false_block \notin 1 .. s.base,
         s.drawn = Onward(v).drawn,
         IF s.out = "running" THEN Alike(Count(s), Onward(v))
         ELSE s.out # "ended" /\ (p = ALICE => Current(v).op # "set"),
         s.pool = st[p].pool, s.pointer = st[p].pointer,
         s.garbled = st[p].garbled
  PROVE  Outcome(p, v)
<1>1. /\ Frame(p) /\ Passes(p, v) /\ st'[p] = Count(s)
      /\ p = ALICE =>
           chan'[ALICE] = Append(chan[ALICE], Message(kind, value))
      /\ p = BOB => /\ chan[ALICE] # <<>>
                    /\ chan'[ALICE] = Tail(chan[ALICE])
                    /\ Head(chan[ALICE]).kind = kind
  BY TransferFrame
<1> DEFINE t == Count(s)
<1>2. /\ t.out = s.out /\ t.drawn = s.drawn /\ t.pool = s.pool
      /\ t.pointer = s.pointer /\ t.garbled = s.garbled
  <2>1. t.garbled = s.garbled
    BY DEF Count, States
  <2> QED
    BY <2>1, Unchanged
<1>3. Moved(p, v)
  BY <1>1, <1>2 DEF Moved
<1>4. Taken(t) = Taken(st[p])
  BY <1>2 DEF Taken, Correlation
<1>5. p \in {ALICE, BOB} /\ ALICE # BOB
  BY ReadyProperties, PartiesProperties
<1>6. Correlations(p)
  <2> DEFINE m == Message(kind, value)
  <2>1. m.kind = kind
    BY DEF Message
  <2> HIDE DEF t, m
  <2>2. st'[p] = t
    BY <1>1 DEF t
  <2>3. CASE p = ALICE
    <3>1. /\ m \in Messages /\ chan'[ALICE] = Append(chan[ALICE], m)
          /\ m.kind \notin MaskedOps
      BY <2>1, <2>3, <1>1 DEF m
    <3> QED
      BY <2>2, <2>3, <3>1, <1>4 DEF Correlations
  <2>4. CASE p = BOB
    BY <2>2, <2>4, <1>1, <1>2, <1>4 DEF Correlations
  <2> QED
    BY <1>5, <2>3, <2>4
<1> QED
  BY <1>1, <1>3, <1>6 DEF Outcome

-----------------------------------------------------------------------------
(* The steps without a message.                                            *)
LEMMA CallOutcome ==
  ASSUME NEW p, NEW v, Ready(p, v), NEW ops \in Seq(Calls),
         Local(p, Advance(st[p], ops)),
         Kind(v) = "none", Current(v).op # "report",
         Onward(v) = Advance(v, ops)
  PROVE  Outcome(p, v)
<1> DEFINE t == Advance(st[p], ops)
<1>1. /\ st[p] \in States /\ v \in States /\ st[p].todo # <<>>
      /\ st[p].out = "running" /\ Alike(st[p], v)
  BY ReadyProperties DEF Ready
<1>2. t \in States /\ Alike(t, Onward(v))
  BY <1>1, AdvanceCall, AlikeAdvance
<1>3. /\ t.out = "running" /\ t.base = st[p].base /\ t.put = st[p].put
      /\ t.pool = st[p].pool /\ t.pointer = st[p].pointer
      /\ t.garbled = st[p].garbled
  BY <1>1 DEF Advance, States
<1>4. t.put \in Nat /\ st[p].put <= t.put
  <2>1. st[p].put \in Nat
    BY <1>1 DEF States
  <2> QED
    BY <2>1, <1>3
<1> HIDE DEF t
<1>5. Local(p, t)
  BY DEF t
<1> QED
  BY <1>2, <1>3, <1>4, <1>5, LocalMoved

LEMMA CallSteps ==
  ASSUME NEW p, NEW v, Ready(p, v),
         \/ Clause(p) \/ Get(p) \/ Resolve(p) \/ Xres(p) \/ Witness(p)
         \/ Check(p)
  PROVE  Outcome(p, v)
<1>1. /\ st[p] \in States /\ v \in States /\ st[p].out = "running"
      /\ Current(st[p]) = Current(v) /\ Alike(st[p], v)
      /\ Current(v).op \notin {"word", "header"} =>
           v.mem # 0 /\ st[p].degree = v.degree
  BY ReadyProperties DEF Ready
<1>2. /\ Ops("coef", v.degree) \in Seq(Calls)
      /\ Ops("coef", v.degree) \o Ops("log", 1) \in Seq(Calls)
      /\ XresBody(v) \in Seq(Calls) /\ CheckBody(v) \in Seq(Calls)
  BY <1>1, CallBodyTypes
<1>3. CASE Clause(p) \/ Resolve(p) \/ Witness(p)
  <2>1. Current(v).op \in {"clause", "resolve", "witness"}
    BY <1>1, <1>3 DEF Clause, Resolve, Witness, Doing
  <2>2. Local(p, Advance(st[p], Ops("coef", v.degree)))
    BY <1>1, <1>3, <2>1 DEF Clause, Resolve, Witness
  <2> QED
    BY <2>1, <2>2, <1>2, CallOutcome, OnwardCases, KindCases
<1>4. CASE Get(p)
  <2>1. Current(v).op = "get"
    BY <1>1, <1>4 DEF Get, Doing
  <2>2. Local(p, Advance(st[p], Ops("coef", v.degree) \o Ops("log", 1)))
    BY <1>1, <1>4, <2>1 DEF Get
  <2> QED
    BY <2>1, <2>2, <1>2, CallOutcome, OnwardCases, KindCases
<1>5. CASE Xres(p)
  <2>1. Current(v).op = "xres"
    BY <1>1, <1>5 DEF Xres, Doing
  <2>2. XresBody(st[p]) = XresBody(v)
    BY <1>1, <2>1 DEF XresBody
  <2>3. Local(p, Advance(st[p], XresBody(v)))
    BY <1>5, <2>2 DEF Xres
  <2> QED
    BY <2>1, <2>3, <1>2, CallOutcome, OnwardCases, KindCases
<1>6. CASE Check(p)
  <2>1. Current(v).op = "check"
    BY <1>1, <1>6 DEF Check, Doing
  <2>2. CheckBody(st[p]) = CheckBody(v)
    <3>1. st[p].logged = v.logged
      BY <1>1 DEF Alike
    <3> QED
      BY <3>1, <1>1, <2>1 DEF CheckBody
  <2>3. Local(p, Advance(st[p], CheckBody(v)))
    BY <1>6, <2>2 DEF Check
  <2> QED
    BY <2>1, <2>3, <1>2, CallOutcome, OnwardCases, KindCases
<1> QED
  BY <1>3, <1>4, <1>5, <1>6

LEMMA VerdictStep ==
  ASSUME NEW p, NEW v, Ready(p, v), Verdict(p)
  PROVE  Outcome(p, v)
<1>1. Current(v).op = "verdict"
  BY ReadyProperties DEF Verdict, Doing
<1>2. CASE st[p].cheat
  <2>1. Local(p, Fail(st[p], "error"))
    BY <1>2 DEF Verdict
  <2> QED
    BY <1>1, <2>1, LocalStopped DEF Outs
<1>3. CASE ~ st[p].cheat
  <2>1. Local(p, Advance(st[p], <<>>))
    BY <1>3 DEF Verdict
  <2>2. <<>> \in Seq(Calls)
    OBVIOUS
  <2> QED
    BY <1>1, <2>1, <2>2, CallOutcome, OnwardCases, KindCases
<1> QED
  BY <1>2, <1>3

LEMMA ReportStep ==
  ASSUME NEW p, NEW v, Ready(p, v), Report(p)
  PROVE  Outcome(p, v)
<1>1. Current(v).op = "report" /\ Local(p, Fail(st[p], "ended"))
  BY ReadyProperties DEF Report, Doing
<1> QED
  BY <1>1, LocalStopped DEF Outs

LEMMA BlockSteps ==
  ASSUME NEW p, NEW v, Ready(p, v), CheckSAT(p) \/ Hash(p)
  PROVE  Outcome(p, v)
<1> DEFINE k == IF Current(v).op = "sat" THEN 1 ELSE 2
           a == Advance(st[p], <<>>)
           b == Advance(v, <<>>)
           t == Put(a, k)
<1>1. /\ st[p] \in States /\ v \in States /\ st[p].out = "running"
      /\ Current(st[p]) = Current(v) /\ Alike(st[p], v)
      /\ st[p].todo # <<>> /\ v.todo # <<>>
  BY ReadyProperties DEF Ready
<1>2. /\ Current(v).op \in {"sat", "hash"} /\ Local(p, t)
      /\ Onward(v) = Put(b, k)
  BY <1>1, OnwardCases DEF CheckSAT, Hash, Doing
<1>3. a \in States /\ b \in States /\ Alike(a, b) /\ <<>> \in Seq(Calls)
  <2>1. <<>> \in Seq(Calls)
    OBVIOUS
  <2> QED
    BY <1>1, <2>1, AdvanceCall, AlikeAdvance
<1>4. /\ a.out = "running" /\ a.base = st[p].base /\ a.put = st[p].put
      /\ a.pool = st[p].pool /\ a.pointer = st[p].pointer
      /\ a.garbled = st[p].garbled
  BY <1>1 DEF Advance, States
<1>5. k \in Nat /\ st[p].put \in Nat
  BY <1>1 DEF States
<1> HIDE DEF a, b, k
<1>6. t \in States /\ Alike(t, Onward(v))
  BY <1>2, <1>3, <1>5, PutType, AlikePut
<1>7. /\ t.out = "running" /\ t.base = st[p].base /\ t.put = st[p].put + k
      /\ t.pool = st[p].pool /\ t.pointer = st[p].pointer
      /\ t.garbled = st[p].garbled
  BY <1>3, <1>4 DEF Put, States
<1> HIDE DEF t
<1>8. t.put \in Nat /\ st[p].put <= t.put
  BY <1>5, <1>7
<1>9. Kind(v) = "none" /\ Current(v).op # "report"
  BY <1>2, KindCases
<1> QED
  BY <1>2, <1>6, <1>7, <1>8, <1>9, LocalMoved

LEMMA DrawSteps ==
  ASSUME NEW p, NEW v, Ready(p, v), Challenge(p) \/ Equal(p)
  PROVE  Outcome(p, v)
<1> DEFINE a == Advance(st[p], <<>>)
           b == Advance(v, <<>>)
           d == Draw(a)
           e == Draw(b)
           t == Put(d, 1)
<1>1. /\ st[p] \in States /\ v \in States /\ st[p].out = "running"
      /\ Current(st[p]) = Current(v) /\ Alike(st[p], v)
      /\ st[p].todo # <<>> /\ v.todo # <<>> /\ st[p].put \in Nat
  BY ReadyProperties DEF Ready, States
<1>2. \/ /\ Current(v).op = "challenge" /\ Local(p, d)
         /\ Onward(v) = e
      \/ /\ Current(v).op = "equal" /\ Local(p, t)
         /\ Onward(v) = Put(e, 1)
  BY <1>1, OnwardCases DEF Challenge, Equal, Doing
<1>3. a \in States /\ b \in States /\ Alike(a, b) /\ <<>> \in Seq(Calls)
  <2>1. <<>> \in Seq(Calls)
    OBVIOUS
  <2> QED
    BY <1>1, <2>1, AdvanceCall, AlikeAdvance
<1>4. /\ a.out = "running" /\ a.base = st[p].base /\ a.put = st[p].put
      /\ a.pool = st[p].pool /\ a.pointer = st[p].pointer
      /\ a.garbled = st[p].garbled
  BY <1>1 DEF Advance, States
<1> HIDE DEF a, b
<1>5. d \in States /\ e \in States /\ Alike(d, e)
  BY <1>3, DrawType, AlikeDraw
<1>6. /\ d.out = "running" /\ d.base = st[p].base /\ d.put = st[p].put
      /\ d.pool = st[p].pool /\ d.pointer = st[p].pointer
      /\ d.garbled = st[p].garbled
  BY <1>3, <1>4 DEF Draw, States
<1> HIDE DEF d, e
<1>7. t \in States /\ Alike(t, Put(e, 1))
  BY <1>5, PutType, AlikePut
<1>8. /\ t.out = "running" /\ t.base = st[p].base /\ t.put = st[p].put + 1
      /\ t.pool = st[p].pool /\ t.pointer = st[p].pointer
      /\ t.garbled = st[p].garbled
  BY <1>5, <1>6 DEF Put, States
<1> HIDE DEF t
<1>9. /\ t.put \in Nat /\ st[p].put <= t.put
      /\ d.put \in Nat /\ st[p].put <= d.put
  BY <1>1, <1>6, <1>8
<1>10. Kind(v) = "none" /\ Current(v).op # "report"
  BY <1>2, KindCases
<1>11. CASE Local(p, d) /\ Onward(v) = e
  BY <1>5, <1>6, <1>9, <1>10, <1>11, LocalMoved
<1>12. CASE Local(p, t) /\ Onward(v) = Put(e, 1)
  BY <1>7, <1>8, <1>9, <1>10, <1>12, LocalMoved
<1> QED
  BY <1>2, <1>11, <1>12

LEMMA LogStep ==
  ASSUME NEW p, NEW v, Ready(p, v), Log(p)
  PROVE  Outcome(p, v)
<1> DEFINE reads == st[p].reads + 1
           logged == st[p].logged + 1
           s == [st[p] EXCEPT !.reads = reads, !.logged = logged]
           ops == IF CheckDue(v) THEN Ops("check", 1) ELSE <<>>
           t == Advance(s, ops)
           b == Advance(v, ops)
           w == [b EXCEPT !.reads = v.reads + 1, !.logged = v.logged + 1]
<1>1. /\ st[p] \in States /\ v \in States /\ st[p].out = "running"
      /\ Current(st[p]) = Current(v) /\ Alike(st[p], v)
      /\ st[p].todo # <<>> /\ v.todo # <<>>
  BY ReadyProperties DEF Ready
<1>2. /\ st[p].put \in Nat /\ reads \in Nat /\ logged \in Nat
      /\ reads = v.reads + 1 /\ logged = v.logged + 1
      /\ CheckDue(st[p]) = CheckDue(v)
  BY <1>1 DEF States, Alike, CheckDue
<1>3. Current(v).op = "log" /\ Local(p, t)
  BY <1>1, <1>2 DEF Log, Doing
<1>4. Onward(v) = w
  BY <1>3, OnwardLog
<1>5. ops \in Seq(Calls)
  <2>1. Ops("check", 1) \in Seq(Calls) /\ <<>> \in Seq(Calls)
    BY <1>1, CallBodyTypes
  <2> QED
    BY <2>1
<1> HIDE DEF reads, logged, ops
<1>6. /\ s \in States /\ s.todo = st[p].todo /\ s.out = "running"
      /\ s.base = st[p].base /\ s.put = st[p].put
      /\ s.pool = st[p].pool /\ s.pointer = st[p].pointer
      /\ s.garbled = st[p].garbled /\ s.reads = reads /\ s.logged = logged
      /\ s.degree = st[p].degree /\ s.mem = st[p].mem
      /\ s.extending = st[p].extending /\ s.drawn = st[p].drawn
      /\ s.transcript = st[p].transcript
  BY <1>1, <1>2 DEF States
<1> HIDE DEF s
<1>7. /\ t \in States /\ b \in States
  BY <1>1, <1>5, <1>6, AdvanceCall
<1>8. /\ t.out = "running" /\ t.base = st[p].base /\ t.put = st[p].put
      /\ t.pool = st[p].pool /\ t.pointer = st[p].pointer
      /\ t.garbled = st[p].garbled /\ t.reads = reads /\ t.logged = logged
      /\ t.degree = st[p].degree /\ t.mem = st[p].mem
      /\ t.extending = st[p].extending /\ t.drawn = st[p].drawn
      /\ t.transcript = st[p].transcript
  BY <1>6 DEF Advance, States
<1>9. t.todo = b.todo
  BY <1>1, <1>6 DEF Advance, States, Current, Alike
<1>10. /\ b.base = v.base /\ b.put = v.put
       /\ b.pool = v.pool /\ b.pointer = v.pointer
       /\ b.degree = v.degree /\ b.mem = v.mem
       /\ b.extending = v.extending /\ b.drawn = v.drawn
       /\ b.transcript = v.transcript
  BY <1>1 DEF Advance, States
<1> HIDE DEF t, b
<1>11. Alike(t, w)
  <2>1. /\ w.base = b.base /\ w.put = b.put /\ w.todo = b.todo
        /\ w.pool = b.pool /\ w.pointer = b.pointer
        /\ w.degree = b.degree /\ w.mem = b.mem
        /\ w.extending = b.extending /\ w.drawn = b.drawn
        /\ w.transcript = b.transcript
        /\ w.reads = reads /\ w.logged = logged
    BY <1>2, <1>7 DEF States
  <2> HIDE DEF w
  <2> QED
    BY <2>1, <1>1, <1>8, <1>9, <1>10 DEF Alike
<1>12. t.put \in Nat /\ st[p].put <= t.put
  BY <1>2, <1>8
<1>13. Kind(v) = "none" /\ Current(v).op # "report"
  BY <1>3, KindCases
<1> QED
  BY <1>3, <1>4, <1>7, <1>8, <1>11, <1>12, <1>13, LocalMoved

-----------------------------------------------------------------------------
(* The steps with a message.                                               *)
LEMMA OnwardDrawn ==
  ASSUME run \in Runs, NEW v, Good(v),
         Current(v).op \in {"word", "header", "chain", "fetch", "order",
                            "compare"}
  PROVE  Onward(v).drawn = v.drawn
<1>1. v \in States /\ v.todo # <<>>
  BY GoodProperties
<1>2. PICK ops \in Seq(Operation) :
        Onward(v).drawn = Advance(v, ops).drawn
  <2>1. <<>> \in Seq(Calls) /\ Seq(Calls) \subseteq Seq(Operation)
    BY CallsAreOperations
  <2>2. CASE Current(v).op \in {"word", "order"}
    <3>1. <<>> \in Seq(Operation) /\ Advance(v, <<>>) \in States
      BY <1>1, <2>1, AdvanceType
    <3>2. Onward(v) = Count(Advance(v, <<>>))
      BY <2>2, OnwardCases
    <3>3. Onward(v).drawn = Advance(v, <<>>).drawn
      BY <3>1, <3>2, Unchanged
    <3> QED
      BY <3>1, <3>3
  <2>3. CASE Current(v).op = "header"
    <3> DEFINE a == Advance(v, Body(FileHeader))
               b == [a EXCEPT !.degree = run.degree, !.mem = run.ncls,
                              !.logged = run.ncls]
    <3>1. a \in States /\ Body(FileHeader) \in Seq(Operation)
      BY <1>1, BodyType, AdvanceType
    <3>2. Onward(v) = Count(b)
      BY <2>3, OnwardHeader
    <3> HIDE DEF a
    <3>3. b \in States /\ b.drawn = a.drawn
      <4>1. run.degree \in Nat /\ run.ncls \in Nat
        BY RunProperties
      <4> QED
        BY <4>1, <3>1 DEF States
    <3> HIDE DEF b
    <3>4. Onward(v).drawn = a.drawn
      BY <3>2, <3>3, Unchanged
    <3> QED
      BY <3>1, <3>4 DEF a
  <2>4. CASE Current(v).op = "chain"
    <3> DEFINE ops == IF ChainAt(v) = 0 THEN <<>>
                      ELSE ChainBody(v, ChainAt(v))
    <3>1. ChainBody(v, ChainAt(v)) \in Seq(Calls)
      BY <1>1, <2>4, ChainAtType, ChainBodyType
    <3>2. ops \in Seq(Operation)
      BY <2>1, <3>1
    <3>3. Onward(v) = Count(Advance(v, ops))
      BY <2>4, OnwardChain
    <3> HIDE DEF ops
    <3>4. Advance(v, ops) \in States
      BY <1>1, <3>2, AdvanceType
    <3>5. Onward(v).drawn = Advance(v, ops).drawn
      BY <3>3, <3>4, Unchanged
    <3> QED
      BY <3>2, <3>5
  <2>5. CASE Current(v).op = "fetch"
    <3>1. Ops("get", 1) \in Seq(Calls)
      BY <1>1, CallBodyTypes
    <3>2. /\ Ops("get", 1) \in Seq(Operation)
          /\ Advance(v, Ops("get", 1)) \in States
      BY <1>1, <2>1, <3>1, AdvanceType
    <3>3. Onward(v) = Count(Advance(v, Ops("get", 1)))
      BY <2>5, OnwardCases
    <3>4. Onward(v).drawn = Advance(v, Ops("get", 1)).drawn
      BY <3>2, <3>3, Unchanged
    <3> QED
      BY <3>2, <3>4
  <2>6. CASE Current(v).op = "compare"
    <3> DEFINE base == v.put + 1
               a == Advance(v, <<>>)
               b == Put(a, 1)
               c == [b EXCEPT !.base = base]
    <3>1. a \in States /\ <<>> \in Seq(Operation) /\ base \in Nat
      <4>1. <<>> \in Seq(Operation) /\ a \in States
        BY <1>1, <2>1, AdvanceType
      <4>2. v.put \in Nat
        BY <1>1 DEF States
      <4> QED
        BY <4>1, <4>2
    <3>2. Onward(v) = Count(c)
      BY <2>6, OnwardCompare
    <3> HIDE DEF a, base
    <3>3. b \in States /\ b.drawn = a.drawn
      BY <3>1, PutType, Unchanged
    <3> HIDE DEF b
    <3>4. c \in States /\ c.drawn = b.drawn
      BY <3>1, <3>3 DEF States
    <3> HIDE DEF c
    <3>5. Onward(v).drawn = a.drawn
      BY <3>2, <3>3, <3>4, Unchanged
    <3> QED
      BY <3>1, <3>5 DEF a
  <2> QED
    BY <2>2, <2>3, <2>4, <2>5, <2>6
<1> QED
  BY <1>1, <1>2, Unchanged

LEMMA MessageTypes ==
  /\ Message("word", 0) \in Messages
  /\ Message("header", FileHeader) \in Messages
  /\ \A k \in MaskedOps, c \in Nat \X (0 .. PoolSize - 1) :
       Message(k, c) \in Messages
  /\ Message("extend", 0) \in Messages
  /\ \A d \in SUBSET Int : Message("digest", d) \in Messages
  /\ \A n \in Nat : Message("length", n) \in Messages
  /\ \A b \in BOOLEAN :
       Message("bit", b) \in Messages /\ Message("macs", b) \in Messages
BY DEF Message, Messages

LEMMA MessageValues ==
  ASSUME NEW m \in Messages
  PROVE  /\ m.kind = "header" => m.value = FileHeader
         /\ m.kind = "length" => m.value \in Nat
         /\ m.kind \in {"bit", "macs"} => m.value \in BOOLEAN
BY DEF Messages, MaskedOps

(* One party's state s after Advance, and the position's.                  *)
LEMMA AdvancedProperties ==
  ASSUME NEW p, NEW v, Ready(p, v), NEW ops \in Seq(Operation)
  PROVE  LET a == Advance(st[p], ops)
             b == Advance(v, ops)
         IN  /\ a \in States /\ b \in States /\ Alike(a, b)
             /\ a.out = "running" /\ a.base = st[p].base
             /\ a.put = st[p].put /\ a.put \in Nat /\ a.base \in Nat
             /\ a.base <= a.put
             /\ a.pool = st[p].pool /\ a.pointer = st[p].pointer
             /\ a.garbled = st[p].garbled /\ a.drawn = v.drawn
<1>1. /\ st[p] \in States /\ v \in States /\ st[p].out = "running"
      /\ st[p].todo # <<>> /\ v.todo # <<>> /\ Alike(st[p], v)
      /\ st[p].drawn = v.drawn
  BY ReadyProperties DEF Ready
<1> DEFINE a == Advance(st[p], ops)
           b == Advance(v, ops)
<1>2. a \in States /\ b \in States /\ Alike(a, b)
  BY <1>1, AdvanceType, AlikeAdvance
<1>3. /\ a.out = "running" /\ a.base = st[p].base
      /\ a.put = st[p].put /\ a.pool = st[p].pool
      /\ a.pointer = st[p].pointer
      /\ a.garbled = st[p].garbled /\ a.drawn = v.drawn
  BY <1>1 DEF Advance, States
<1>4. st[p].put \in Nat /\ st[p].base \in Nat /\ st[p].base <= st[p].put
  BY <1>1 DEF States, Ready
<1> QED
  BY <1>2, <1>3, <1>4

LEMMA WordStep ==
  ASSUME NEW p, NEW v, Ready(p, v), Word(p)
  PROVE  Outcome(p, v)
<1> DEFINE a == Advance(st[p], <<>>)
<1>1. /\ Current(v).op = "word" /\ Transfer(p, "word", 0, a)
  BY ReadyProperties DEF Word, Doing
<1>2. Kind(v) = "word" /\ Onward(v) = Count(Advance(v, <<>>))
  BY <1>1, KindCases, OnwardCases
<1>3. <<>> \in Seq(Operation)
  OBVIOUS
<1>4. /\ a \in States /\ Advance(v, <<>>) \in States
      /\ Alike(a, Advance(v, <<>>))
      /\ a.out = "running" /\ a.base = st[p].base
      /\ a.base <= a.put
      /\ a.pool = st[p].pool /\ a.pointer = st[p].pointer
      /\ a.garbled = st[p].garbled /\ a.drawn = v.drawn
  BY <1>3, AdvancedProperties
<1>5. Alike(Count(a), Onward(v)) /\ a.drawn = Onward(v).drawn
  BY <1>1, <1>2, <1>4, AlikeCount, OnwardDrawn DEF Ready, Types
<1>6. "word" \notin {"none", "extend"} \cup MaskedOps
  BY DEF MaskedOps
<1>7. p = BOB /\ BlocksTrue => run.false_block \notin 1 .. a.base
  BY <1>4 DEF BlocksTrue
<1> HIDE DEF a
<1>8. Leaves(p, a)
  BY <1>4 DEF Leaves
<1> QED
  BY <1>1, <1>2, <1>4, <1>5, <1>6, <1>7, <1>8, MessageTypes, TransferMoved

LEMMA HeaderStep ==
  ASSUME NEW p, NEW v, Ready(p, v), Header(p)
  PROVE  Outcome(p, v)
<1> DEFINE a == Advance(st[p], Body(FileHeader))
           b == Advance(v, Body(FileHeader))
           s == [a EXCEPT !.degree = run.degree, !.mem = run.ncls,
                          !.logged = run.ncls]
           w == [b EXCEPT !.degree = run.degree, !.mem = run.ncls,
                          !.logged = run.ncls]
           h == Passed(p, FileHeader)
<1>1. /\ Current(v).op = "header"
      /\ Transfer(p, "header", h,
           [Advance(st[p], Body(h)) EXCEPT
              !.degree = h.degree, !.mem = h.ncls, !.logged = h.ncls])
  BY ReadyProperties DEF Header, Doing
<1>2. h = FileHeader
  <2>1. CASE p = ALICE
    BY <2>1 DEF Passed
  <2>2. CASE p # ALICE
    <3>1. /\ chan[ALICE] # <<>> /\ Head(chan[ALICE]).kind = "header"
          /\ chan[ALICE] \in Seq(Messages)
      BY <1>1, <2>2, ReadyProperties DEF Transfer
    <3>2. Head(chan[ALICE]) \in Messages
      BY <3>1
    <3> QED
      BY <2>2, <3>1, <3>2, MessageValues DEF Passed
  <2> QED
    BY <2>1, <2>2
<1>3. FileHeader.degree = run.degree /\ FileHeader.ncls = run.ncls
  BY DEF FileHeader
<1>4. Transfer(p, "header", FileHeader, s)
  <2> HIDE DEF h
  <2> QED
    BY <1>1, <1>2, <1>3
<1>5. Kind(v) = "header" /\ Onward(v) = Count(w)
  BY <1>1, KindCases, OnwardHeader
<1>6. /\ run \in Runs /\ run.degree \in Nat /\ run.ncls \in Nat
      /\ Body(FileHeader) \in Seq(Operation)
  BY BodyType, RunProperties, ReadyProperties
<1>7. /\ a \in States /\ b \in States /\ Alike(a, b)
      /\ a.out = "running" /\ a.base = st[p].base
      /\ a.base <= a.put
      /\ a.pool = st[p].pool /\ a.pointer = st[p].pointer
      /\ a.garbled = st[p].garbled /\ a.drawn = v.drawn
  BY <1>6, AdvancedProperties
<1> HIDE DEF a, b
<1>8. /\ s \in States /\ s.out = "running" /\ s.base = a.base
      /\ s.put = a.put /\ s.pool = a.pool /\ s.pointer = a.pointer
      /\ s.garbled = a.garbled /\ s.drawn = a.drawn
  BY <1>6, <1>7 DEF States
<1>9. w \in States /\ Alike(s, w)
  BY <1>6, <1>7 DEF States, Alike
<1> HIDE DEF s, w
<1>10. Alike(Count(s), Onward(v)) /\ s.drawn = Onward(v).drawn
  <2>1. Alike(Count(s), Count(w))
    BY <1>8, <1>9, AlikeCount
  <2>2. Onward(v).drawn = v.drawn
    BY <1>1, <1>6, OnwardDrawn DEF Ready
  <2> QED
    BY <2>1, <2>2, <1>5, <1>7, <1>8
<1>11. "header" \notin {"none", "extend"} \cup MaskedOps
  BY DEF MaskedOps
<1>12. p = BOB /\ BlocksTrue => run.false_block \notin 1 .. s.base
  BY <1>7, <1>8 DEF BlocksTrue
<1>13. /\ s.base <= s.put /\ s.pool = st[p].pool
       /\ s.pointer = st[p].pointer /\ s.garbled = st[p].garbled
  BY <1>7, <1>8
<1>14. Leaves(p, s)
  BY <1>8 DEF Leaves
<1> QED
  BY <1>1, <1>4, <1>5, <1>8, <1>10, <1>11, <1>12, <1>13, <1>14, MessageTypes,
     TransferMoved

LEMMA CompareStep ==
  ASSUME NEW p, NEW v, Ready(p, v), Compare(p)
  PROVE  Outcome(p, v)
<1> DEFINE a == Advance(st[p], <<>>)
           b == Advance(v, <<>>)
           s == Put(a, 1)
           base == v.put + 1
           w == [Put(b, 1) EXCEPT !.base = base]
           d == Passed(p, Digest(s))
           bad == p = BOB /\ (\/ s.garbled \/ d # Digest(s)
                              \/ run.false_block \in Digest(s))
           t == IF bad THEN Fail(s, "error") ELSE [s EXCEPT !.base = s.put]
<1>1. Current(v).op = "compare" /\ Transfer(p, "digest", d, t)
  BY ReadyProperties DEF Compare, Doing
<1>2. /\ Kind(v) = "digest" /\ Onward(v) = Count(w)
  BY <1>1, KindCases, OnwardCompare
<1>3. <<>> \in Seq(Operation)
  OBVIOUS
<1>4. /\ a \in States /\ b \in States /\ Alike(a, b)
      /\ a.out = "running" /\ a.base = st[p].base
      /\ a.put = st[p].put /\ a.put \in Nat /\ a.base \in Nat
      /\ a.base <= a.put
      /\ a.pool = st[p].pool /\ a.pointer = st[p].pointer
      /\ a.garbled = st[p].garbled /\ a.drawn = v.drawn
  BY <1>3, AdvancedProperties
<1>5. base \in Nat /\ a.put + 1 = base
  <2>1. st[p].put = v.put
    BY ReadyProperties
  <2> QED
    BY <2>1, <1>4
<1> HIDE DEF a, b, base
<1>6. /\ s \in States /\ Put(b, 1) \in States /\ Alike(s, Put(b, 1))
      /\ s.out = "running" /\ s.base = a.base /\ s.put = base
      /\ s.pool = a.pool /\ s.pointer = a.pointer
      /\ s.garbled = a.garbled /\ s.drawn = a.drawn
  <2>1. s \in States /\ Put(b, 1) \in States /\ Alike(s, Put(b, 1))
    BY <1>4, PutType, AlikePut
  <2>2. /\ s.out = "running" /\ s.base = a.base /\ s.put = base
        /\ s.pool = a.pool /\ s.pointer = a.pointer
        /\ s.garbled = a.garbled /\ s.drawn = a.drawn
    BY <1>4, <1>5 DEF Put, States
  <2> QED
    BY <2>1, <2>2
<1> DEFINE z == Put(b, 1)
<1>18. s.mem = st[p].mem /\ s.todo = Advance(st[p], <<>>).todo
  <2>1. s.mem = a.mem /\ s.todo = a.todo
    BY <1>4 DEF Put, States
  <2>2. a.mem = st[p].mem
    BY ReadyProperties, Unchanged DEF a
  <2> QED
    BY <2>1, <2>2 DEF a
<1> HIDE DEF z, s
<1>7. z \in States /\ Alike(s, z) /\ w = [z EXCEPT !.base = base]
  BY <1>6 DEF z
<1> HIDE DEF w, bad
<1>8. /\ t \in States /\ t.put = base
      /\ t.base = (IF bad THEN a.base ELSE base)
      /\ t.out = (IF bad THEN "error" ELSE "running")
      /\ t.pool = a.pool /\ t.pointer = a.pointer
      /\ t.garbled = a.garbled /\ t.drawn = a.drawn
  BY <1>5, <1>6 DEF States, Fail, Outs
<1>19. Leaves(p, t)
  <2>1. t.mem = s.mem /\ t.todo = s.todo
    BY <1>6 DEF Fail, States
  <2> QED
    BY <2>1, <1>18 DEF Leaves
<1>9. ~ bad => Alike(t, w) /\ w \in States
  <2>1. SUFFICES ASSUME ~ bad PROVE Alike(t, w) /\ w \in States
    OBVIOUS
  <2>2. t = [s EXCEPT !.base = base]
    BY <2>1, <1>6
  <2> HIDE DEF t
  <2>3. w \in States
    BY <1>5, <1>7 DEF States
  <2>4. Alike(t, w)
    BY <1>5, <1>6, <1>7, <2>2 DEF States, Alike
  <2> QED
    BY <2>3, <2>4
<1>10. p = BOB /\ BlocksTrue => run.false_block \notin 1 .. t.base
  <2>1. SUFFICES ASSUME p = BOB, run.false_block \notin 1 .. a.base
                 PROVE  run.false_block \notin 1 .. t.base
    BY <1>4 DEF BlocksTrue
  <2>2. CASE bad
    BY <2>1, <2>2, <1>8
  <2>3. CASE ~ bad
    <3>1. run.false_block \notin Digest(s)
      BY <2>1, <2>3 DEF bad
    <3>2. Digest(s) = a.base + 1 .. base
      BY <1>6 DEF Digest
    <3>3. run.false_block \in Nat
      BY RunProperties, ReadyProperties
    <3> QED
      BY <2>1, <2>3, <3>1, <3>2, <3>3, <1>4, <1>5, <1>8
  <2> QED
    BY <2>2, <2>3
<1>11. t.base <= t.put
  BY <1>4, <1>5, <1>8
<1>12. t.drawn = Onward(v).drawn
  <2>1. Onward(v).drawn = v.drawn
    BY <1>1, ReadyProperties, OnwardDrawn DEF Ready
  <2> QED
    BY <2>1, <1>4, <1>8
<1>13. p = ALICE => Message("digest", d) \in Messages
  <2>1. Digest(s) \in SUBSET Int
    BY <1>4, <1>5, <1>6 DEF Digest
  <2>2. p = ALICE => d = Digest(s)
    BY DEF Passed
  <2> HIDE DEF d
  <2> QED
    BY <2>1, <2>2, MessageTypes
<1>14. /\ "digest" \notin {"none", "extend"} \cup MaskedOps
       /\ Current(v).op # "report" /\ Current(v).op # "set"
  BY <1>1 DEF MaskedOps
<1>15. p \in {ALICE, BOB} /\ ALICE # BOB
  BY ReadyProperties, PartiesProperties
<1> HIDE DEF t, d
<1>16. IF t.out = "running" THEN Alike(Count(t), Onward(v))
       ELSE t.out # "ended" /\ (p = ALICE => Current(v).op # "set")
  <2>1. CASE bad
    BY <2>1, <1>8, <1>14
  <2>2. CASE ~ bad
    BY <2>2, <1>2, <1>8, <1>9, AlikeCount
  <2> QED
    BY <2>1, <2>2
<1>17. t.pool = st[p].pool /\ t.pointer = st[p].pointer
       /\ t.garbled = st[p].garbled /\ t \in States
  BY <1>4, <1>8
<1> QED
  BY <1>1, <1>2, <1>10, <1>11, <1>12, <1>13, <1>14, <1>16, <1>17, <1>19,
     TransferMoved

LEMMA ChainStep ==
  ASSUME NEW p, NEW v, Ready(p, v), Chain(p)
  PROVE  Outcome(p, v)
<1>1. /\ run \in Runs /\ p \in {ALICE, BOB} /\ ALICE # BOB
      /\ st[p] \in States /\ v \in States /\ st[p].out = "running"
      /\ chan[ALICE] \in Seq(Messages)
      /\ Current(st[p]) = Current(v) /\ Good(v)
      /\ st[p].base <= st[p].put
      /\ Current(v).op = "chain"
  BY ReadyProperties, PartiesProperties, ZenonT(40)
     DEF Ready, Chain, Doing
<1>2. v.mem # 0 /\ st[p].degree = v.degree /\ st[p].drawn = v.drawn
  BY <1>1, ReadyProperties
<1> DEFINE value == run.chains[Len(run.chains) + 1
                                 - Current(st[ALICE]).times]
           length == Passed(p, value)
<1>3. PICK unequal \in Bits(p, "sizes") :
        Transfer(p, "length", length,
          IF unequal \/ length = 0 THEN Fail(st[p], "aborted")
          ELSE Advance(st[p], ChainBody(st[p], length)))
  BY DEF Chain
<1>4. ChainAt(v) \in Nat /\ Kind(v) = "length"
  BY <1>1, ChainAtType, KindCases
<1>5. length = ChainAt(v)
  <2>1. CASE p = ALICE
    BY <2>1, <1>1 DEF Passed, ChainAt
  <2>2. CASE p = BOB
    <3>1. chan[ALICE] # <<>>
      BY <2>2, <1>1, <1>3 DEF Transfer
    <3> QED
      BY <2>2, <3>1, <1>1, <1>4 DEF Ready, Passed
  <2> QED
    BY <1>1, <2>1, <2>2
<1> DEFINE ops == ChainBody(v, ChainAt(v))
           fail == unequal \/ ChainAt(v) = 0
           a == Advance(st[p], ops)
           b == Advance(v, ops)
           f == Fail(st[p], "aborted")
           t == IF fail THEN f ELSE a
<1>6. ChainBody(st[p], ChainAt(v)) = ops
  BY <1>1, <1>2 DEF ChainBody
<1>7. Transfer(p, "length", ChainAt(v), t)
  <2> HIDE DEF length, ops
  <2> QED
    BY <1>3, <1>5, <1>6
<1>8. ops \in Seq(Operation)
  BY <1>1, <1>4, ChainBodyType, CallsAreOperations
<1> HIDE DEF ops
<1>9. /\ a \in States /\ b \in States /\ Alike(a, b)
      /\ a.out = "running" /\ a.base = st[p].base
      /\ a.base <= a.put
      /\ a.pool = st[p].pool /\ a.pointer = st[p].pointer
      /\ a.garbled = st[p].garbled /\ a.drawn = v.drawn
  BY <1>8, AdvancedProperties
<1>10. ~ fail => Onward(v) = Count(b)
  BY <1>1, OnwardChain DEF ops
<1>11. /\ f \in States /\ f.out = "aborted" /\ f.base = st[p].base
       /\ f.put = st[p].put /\ f.pool = st[p].pool
       /\ f.pointer = st[p].pointer
       /\ f.garbled = st[p].garbled /\ f.drawn = st[p].drawn
       /\ f.mem = st[p].mem /\ f.todo = st[p].todo
  BY <1>1 DEF Fail, States, Outs
<1>12. Onward(v).drawn = v.drawn
  BY <1>1, OnwardDrawn
<1> HIDE DEF a, b, f, fail
<1>13. /\ t \in States /\ t.base <= t.put /\ t.base = st[p].base
       /\ t.pool = st[p].pool /\ t.pointer = st[p].pointer
       /\ t.garbled = st[p].garbled /\ t.drawn = Onward(v).drawn
  BY <1>1, <1>2, <1>9, <1>11, <1>12
<1>14. IF t.out = "running" THEN Alike(Count(t), Onward(v))
       ELSE t.out # "ended" /\ (p = ALICE => Current(v).op # "set")
  <2>1. CASE fail
    BY <2>1, <1>1, <1>11
  <2>2. CASE ~ fail
    <3>1. Alike(Count(a), Onward(v))
      BY <2>2, <1>9, <1>10, AlikeCount
    <3> QED
      BY <2>2, <3>1, <1>9
  <2> QED
    BY <2>1, <2>2
<1>15. "length" \notin {"none", "extend"} \cup MaskedOps
  BY DEF MaskedOps
<1>16. p = BOB /\ BlocksTrue => run.false_block \notin 1 .. t.base
  BY <1>13 DEF BlocksTrue
<1>17. Message("length", ChainAt(v)) \in Messages /\ Current(v).op # "report"
  BY <1>1, <1>4, MessageTypes
<1>18. Leaves(p, t)
  BY <1>9, <1>11 DEF Leaves
<1> HIDE DEF t
<1> QED
  BY <1>4, <1>7, <1>13, <1>14, <1>15, <1>16, <1>17, <1>18, TransferMoved

LEMMA PassedBit ==
  ASSUME NEW p, NEW v, Ready(p, v), NEW fault, NEW bit \in Bits(p, fault),
         NEW kind \in {"bit", "macs"}, NEW s,
         Transfer(p, kind, Passed(p, bit), s)
  PROVE  Passed(p, bit) \in BOOLEAN
<1>1. bit \in BOOLEAN /\ chan[ALICE] \in Seq(Messages)
  BY ReadyProperties DEF Bits
<1>2. CASE p = ALICE
  BY <1>1, <1>2 DEF Passed
<1>3. CASE p # ALICE
  <2>1. /\ chan[ALICE] # <<>> /\ Head(chan[ALICE]).kind = kind
    BY <1>3 DEF Transfer
  <2>2. Head(chan[ALICE]) \in Messages
    BY <1>1, <2>1
  <2> QED
    BY <1>3, <2>1, <2>2, MessageValues DEF Passed
<1> QED
  BY <1>2, <1>3

LEMMA FetchStep ==
  ASSUME NEW p, NEW v, Ready(p, v), Fetch(p)
  PROVE  Outcome(p, v)
<1>1. /\ run \in Runs
      /\ st[p] \in States /\ v \in States /\ st[p].out = "running"
      /\ Good(v) /\ st[p].base <= st[p].put
      /\ Current(v).op = "fetch" /\ st[p].drawn = v.drawn
  BY ReadyProperties DEF Ready, Fetch, Doing
<1>2. PICK bit \in Bits(p, "index") :
        Transfer(p, "bit", Passed(p, bit),
          IF Passed(p, bit) THEN Fail(st[p], "error")
          ELSE Advance(st[p], Ops("get", 1)))
  BY DEF Fetch
<1> DEFINE fail == Passed(p, bit)
           a == Advance(st[p], Ops("get", 1))
           b == Advance(v, Ops("get", 1))
           f == Fail(st[p], "error")
           t == IF fail THEN f ELSE a
<1>3. fail \in BOOLEAN
  BY <1>2, PassedBit
<1>4. Kind(v) = "bit" /\ Onward(v) = Count(b)
  BY <1>1, KindCases, OnwardCases
<1>5. Ops("get", 1) \in Seq(Operation)
  BY <1>1, CallBodyTypes, CallsAreOperations
<1>6. /\ a \in States /\ b \in States /\ Alike(a, b)
      /\ a.out = "running" /\ a.base = st[p].base
      /\ a.base <= a.put
      /\ a.pool = st[p].pool /\ a.pointer = st[p].pointer
      /\ a.garbled = st[p].garbled /\ a.drawn = v.drawn
  BY <1>5, AdvancedProperties
<1>7. /\ f \in States /\ f.out = "error" /\ f.base = st[p].base
      /\ f.put = st[p].put /\ f.pool = st[p].pool
      /\ f.pointer = st[p].pointer
      /\ f.garbled = st[p].garbled /\ f.drawn = st[p].drawn
      /\ f.mem = st[p].mem /\ f.todo = st[p].todo
  BY <1>1 DEF Fail, States, Outs
<1>8. Onward(v).drawn = v.drawn
  BY <1>1, OnwardDrawn
<1>9. Transfer(p, "bit", fail, t)
  BY <1>2
<1> HIDE DEF a, b, f, fail
<1>10. /\ t \in States /\ t.base <= t.put /\ t.base = st[p].base
       /\ t.pool = st[p].pool /\ t.pointer = st[p].pointer
       /\ t.garbled = st[p].garbled /\ t.drawn = Onward(v).drawn
  BY <1>1, <1>6, <1>7, <1>8
<1>11. IF t.out = "running" THEN Alike(Count(t), Onward(v))
       ELSE t.out # "ended" /\ (p = ALICE => Current(v).op # "set")
  <2>1. CASE fail
    BY <2>1, <1>1, <1>7
  <2>2. CASE ~ fail
    <3>1. Alike(Count(a), Onward(v))
      BY <1>4, <1>6, AlikeCount
    <3> QED
      BY <2>2, <3>1, <1>6
  <2> QED
    BY <2>1, <2>2
<1>12. "bit" \notin {"none", "extend", "length"} \cup MaskedOps
  BY DEF MaskedOps
<1>13. p = BOB /\ BlocksTrue => run.false_block \notin 1 .. t.base
  BY <1>10 DEF BlocksTrue
<1>14. Message("bit", fail) \in Messages /\ Current(v).op # "report"
  BY <1>1, <1>3, MessageTypes
<1>15. Leaves(p, t)
  BY <1>6, <1>7 DEF Leaves
<1> HIDE DEF t
<1> QED
  BY <1>4, <1>9, <1>10, <1>11, <1>12, <1>13, <1>14, <1>15, TransferMoved

LEMMA OrderStep ==
  ASSUME NEW p, NEW v, Ready(p, v), Order(p)
  PROVE  Outcome(p, v)
<1>1. /\ run \in Runs /\ st[p] \in States
      /\ Good(v) /\ Current(v).op = "order"
  BY ReadyProperties DEF Ready, Order, Doing
<1>2. PICK bit \in Bits(p, "order") :
        Transfer(p, "bit", Passed(p, bit),
          [Advance(st[p], <<>>) EXCEPT !.cheat = @ \/ Passed(p, bit)])
  BY DEF Order
<1> DEFINE fail == Passed(p, bit)
           a == Advance(st[p], <<>>)
           b == Advance(v, <<>>)
           cheat == a.cheat \/ fail
           t == [a EXCEPT !.cheat = cheat]
<1>3. fail \in BOOLEAN
  BY <1>2, PassedBit
<1>4. Kind(v) = "bit" /\ Onward(v) = Count(b)
  BY <1>1, KindCases, OnwardCases
<1>5. <<>> \in Seq(Operation)
  OBVIOUS
<1>6. /\ a \in States /\ b \in States /\ Alike(a, b)
      /\ a.out = "running" /\ a.base = st[p].base
      /\ a.base <= a.put
      /\ a.pool = st[p].pool /\ a.pointer = st[p].pointer
      /\ a.garbled = st[p].garbled /\ a.drawn = v.drawn
  BY <1>5, AdvancedProperties
<1>7. Onward(v).drawn = v.drawn
  BY <1>1, OnwardDrawn
<1>8. Transfer(p, "bit", fail, t)
  BY <1>2
<1>9. cheat \in BOOLEAN
  OBVIOUS
<1> HIDE DEF a, b, fail, cheat
<1>10. /\ t \in States /\ t.base <= t.put /\ t.base = st[p].base
       /\ t.pool = st[p].pool /\ t.pointer = st[p].pointer
       /\ t.garbled = st[p].garbled /\ t.drawn = Onward(v).drawn
       /\ t.out = "running"
  BY <1>6, <1>7, <1>9 DEF States
<1>11. Alike(t, b)
  BY <1>6, <1>9 DEF States, Alike
<1> HIDE DEF t
<1>12. Alike(Count(t), Onward(v))
  BY <1>4, <1>6, <1>10, <1>11, AlikeCount
<1>13. "bit" \notin {"none", "extend", "length"} \cup MaskedOps
  BY DEF MaskedOps
<1>14. p = BOB /\ BlocksTrue => run.false_block \notin 1 .. t.base
  BY <1>10 DEF BlocksTrue
<1>15. Message("bit", fail) \in Messages /\ Current(v).op # "report"
  BY <1>1, <1>3, MessageTypes
<1>16. Leaves(p, t)
  BY <1>10 DEF Leaves
<1> QED
  BY <1>4, <1>8, <1>10, <1>12, <1>13, <1>14, <1>15, <1>16, TransferMoved

LEMMA SetStep ==
  ASSUME NEW p, NEW v, Ready(p, v), SetEquality(p)
  PROVE  Outcome(p, v)
<1>1. /\ run \in Runs /\ p \in {ALICE, BOB} /\ ALICE # BOB
      /\ st[p] \in States /\ v \in States /\ st[p].out = "running"
      /\ Good(v) /\ Alike(st[p], v) /\ st[p].base <= st[p].put
      /\ Current(v).op = "set" /\ st[p].todo # <<>> /\ v.todo # <<>>
  BY ReadyProperties, PartiesProperties DEF Ready, SetEquality, Doing
<1>2. PICK bit \in Bits(p, "set") :
        Transfer(p, "macs", Passed(p, bit),
          IF p = BOB /\ Passed(p, bit) THEN Fail(Draw(st[p]), "error")
          ELSE [Advance(Draw(st[p]), <<>>) EXCEPT
                  !.logged = st[p].mem, !.reads = 0])
  BY DEF SetEquality
<1> DEFINE value == Passed(p, bit)
           fail == p = BOB /\ value
           d == Draw(st[p])
           e == Draw(v)
           f == Fail(d, "error")
           a == Advance(d, <<>>)
           b == Advance(v, <<>>)
           logged == st[p].mem
           g == [a EXCEPT !.logged = logged, !.reads = 0]
           w == [b EXCEPT !.drawn = e.drawn, !.logged = v.mem, !.reads = 0]
           t == IF fail THEN f ELSE g
<1>3. value \in BOOLEAN
  BY <1>2, PassedBit
<1>4. Transfer(p, "macs", value, t)
  BY <1>2
<1>5. Kind(v) = "macs" /\ Onward(v) = Count(w)
  BY <1>1, KindCases, OnwardSet
<1>6. /\ st[p].mem = v.mem /\ v.mem \in Nat /\ <<>> \in Seq(Operation)
      /\ e.drawn = Append(v.drawn, v.transcript)
  <2>1. st[p].mem = v.mem /\ v.mem \in Nat
    BY <1>1 DEF Alike, States
  <2> QED
    BY <2>1, <1>1, Unchanged
<1>7. /\ d \in States /\ e \in States /\ Alike(d, e)
      /\ d.todo = st[p].todo /\ d.out = "running"
      /\ d.base = st[p].base /\ d.put = st[p].put /\ d.pool = st[p].pool
      /\ d.pointer = st[p].pointer /\ d.garbled = st[p].garbled
      /\ d.drawn = e.drawn
  <2>1. d \in States /\ e \in States /\ Alike(d, e)
    BY <1>1, DrawType, AlikeDraw
  <2>2. /\ d.todo = st[p].todo /\ d.out = "running"
        /\ d.base = st[p].base /\ d.put = st[p].put /\ d.pool = st[p].pool
        /\ d.pointer = st[p].pointer /\ d.garbled = st[p].garbled
    BY <1>1 DEF Draw, States
  <2> QED
    BY <2>1, <2>2 DEF Alike
<1>22. d.mem = st[p].mem
  BY <1>1, Unchanged
<1>8. b \in States
  BY <1>1, <1>6, AdvanceType
<1> HIDE DEF d
<1>9. a \in States
  BY <1>1, <1>6, <1>7, AdvanceType
<1>10. /\ a.out = "running" /\ a.base = st[p].base /\ a.put = st[p].put
       /\ a.pool = st[p].pool /\ a.pointer = st[p].pointer
       /\ a.garbled = st[p].garbled /\ a.drawn = e.drawn
  BY <1>7 DEF Advance, States
<1>11. /\ a.todo = b.todo /\ a.mem = b.mem
       /\ a.extending = b.extending /\ a.transcript = b.transcript
       /\ a.mem # 0 => a.degree = b.degree
       /\ a.put = b.put /\ a.base = b.base /\ a.pool = b.pool
       /\ a.pointer = b.pointer
  <2>1. /\ e.todo = v.todo /\ e.mem = v.mem
        /\ e.extending = v.extending /\ e.transcript = v.transcript
        /\ e.degree = v.degree /\ e.put = v.put /\ e.base = v.base
        /\ e.pool = v.pool /\ e.pointer = v.pointer
    BY <1>1 DEF Draw, States
  <2> HIDE DEF e
  <2>2. Alike(a, Advance(e, <<>>))
    BY <1>7, AlikeAdvance
  <2>3. LET x == Advance(e, <<>>)
        IN  /\ x.todo = b.todo /\ x.mem = b.mem
            /\ x.extending = b.extending /\ x.transcript = b.transcript
            /\ x.degree = b.degree
            /\ x.put = b.put /\ x.base = b.base /\ x.pool = b.pool
            /\ x.pointer = b.pointer
    BY <1>1, <1>7, <2>1 DEF Advance, Current, States
  <2> QED
    BY <2>2, <2>3 DEF Alike
<1> HIDE DEF a, b, e
<1>12. g \in States /\ w \in States /\ Alike(g, w)
  <2>1. logged \in Nat /\ logged = v.mem
    BY <1>6
  <2> HIDE DEF logged
  <2>2. g \in States
    BY <2>1, <1>9 DEF States
  <2>3. e.drawn \in Seq(Nat)
    BY <1>7 DEF States
  <2>4. w \in States
    BY <2>3, <1>6, <1>8 DEF States
  <2>5. Alike(g, w)
    BY <2>1, <1>8, <1>9, <1>10, <1>11 DEF Alike, States
  <2> QED
    BY <2>2, <2>4, <2>5
<1>13. /\ g.out = "running" /\ g.base = st[p].base /\ g.put = st[p].put
       /\ g.pool = st[p].pool /\ g.pointer = st[p].pointer
       /\ g.garbled = st[p].garbled /\ g.drawn = e.drawn
  BY <1>9, <1>10 DEF States
<1>14. w.drawn = e.drawn
  BY <1>8 DEF States
<1> HIDE DEF g, w
<1>15. Onward(v).drawn = e.drawn /\ Alike(Count(g), Onward(v))
  BY <1>5, <1>12, <1>14, Unchanged, AlikeCount
<1>16. /\ f \in States /\ f.out = "error" /\ f.base = st[p].base
       /\ f.put = st[p].put /\ f.pool = st[p].pool
       /\ f.pointer = st[p].pointer
       /\ f.garbled = st[p].garbled /\ f.drawn = e.drawn
       /\ f.mem = st[p].mem /\ f.todo = st[p].todo
  BY <1>7, <1>22 DEF Fail, States, Outs
<1> HIDE DEF f, fail
<1>17. /\ t \in States /\ t.base <= t.put /\ t.base = st[p].base
       /\ t.pool = st[p].pool /\ t.pointer = st[p].pointer
       /\ t.garbled = st[p].garbled /\ t.drawn = Onward(v).drawn
  BY <1>1, <1>12, <1>13, <1>15, <1>16
<1>18. IF t.out = "running" THEN Alike(Count(t), Onward(v))
       ELSE t.out # "ended" /\ (p = ALICE => Current(v).op # "set")
  <2>1. CASE fail
    BY <2>1, <1>1, <1>16 DEF fail
  <2>2. CASE ~ fail
    BY <2>2, <1>13, <1>15
  <2> QED
    BY <2>1, <2>2
<1>19. "macs" \notin {"none", "extend", "length"} \cup MaskedOps
  BY DEF MaskedOps
<1>20. p = BOB /\ BlocksTrue => run.false_block \notin 1 .. t.base
  BY <1>17 DEF BlocksTrue
<1>21. Message("macs", value) \in Messages /\ Current(v).op # "report"
  BY <1>1, <1>3, MessageTypes
<1>23. Leaves(p, t)
  BY <1>13, <1>16 DEF Leaves
<1> HIDE DEF t, value
<1> QED
  BY <1>4, <1>5, <1>17, <1>18, <1>19, <1>20, <1>21, <1>23, TransferMoved

LEMMA MaskedStep ==
  ASSUME NEW p, NEW v, Ready(p, v), NEW op \in MaskedOps,
         NEW blocks \in Nat, blocks = (IF op = "inv" THEN 1 ELSE 0),
         Masked(p, op, 1, blocks)
  PROVE  Outcome(p, v)
<1> DEFINE own == Correlation(st[p])
           c == Passed(p, Correlation(st[ALICE]))
           a == Put(Advance(st[p], <<>>), blocks)
           b == Put(Advance(v, <<>>), blocks)
           pointer == v.pointer + 1
           garbled == a.garbled \/ c # own
           t == [a EXCEPT !.pointer = pointer, !.garbled = garbled]
           w == [b EXCEPT !.pointer = pointer]
<1>1. /\ run \in Runs /\ p \in {ALICE, BOB} /\ ALICE # BOB
      /\ st[p] \in States /\ v \in States
      /\ Good(v) /\ Alike(st[p], v)
      /\ Current(v).op = op /\ ~ Exhausted(v) /\ Kind(v) = op
  <2>1. /\ run \in Runs /\ p \in {ALICE, BOB} /\ ALICE # BOB
        /\ st[p] \in States /\ v \in States
        /\ Good(v) /\ Alike(st[p], v)
    BY ReadyProperties, PartiesProperties DEF Ready
  <2>2. Current(v).op = op /\ ~ Exhausted(v)
    BY ReadyProperties DEF Masked, Doing
  <2>3. Kind(v) = op
    BY <2>2, KindCases
  <2> QED
    BY <2>1, <2>2, <2>3
<1>2. ~ v.extending
  BY <1>1 DEF Good
<1>3. Onward(v) = OnwardMasked(v, blocks)
  BY <1>1, OnwardCases DEF MaskedOps
<1>4. <<>> \in Seq(Operation)
  OBVIOUS
<1>5. /\ Advance(st[p], <<>>) \in States /\ Advance(v, <<>>) \in States
      /\ Alike(Advance(st[p], <<>>), Advance(v, <<>>))
      /\ Advance(st[p], <<>>).out = "running"
      /\ Advance(st[p], <<>>).base = st[p].base
      /\ Advance(st[p], <<>>).put \in Nat
      /\ Advance(st[p], <<>>).base \in Nat
      /\ Advance(st[p], <<>>).base <= Advance(st[p], <<>>).put
      /\ Advance(st[p], <<>>).pool = st[p].pool
      /\ Advance(st[p], <<>>).pointer = st[p].pointer
      /\ Advance(st[p], <<>>).garbled = st[p].garbled
      /\ Advance(st[p], <<>>).drawn = v.drawn
  BY <1>4, AdvancedProperties
<1>6. a \in States /\ b \in States /\ Alike(a, b)
  BY <1>5, PutType, AlikePut
<1>7. /\ a.out = "running" /\ a.base = st[p].base
      /\ a.pool = st[p].pool /\ a.pointer = st[p].pointer
      /\ a.garbled = st[p].garbled /\ a.drawn = v.drawn
      /\ a.put = Advance(st[p], <<>>).put + blocks
  <2> DEFINE z == Advance(st[p], <<>>)
  <2> HIDE DEF z
  <2>1. /\ Put(z, blocks).out = z.out /\ Put(z, blocks).base = z.base
        /\ Put(z, blocks).pool = z.pool /\ Put(z, blocks).pointer = z.pointer
        /\ Put(z, blocks).garbled = z.garbled
        /\ Put(z, blocks).drawn = z.drawn
        /\ Put(z, blocks).put = z.put + blocks
    BY <1>5 DEF Put, States, z
  <2> QED
    BY <2>1, <1>5 DEF z
<1>8. a.base <= a.put
  BY <1>5, <1>7
<1>9. /\ a.pointer = v.pointer /\ b.pointer = v.pointer
      /\ v.pointer \in 0 .. PoolSize - 1 /\ pointer \in 0 .. PoolSize
  <2>1. st[p].pointer = v.pointer /\ v.pointer \in 0 .. PoolSize
    BY <1>1 DEF Alike, States
  <2>2. v.pointer # PoolSize
    BY <1>1 DEF Exhausted
  <2>3. a.pointer = b.pointer
    BY <1>6 DEF Alike
  <2> QED
    BY <2>1, <2>2, <2>3, <1>7, PartiesProperties
<1>10. Transfer(p, op, c, t) /\ Onward(v) = Count(w)
  <2>1. Transfer(p, op, c, [a EXCEPT !.pointer = a.pointer + 1,
                                     !.garbled = a.garbled \/ c # own])
    BY DEF Masked
  <2>2. Onward(v) = Count([b EXCEPT !.pointer = b.pointer + 1])
    BY <1>1, <1>2, <1>3 DEF OnwardMasked
  <2> HIDE DEF a, b, c, own
  <2> QED
    BY <2>1, <2>2, <1>9
<1>11. garbled \in BOOLEAN
  OBVIOUS
<1> HIDE DEF a, b, c, own, pointer, garbled
<1>12. /\ t \in States /\ t.out = "running" /\ t.base = a.base
       /\ t.put = a.put /\ t.pool = a.pool /\ t.pointer = pointer
       /\ t.garbled = garbled /\ t.drawn = a.drawn
  BY <1>6, <1>7, <1>9, <1>11 DEF States
<1>13. w \in States /\ Alike(t, w)
  BY <1>6, <1>9, <1>11 DEF States, Alike
<1> HIDE DEF t, w
<1>14. Alike(Count(t), Onward(v)) /\ Count(t).drawn = Onward(v).drawn
  <2>1. Alike(Count(t), Onward(v))
    BY <1>10, <1>12, <1>13, AlikeCount
  <2> QED
    BY <2>1 DEF Alike
<1>15. p = BOB /\ BlocksTrue => run.false_block \notin 1 .. t.base
  BY <1>7, <1>12 DEF BlocksTrue
<1>16. own \in Nat \X (0 .. PoolSize - 1)
  <2>1. st[p].pool \in Nat /\ st[p].pointer = v.pointer
    BY <1>1 DEF States, Alike
  <2> QED
    BY <2>1, <1>9 DEF own, Correlation
<1>17. p = ALICE => c = own /\ Message(op, c) \in Messages
  BY <1>16, MessageTypes DEF c, own, Passed
<1>18. op \notin {"none", "extend", "length"}
  BY DEF MaskedOps
<1>19. t.base <= t.put
  BY <1>8, <1>12
<1>25. Leaves(p, t)
  BY <1>7, <1>12 DEF Leaves
<1>20. /\ Frame(p) /\ Passes(p, v) /\ st'[p] = Count(t)
       /\ p = ALICE =>
            chan'[ALICE] = Append(chan[ALICE], Message(op, c))
       /\ p = BOB => /\ chan[ALICE] # <<>>
                     /\ chan'[ALICE] = Tail(chan[ALICE])
                     /\ Head(chan[ALICE]).kind = op
  BY <1>1, <1>10, <1>12, <1>15, <1>17, <1>18, <1>19, <1>25, TransferFrame
<1>21. Count(t).out = "running" /\ Count(t).garbled = garbled
       /\ Count(t).pool = t.pool /\ Count(t).pointer = t.pointer
  <2>1. Count(t).garbled = t.garbled
    BY <1>12 DEF Count, States
  <2> QED
    BY <2>1, <1>12, Unchanged
<1>22. Moved(p, v)
  <2>1. Current(v).op # "report"
    BY <1>1 DEF MaskedOps
  <2> QED
    BY <2>1, <1>14, <1>20, <1>21 DEF Moved
<1>23. Taken(Count(t)) = Taken(st[p]) + 1
  <2>1. /\ Count(t).pool = st[p].pool /\ Count(t).pointer = st[p].pointer + 1
        /\ st[p].pool \in Nat /\ st[p].pointer \in Nat
    <3>1. st[p].pool \in Nat
      BY <1>1 DEF States
    <3>2. st[p].pointer = v.pointer /\ v.pointer \in Nat
      BY <1>7, <1>9, PartiesProperties
    <3>3. Count(t).pointer = v.pointer + 1 /\ Count(t).pool = st[p].pool
      BY <1>7, <1>12, <1>21 DEF pointer
    <3> QED
      BY <3>1, <3>2, <3>3
  <2>2. st[p].pool * PoolSize \in Nat
    BY <2>1, PartiesProperties
  <2>3. /\ Taken(Count(t)) = st[p].pool * PoolSize + (st[p].pointer + 1)
        /\ Taken(st[p]) = st[p].pool * PoolSize + st[p].pointer
    BY <2>1 DEF Taken, Number, Correlation
  <2> HIDE DEF own
  <2> QED
    BY <2>1, <2>2, <2>3
<1>24. Correlations(p)
  <2>1. CASE p = ALICE
    <3> DEFINE m == Message(op, c)
    <3>1. m.kind = op /\ m.value = own /\ m \in Messages
      BY <2>1, <1>17 DEF Message
    <3>2. chan'[ALICE] = Append(chan[ALICE], m)
      BY <2>1, <1>20
    <3> HIDE DEF m
    <3> QED
      BY <2>1, <3>1, <3>2, <1>20, <1>23 DEF Correlations, own
  <2>2. CASE p = BOB
    <3>1. c = Head(chan[ALICE]).value
      BY <2>2, <1>1 DEF c, Passed
    <3>2. garbled => st[p].garbled \/ c # own
      BY <1>7 DEF garbled
    <3>3. ~ Exhausted(st[p])
      BY <1>1, ReadyProperties
    <3> QED
      BY <2>2, <3>1, <3>2, <3>3, <1>20, <1>21, <1>23
         DEF Correlations, own
  <2> QED
    BY <1>1, <2>1, <2>2
<1> QED
  BY <1>20, <1>22, <1>24 DEF Outcome

LEMMA MaskedSteps ==
  ASSUME NEW p, NEW v, Ready(p, v),
         Coefficient(p) \/ One(p) \/ MaskedInverse(p)
  PROVE  Outcome(p, v)
BY MaskedStep DEF Coefficient, One, MaskedInverse, MaskedOps

LEMMA ExtendStep ==
  ASSUME NEW p, NEW v, Ready(p, v), Extend(p)
  PROVE  Outcome(p, v)
<1> DEFINE m == Message("extend", 0)
           x == Count(st[p])
           t == [x EXCEPT !.extending = TRUE]
           c == Count(v)
           w == [c EXCEPT !.extending = TRUE]
<1>1. /\ p \in {ALICE, BOB} /\ p \in Parties /\ ALICE # BOB
      /\ Parties = {ALICE, BOB}
      /\ st[p] \in States /\ v \in States /\ st[p].out = "running"
      /\ st \in [Parties -> States] /\ chan \in [Parties -> Seq(Messages)]
      /\ Replies /\ st[p].base <= st[p].put /\ st[p].drawn = v.drawn
      /\ Good(v) /\ Alike(st[p], v)
      /\ Current(v).op \in MaskedOps /\ Exhausted(v) /\ ~ v.extending
      /\ Kind(v) = "extend"
  BY ReadyProperties, PartiesProperties, KindCases
     DEF Ready, Extend, Doing, Types
<1>2. /\ st' = [st EXCEPT ![p] = t] /\ run' = run
      /\ chan' = [chan EXCEPT ![p] = Append(@, m)]
  BY DEF Extend
<1>3. Onward(v) = w
  BY <1>1, OnwardCases DEF OnwardMasked, MaskedOps
<1>4. /\ x \in States /\ c \in States /\ Alike(x, c)
      /\ x.out = "running" /\ x.base = st[p].base /\ x.put = st[p].put
      /\ x.pool = st[p].pool /\ x.pointer = st[p].pointer
      /\ x.drawn = st[p].drawn
  BY <1>1, CountType, AlikeCount, Unchanged
<1>5. x.garbled = st[p].garbled
  BY <1>1 DEF Count, States
<1> HIDE DEF x, c
<1>6. /\ t \in States /\ w \in States /\ Alike(t, w) /\ t.out = "running"
      /\ t.base = x.base /\ t.put = x.put /\ t.pool = x.pool
      /\ t.pointer = x.pointer /\ t.drawn = x.drawn
      /\ t.garbled = x.garbled
  BY <1>4 DEF States, Alike
<1>7. m \in Messages /\ m.kind = "extend"
  <2>1. m.kind = "extend"
    BY DEF Message
  <2> QED
    BY <2>1, MessageTypes
<1> HIDE DEF t, w, m
<1>8. /\ st' \in [Parties -> States] /\ st'[p] = t
      /\ st'[Peer(p)] = st[Peer(p)]
  BY <1>1, <1>2, <1>6, PartiesProperties
<1>9. /\ chan' \in [Parties -> Seq(Messages)]
      /\ p = ALICE => /\ chan'[ALICE] = Append(chan[ALICE], m)
                      /\ chan'[BOB] = chan[BOB]
      /\ p = BOB => /\ chan'[BOB] = Append(chan[BOB], m)
                    /\ chan'[ALICE] = chan[ALICE]
  <2>1. Append(chan[p], m) \in Seq(Messages)
    BY <1>1, <1>7
  <2> QED
    BY <2>1, <1>1, <1>2
<1>10. Replies'
  <2>1. CASE p = ALICE
    BY <2>1, <1>1, <1>9 DEF Replies
  <2>2. CASE p = BOB
    <3>1. chan'[BOB] = Append(chan[BOB], m) /\ chan[BOB] \in Seq(Messages)
      BY <2>2, <1>1, <1>9
    <3>2. \A k \in DOMAIN chan[BOB] : chan[BOB][k].kind = "extend"
      BY <1>1 DEF Replies
    <3>3. \A k \in DOMAIN Append(chan[BOB], m) :
            Append(chan[BOB], m)[k].kind = "extend"
      BY <3>1, <3>2, <1>7
    <3> QED
      BY <3>1, <3>3 DEF Replies
  <2> QED
    BY <1>1, <2>1, <2>2
<1>11. p = BOB /\ BlocksTrue => BlocksTrue'
  BY <1>2, <1>4, <1>6, <1>8 DEF BlocksTrue
<1>12. Frame(p)
  <2>1. Leaves(p, st'[p])
    BY <1>6, <1>8 DEF Leaves
  <2> QED
    BY <2>1, <1>1, <1>2, <1>4, <1>6, <1>8, <1>9, <1>10, <1>11 DEF Frame
<1>13. Passes(p, v)
  <2>1. Sends(v) /\ ~ Receives(v)
    BY <1>1 DEF Sends, Receives
  <2>2. CASE p = ALICE
    <3>1. /\ m \in Messages /\ m.kind = Kind(v)
          /\ m.kind = "length" => m.value = ChainAt(v)
          /\ chan'[ALICE] = Append(chan[ALICE], m)
      BY <2>2, <1>1, <1>7, <1>9
    <3> QED
      BY <2>1, <2>2, <3>1 DEF Passes
  <2>3. CASE p = BOB
    BY <2>1, <2>3, <1>1, <1>9 DEF Passes
  <2> QED
    BY <1>1, <2>2, <2>3
<1>14. Taken(t) = Taken(st[p])
  BY <1>4, <1>6 DEF Taken, Correlation
<1>15. Correlations(p)
  <2>1. CASE p = ALICE
    <3>1. m.kind \notin MaskedOps
      BY <1>7 DEF MaskedOps
    <3> QED
      BY <2>1, <3>1, <1>7, <1>8, <1>9, <1>14 DEF Correlations
  <2>2. CASE p = BOB
    BY <2>2, <1>5, <1>6, <1>8, <1>9, <1>14 DEF Correlations
  <2> QED
    BY <1>1, <2>1, <2>2
<1>16. Moved(p, v)
  <2>1. Current(v).op # "report"
    BY <1>1 DEF MaskedOps
  <2>2. t.drawn = w.drawn
    BY <1>6 DEF Alike
  <2> QED
    BY <2>1, <2>2, <1>3, <1>6, <1>8, <1>13 DEF Moved
<1> QED
  BY <1>12, <1>15, <1>16 DEF Outcome

LEMMA ExtendedStep ==
  ASSUME NEW p, NEW v, Ready(p, v), Extended(p)
  PROVE  Outcome(p, v)
<1> DEFINE x == Count(st[p])
           c == Count(v)
           pool == v.pool + 1
           t == [x EXCEPT !.extending = FALSE, !.pool = pool, !.pointer = 0]
           w == [c EXCEPT !.extending = FALSE, !.pool = pool, !.pointer = 0]
<1>1. /\ p \in {ALICE, BOB} /\ p \in Parties /\ ALICE # BOB
      /\ Parties = {ALICE, BOB}
      /\ Peer(ALICE) = BOB /\ Peer(BOB) = ALICE
      /\ st[p] \in States /\ v \in States /\ st[p].out = "running"
      /\ st \in [Parties -> States] /\ chan \in [Parties -> Seq(Messages)]
      /\ Replies /\ st[p].base <= st[p].put /\ st[p].drawn = v.drawn
      /\ Good(v) /\ Alike(st[p], v) /\ v.extending
  BY ReadyProperties, PartiesProperties DEF Ready, Extended, Types
<1>2. Current(v).op \in MaskedOps /\ Exhausted(v)
  BY <1>1 DEF Good
<1>3. /\ chan[Peer(p)] # <<>> /\ Head(chan[Peer(p)]).kind = "extend"
      /\ chan' = [chan EXCEPT ![Peer(p)] = Tail(@)] /\ run' = run
  BY DEF Extended
<1>4. /\ x \in States /\ c \in States /\ Alike(x, c)
      /\ x.out = "running" /\ x.base = st[p].base /\ x.put = st[p].put
      /\ x.pool = st[p].pool /\ x.pointer = st[p].pointer
      /\ x.drawn = st[p].drawn /\ c.pool = v.pool
  BY <1>1, CountType, AlikeCount, Unchanged
<1>5. x.garbled = st[p].garbled
  BY <1>1 DEF Count, States
<1>6. /\ st[p].pool = v.pool /\ v.pool \in Nat /\ pool \in Nat
      /\ st[p].pointer = PoolSize /\ 0 \in 0 .. PoolSize
  <2>1. /\ st[p].pool = v.pool /\ st[p].pointer = v.pointer
        /\ v.pool \in Nat
    BY <1>1 DEF Alike, States
  <2>2. v.pointer = PoolSize
    BY <1>2 DEF Exhausted
  <2> QED
    BY <2>1, <2>2, PartiesProperties
<1>7. st' = [st EXCEPT ![p] = t]
  <2>1. st' = [st EXCEPT ![p] = [x EXCEPT !.extending = FALSE,
                                   !.pool = x.pool + 1, !.pointer = 0]]
    BY DEF Extended
  <2> HIDE DEF x
  <2> QED
    BY <2>1, <1>4, <1>6
<1>8. Onward(v) = w
  <2>1. Onward(v) = [c EXCEPT !.extending = FALSE, !.pool = c.pool + 1,
                              !.pointer = 0]
    BY <1>1, <1>2, OnwardCases DEF OnwardMasked, MaskedOps
  <2> HIDE DEF c
  <2> QED
    BY <2>1, <1>4
<1> HIDE DEF x, c, pool
<1>9. /\ t \in States /\ w \in States /\ Alike(t, w) /\ t.out = "running"
      /\ t.base = x.base /\ t.put = x.put /\ t.pool = pool
      /\ t.pointer = 0 /\ t.drawn = x.drawn
      /\ t.garbled = x.garbled
  BY <1>4, <1>6 DEF States, Alike
<1> HIDE DEF t, w
<1>10. /\ st' \in [Parties -> States] /\ st'[p] = t
       /\ st'[Peer(p)] = st[Peer(p)]
  BY <1>1, <1>7, <1>9
<1>11. /\ chan' \in [Parties -> Seq(Messages)]
       /\ p = ALICE => /\ chan'[BOB] = Tail(chan[BOB])
                       /\ chan'[ALICE] = chan[ALICE]
       /\ p = BOB => /\ chan'[ALICE] = Tail(chan[ALICE])
                     /\ chan'[BOB] = chan[BOB]
  <2>1. Tail(chan[Peer(p)]) \in Seq(Messages)
    BY <1>1, <1>3
  <2> QED
    BY <2>1, <1>1, <1>3
<1>12. Replies'
  <2>1. CASE p = BOB
    BY <2>1, <1>1, <1>11 DEF Replies
  <2>2. CASE p = ALICE
    <3>1. /\ chan'[BOB] = Tail(chan[BOB]) /\ chan[BOB] \in Seq(Messages)
          /\ chan[BOB] # <<>>
      BY <2>2, <1>1, <1>3, <1>11
    <3>2. \A k \in DOMAIN chan[BOB] : chan[BOB][k].kind = "extend"
      BY <1>1 DEF Replies
    <3>3. \A k \in DOMAIN Tail(chan[BOB]) :
            Tail(chan[BOB])[k].kind = "extend"
      BY <3>1, <3>2
    <3> QED
      BY <3>1, <3>3 DEF Replies
  <2> QED
    BY <1>1, <2>1, <2>2
<1>13. p = BOB /\ BlocksTrue => BlocksTrue'
  BY <1>3, <1>4, <1>9, <1>10 DEF BlocksTrue
<1>14. Frame(p)
  <2>1. Leaves(p, st'[p])
    BY <1>9, <1>10 DEF Leaves
  <2> QED
    BY <2>1, <1>1, <1>3, <1>4, <1>9, <1>10, <1>11, <1>12, <1>13 DEF Frame
<1>15. Passes(p, v)
  <2>1. ~ Sends(v) /\ Receives(v)
    BY <1>1 DEF Sends, Receives
  <2>2. CASE p = ALICE
    BY <2>1, <2>2, <1>1, <1>11 DEF Passes
  <2>3. CASE p = BOB
    BY <2>1, <2>3, <1>1, <1>3, <1>11 DEF Passes
  <2> QED
    BY <1>1, <2>2, <2>3
<1>16. Taken(t) = Taken(st[p])
  <2>1. /\ Taken(t) = (v.pool + 1) * PoolSize + 0
        /\ Taken(st[p]) = v.pool * PoolSize + PoolSize
    BY <1>6, <1>9 DEF Taken, Number, Correlation, pool
  <2>2. \A q, r \in Nat : (q + 1) * r + 0 = q * r + r
    OBVIOUS
  <2> QED
    BY <2>1, <2>2, <1>6, PartiesProperties
<1>17. Correlations(p)
  <2>1. CASE p = ALICE
    BY <2>1, <1>5, <1>9, <1>10, <1>11, <1>16 DEF Correlations
  <2>2. CASE p = BOB
    <3>1. Head(chan[ALICE]).kind \notin MaskedOps
      BY <2>2, <1>1, <1>3 DEF MaskedOps
    <3> QED
      BY <2>2, <3>1, <1>1, <1>3, <1>5, <1>9, <1>10, <1>11, <1>16
         DEF Correlations
  <2> QED
    BY <1>1, <2>1, <2>2
<1>18. Moved(p, v)
  <2>1. Current(v).op # "report"
    BY <1>2 DEF MaskedOps
  <2>2. t.drawn = w.drawn
    BY <1>9 DEF Alike
  <2> QED
    BY <2>1, <2>2, <1>8, <1>9, <1>10, <1>15 DEF Moved
<1> QED
  BY <1>14, <1>17, <1>18 DEF Outcome

LEMMA BrokenStep ==
  ASSUME NEW p, NEW v, Ready(p, v), Broken(p)
  PROVE  Outcome(p, v)
<1>1. Local(p, Fail(st[p], "broken"))
  BY DEF Broken
<1>2. Current(v).op # "report"
  <2>1. Current(v).op = "report" => Kind(v) = "none" /\ ~ v.extending
    BY KindCases DEF Ready, Good, MaskedOps
  <2>2. st[p].extending \/ Kind(st[p]) # "none"
    BY DEF Broken, Waiting, Receiving
  <2>3. st[p].extending = v.extending /\ Kind(st[p]) = Kind(v)
    BY ReadyProperties
  <2> QED
    BY <2>1, <2>2, <2>3
<1> QED
  BY <1>1, <1>2, LocalStopped DEF Outs

LEMMA ProverStopsStep ==
  ASSUME NEW v, Ready(ALICE, v), ProverStops
  PROVE  Outcome(ALICE, v)
<1>1. PICK stop \in {<<"clause", "width", "aborted">>,
                     <<"inv", "inverse", "error">>,
                     <<"resolve", "overflow", "aborted">>,
                     <<"witness", "witness", "aborted">>} :
        Doing(ALICE, stop[1]) /\ Local(ALICE, Fail(st[ALICE], stop[3]))
  BY DEF ProverStops
<1>2. stop[1] # "report" /\ stop[3] \in {"aborted", "error"}
  OBVIOUS
<1>3. Current(v).op # "report"
  BY <1>1, <1>2, ReadyProperties DEF Doing
<1> QED
  BY <1>1, <1>2, <1>3, LocalStopped DEF Outs

(* What a step of a running party can do.                                  *)
LEMMA StepOutcome ==
  ASSUME NEW p, NEW v, Ready(p, v),
         Step(p) \/ Broken(p) \/ (p = ALICE /\ ProverStops)
  PROVE  Outcome(p, v)
BY WordStep, HeaderStep, CallSteps, MaskedSteps, ExtendStep, ExtendedStep,
   BlockSteps, CompareStep, ChainStep, FetchStep, LogStep, DrawSteps,
   OrderStep, VerdictStep, SetStep, ReportStep, BrokenStep, ProverStopsStep
   DEF Step

LEMMA OnlyRunningSteps ==
  ASSUME NEW p, Step(p) \/ Broken(p) \/ (p = ALICE /\ ProverStops)
  PROVE  st[p].out = "running"
BY DEF Step, Broken, ProverStops, Doing, Word, Header, Clause, Coefficient,
   One, MaskedInverse, Masked, Extend, Extended, CheckSAT, Compare, Chain,
   Fetch, Get, Log, Resolve, Xres, Witness, Equal, Check, Challenge, Hash,
   Order, Verdict, SetEquality, Report

-----------------------------------------------------------------------------
(* The positions 0 .. n of a party that never fails: no message is         *)
(* received at a later position than the next one sent, none twice, and    *)
(* challenges are only added.                                              *)
Trace(t, n) ==
  /\ n \in Nat
  /\ \A j \in 0 .. n : Good(t[j])
  /\ \A j \in 0 .. n - 1 : /\ Current(t[j]).op # "report"
                           /\ t[j + 1] = Onward(t[j])
  /\ \A j, k \in 0 .. n :
       j < k => /\ Sent(t[j]) <= Received(t[k])
                /\ Receives(t[j]) => Received(t[j]) < Received(t[k])
                /\ Extends(t[j].drawn, t[k].drawn)

(* The party is at a position, or has ended there.                         *)
At(p, v) ==
  /\ st[p].drawn = v.drawn
  /\ st[p].out = "running" => Alike(st[p], v)
  /\ st[p].out = "ended" => Current(v).op = "report"
  /\ p = ALICE /\ st[p].out # "running" /\ Current(v).op = "report" =>
       st[p].out = "ended"

(* The prover is at position a of the trace, the verifier at position b,   *)
(* and the channel holds the messages sent before a and not received       *)
(* before b.                                                               *)
Synchrony(t, n, a, b) ==
  /\ a \in 0 .. n /\ b \in 0 .. n
  /\ At(ALICE, t[a]) /\ At(BOB, t[b])
  /\ Len(chan[ALICE]) = Sent(t[a]) - Received(t[b])
  /\ \A j \in b .. n :
       Receives(t[j]) /\ Received(t[j]) < Sent(t[a]) =>
         LET m == chan[ALICE][Received(t[j]) - Received(t[b]) + 1]
         IN  /\ m.kind = Kind(t[j])
             /\ m.kind = "length" => m.value = ChainAt(t[j])

LEMMA SameRun ==
  ASSUME run' = run
  PROVE  /\ States' = States /\ Messages' = Messages
         /\ \A v : /\ ChainAt(v)' = ChainAt(v)
                   /\ Onward(v)' = Onward(v)
                   /\ Good(v)' = Good(v)
<1>1. FileHeader' = FileHeader /\ Operation' = Operation
  BY DEF FileHeader, Operation, OpNames, Inner
<1>2. States' = States
  BY <1>1 DEF States, Outs
<1>3. Messages' = Messages
  BY <1>1 DEF Messages, MaskedOps
<1>4. ASSUME NEW v
      PROVE  ChainAt(v)' = ChainAt(v)
  BY DEF ChainAt, Current
<1>5. ASSUME NEW v
      PROVE  Good(v)' = Good(v)
  BY <1>2 DEF Good, Program, Exhausted, Current, MaskedOps, Inner
<1>6. ASSUME NEW v
      PROVE  Onward(v)' = Onward(v)
  <2>1. Body(FileHeader)' = Body(FileHeader)
    BY <1>1 DEF Body, Ops
  <2>2. ASSUME NEW l PROVE ChainBody(v, l)' = ChainBody(v, l)
    BY DEF ChainBody, Ops, Current
  <2> QED
    BY <1>4, <2>1, <2>2
       DEF Onward, OnwardMasked, Advance, Put, Draw, Count, Exhausted,
           CheckDue, CheckBody, XresBody, Current, Ops
<1> QED
  BY <1>2, <1>3, <1>4, <1>5, <1>6

LEMMA SameTrace ==
  ASSUME run' = run, NEW t, NEW n, Trace(t, n)
  PROVE  Trace(t, n)'
<1>1. \A v : Good(v)' = Good(v) /\ Onward(v)' = Onward(v)
  BY SameRun
<1> QED
  BY <1>1 DEF Trace, Current, Sent, Received, Receives, Extends, Kind,
              MaskedOps, Exhausted

LEMMA TraceNumbers ==
  ASSUME run \in Runs, NEW t, NEW n, Trace(t, n)
  PROVE  /\ n \in Nat
         /\ \A j \in 0 .. n : /\ Good(t[j])
                              /\ Sent(t[j]) \in Int /\ Received(t[j]) \in Int
                              /\ Received(t[j]) <= Sent(t[j])
                              /\ t[j].drawn \in Seq(Nat)
<1>1. \A j \in 0 .. n : t[j] \in States
  BY DEF Trace, Good
<1> QED
  BY <1>1, GoodProperties DEF Trace, States

LEMMA TraceSteps ==
  ASSUME run \in Runs, NEW t, NEW n, Trace(t, n), NEW j \in 0 .. n - 1
  PROVE  Progress(t[j], t[j + 1]) /\ j \in 0 .. n /\ j + 1 \in 0 .. n
<1>1. n \in Nat /\ j \in 0 .. n /\ j + 1 \in 0 .. n
  BY DEF Trace
<1>2. /\ Good(t[j]) /\ Current(t[j]).op # "report"
      /\ t[j + 1] = Onward(t[j])
  BY <1>1 DEF Trace
<1> QED
  BY <1>1, <1>2, OnwardProgress

LEMMA TraceGrows ==
  ASSUME run \in Runs, NEW t, NEW n, Trace(t, n),
         Current(t[n]).op # "report"
  PROVE  \E u : Trace(u, n + 1) /\ \A j \in 0 .. n : u[j] = t[j]
<1> DEFINE w == Onward(t[n])
           u == [j \in 0 .. n + 1 |-> IF j = n + 1 THEN w ELSE t[j]]
<1>1. n \in Nat /\ n + 1 \in Nat /\ n \in 0 .. n
  BY DEF Trace
<1>2. Progress(t[n], w)
  BY <1>1, OnwardProgress DEF Trace
<1>3. \A j \in 0 .. n : u[j] = t[j] /\ j \in 0 .. n + 1 /\ j # n + 1
  BY <1>1
<1>4. u[n + 1] = w
  BY <1>1
<1>5. \A j \in 0 .. n + 1 : j \in 0 .. n \/ j = n + 1
  BY <1>1
<1> HIDE DEF u, w
<1>6. \A j \in 0 .. n + 1 : Good(u[j])
  BY <1>2, <1>3, <1>4, <1>5 DEF Trace, Progress
<1>7. ASSUME NEW j \in 0 .. (n + 1) - 1
      PROVE  Current(u[j]).op # "report" /\ u[j + 1] = Onward(u[j])
  <2>1. j \in 0 .. n
    BY <1>1
  <2>2. CASE j = n
    BY <2>2, <1>1, <1>3, <1>4 DEF w
  <2>3. CASE j # n
    <3>1. j \in 0 .. n - 1 /\ j + 1 \in 0 .. n
      BY <2>1, <2>3, <1>1
    <3> QED
      BY <3>1, <2>1, <1>3 DEF Trace
  <2> QED
    BY <2>2, <2>3
<1>8. ASSUME NEW j \in 0 .. n + 1, NEW k \in 0 .. n + 1, j < k
      PROVE  /\ Sent(u[j]) <= Received(u[k])
             /\ Receives(u[j]) => Received(u[j]) < Received(u[k])
             /\ Extends(u[j].drawn, u[k].drawn)
  <2>1. j \in 0 .. n /\ u[j] = t[j]
    BY <1>1, <1>3, <1>8
  <2>2. CASE k \in 0 .. n
    BY <2>1, <2>2, <1>3, <1>8 DEF Trace
  <2>3. CASE k = n + 1
    <3>1. u[k] = w
      BY <2>3, <1>4
    <3>2. /\ Sent(w) \in Int /\ Received(w) \in Int /\ w.drawn \in Seq(Nat)
      BY <1>2, GoodProperties DEF Progress, Good, States
    <3>3. /\ Received(w) = Received(t[n]) + (IF Receives(t[n]) THEN 1 ELSE 0)
          /\ Sent(w) = Sent(t[n]) + (IF Sends(t[n]) THEN 1 ELSE 0)
          /\ Extends(t[n].drawn, w.drawn)
      BY <1>2 DEF Progress
    <3>4. /\ Sent(t[j]) \in Int /\ Received(t[j]) \in Int
          /\ Sent(t[n]) \in Int /\ Received(t[n]) \in Int
          /\ t[j].drawn \in Seq(Nat) /\ t[n].drawn \in Seq(Nat)
      BY <1>1, <2>1, TraceNumbers
    <3>5. CASE j = n
      <4>1. Sent(t[n]) <= Received(w)
        <5>1. CASE t[n].extending
          <6>1. Receives(t[n]) /\ Received(t[n]) = Sent(t[n]) - 1
            BY <5>1, <3>4 DEF Receives, Received
          <6> QED
            BY <6>1, <3>2, <3>3, <3>4
        <5>2. CASE ~ t[n].extending
          <6>1. Received(t[n]) = Sent(t[n])
            BY <5>2, <3>4 DEF Received
          <6> QED
            BY <6>1, <3>2, <3>3, <3>4
        <5> QED
          BY <5>1, <5>2
      <4>2. Receives(t[n]) => Received(t[n]) < Received(w)
        BY <3>2, <3>3, <3>4
      <4> QED
        BY <4>1, <4>2, <3>1, <3>3, <3>5, <2>1
    <3>6. CASE j < n
      <4>1. /\ Sent(t[j]) <= Received(t[n])
            /\ Receives(t[j]) => Received(t[j]) < Received(t[n])
            /\ Extends(t[j].drawn, t[n].drawn)
        BY <3>6, <2>1, <1>1 DEF Trace
      <4>2. Received(t[n]) <= Received(w)
        BY <3>2, <3>3, <3>4
      <4>3. Extends(t[j].drawn, w.drawn)
        BY <4>1, <3>2, <3>3, <3>4, ExtendsProperties
      <4>4. Sent(t[j]) <= Received(w)
        BY <4>1, <4>2, <3>2, <3>4
      <4>5. Receives(t[j]) => Received(t[j]) < Received(w)
        BY <4>1, <4>2, <3>2, <3>4
      <4> QED
        BY <4>3, <4>4, <4>5, <3>1, <2>1
    <3> QED
      BY <2>1, <1>1, <3>5, <3>6
  <2> QED
    BY <1>5, <2>2, <2>3
<1>9. Trace(u, n + 1)
  BY <1>1, <1>6, <1>7, <1>8 DEF Trace
<1> QED
  BY <1>3, <1>9

(* A trace can be taken to go beyond a position that is not the last.      *)
LEMMA SynchronyGrows ==
  ASSUME run \in Runs, NEW t, NEW n, NEW a, NEW b,
         Trace(t, n), Synchrony(t, n, a, b), Current(t[n]).op # "report"
  PROVE  \E u : /\ Trace(u, n + 1) /\ Synchrony(u, n + 1, a, b)
                /\ \A j \in 0 .. n : u[j] = t[j]
<1>1. PICK u : Trace(u, n + 1) /\ \A j \in 0 .. n : u[j] = t[j]
  BY TraceGrows
<1>2. /\ n \in Nat /\ a \in 0 .. n /\ b \in 0 .. n
      /\ a \in 0 .. n + 1 /\ b \in 0 .. n + 1 /\ n + 1 \in 0 .. n + 1
      /\ a < n + 1
  BY DEF Trace, Synchrony
<1>3. u[a] = t[a] /\ u[b] = t[b]
  BY <1>1, <1>2
<1>4. At(ALICE, u[a]) /\ At(BOB, u[b])
      /\ Len(chan[ALICE]) = Sent(u[a]) - Received(u[b])
  BY <1>3 DEF Synchrony
<1>5. ASSUME NEW j \in b .. n + 1, Receives(u[j]),
             Received(u[j]) < Sent(u[a])
      PROVE  LET m == chan[ALICE][Received(u[j]) - Received(u[b]) + 1]
             IN  /\ m.kind = Kind(u[j])
                 /\ m.kind = "length" => m.value = ChainAt(u[j])
  <2>1. j \in b .. n
    <3>1. Sent(u[a]) <= Received(u[n + 1])
      BY <1>1, <1>2 DEF Trace
    <3>2. Sent(u[a]) \in Int /\ Received(u[n + 1]) \in Int
      BY <1>1, <1>2, TraceNumbers
    <3>3. j # n + 1
      BY <3>1, <3>2, <1>5
    <3> QED
      BY <3>3, <1>2
  <2>2. j \in 0 .. n /\ u[j] = t[j]
    BY <2>1, <1>1, <1>2
  <2>3. Receives(t[j]) /\ Received(t[j]) < Sent(t[a])
    BY <2>2, <1>3, <1>5
  <2>4. LET m == chan[ALICE][Received(t[j]) - Received(t[b]) + 1]
        IN  /\ m.kind = Kind(t[j])
            /\ m.kind = "length" => m.value = ChainAt(t[j])
    BY <2>1, <2>3 DEF Synchrony
  <2> QED
    BY <2>2, <2>4, <1>3
<1>6. Synchrony(u, n + 1, a, b)
  BY <1>2, <1>4, <1>5 DEF Synchrony
<1> QED
  BY <1>1, <1>6

(* What the position says of a running party.                              *)
LEMMA PositionReady ==
  ASSUME Types, Replies, NEW t, NEW n, NEW a, NEW b,
         Trace(t, n), Synchrony(t, n, a, b), NEW p \in Parties,
         st[p].out = "running", st[p].base <= st[p].put
  PROVE  Ready(p, IF p = ALICE THEN t[a] ELSE t[b])
<1> DEFINE c == IF p = ALICE THEN a ELSE b
<1>1. /\ run \in Runs /\ chan[ALICE] \in Seq(Messages)
      /\ ALICE # BOB /\ p \in {ALICE, BOB}
  BY PartiesProperties DEF Types
<1>2. c \in 0 .. n /\ b \in 0 .. n /\ a \in 0 .. n /\ At(p, t[c])
  BY <1>1 DEF Synchrony
<1>3. Good(t[c]) /\ Alike(st[p], t[c])
  BY <1>2 DEF Trace, At
<1>4. ASSUME p = BOB, Kind(t[c]) = "length", chan[ALICE] # <<>>
      PROVE  Head(chan[ALICE]).value = ChainAt(t[c])
  <2>1. Len(chan[ALICE]) > 0 /\ Head(chan[ALICE]) = chan[ALICE][1]
    BY <1>1, <1>4
  <2>2. c = b /\ Sent(t[a]) \in Int /\ Received(t[b]) \in Int /\ b \in b .. n
    BY <1>1, <1>2, <1>4, TraceNumbers
  <2>3. Receives(t[b])
    BY <2>2, <1>4 DEF Receives
  <2>4. Received(t[b]) < Sent(t[a])
    BY <2>1, <2>2 DEF Synchrony
  <2>5. Received(t[b]) - Received(t[b]) + 1 = 1
    BY <2>2
  <2>6. chan[ALICE][1].kind = Kind(t[b]) /\
        (chan[ALICE][1].kind = "length" =>
           chan[ALICE][1].value = ChainAt(t[b]))
    BY <2>2, <2>3, <2>4, <2>5 DEF Synchrony
  <2> QED
    BY <2>1, <2>2, <2>6, <1>4
<1>5. Ready(p, t[c])
  BY <1>3, <1>4 DEF Ready
<1> QED
  BY <1>5

LEMMA TraceOrder ==
  ASSUME run \in Runs, NEW t, NEW n, Trace(t, n),
         NEW j \in 0 .. n, NEW k \in 0 .. n, j <= k
  PROVE  Received(t[j]) <= Received(t[k]) /\ Sent(t[j]) <= Sent(t[k])
<1>1. /\ Sent(t[j]) \in Int /\ Received(t[j]) \in Int
      /\ Sent(t[k]) \in Int /\ Received(t[k]) \in Int
      /\ Received(t[j]) <= Sent(t[j]) /\ Received(t[k]) <= Sent(t[k])
      /\ n \in Nat
  BY TraceNumbers
<1>2. CASE j = k
  BY <1>1, <1>2
<1>3. CASE j < k
  <2>1. Sent(t[j]) <= Received(t[k])
    BY <1>3 DEF Trace
  <2> QED
    BY <1>1, <2>1
<1> QED
  BY <1>1, <1>2, <1>3

LEMMA ProverMoves ==
  ASSUME Types, NEW t, NEW n, NEW a, NEW b,
         Trace(t, n), Synchrony(t, n, a, b), a # n,
         Frame(ALICE), Moved(ALICE, t[a])
  PROVE  Synchrony(t, n, a + 1, b)'
<1>1. /\ run \in Runs /\ chan[ALICE] \in Seq(Messages)
      /\ ALICE # BOB /\ Peer(ALICE) = BOB
  BY PartiesProperties DEF Types
<1>2. /\ n \in Nat /\ a \in 0 .. n /\ b \in 0 .. n /\ a \in 0 .. n - 1
      /\ a + 1 \in 0 .. n
  BY DEF Trace, Synchrony
<1>3. Progress(t[a], t[a + 1]) /\ t[a + 1] = Onward(t[a])
  BY <1>1, <1>2, TraceSteps DEF Trace
<1>4. /\ run' = run /\ st'[BOB] = st[BOB]
  BY <1>1 DEF Frame
<1>5. At(ALICE, t[a + 1])'
  <2>1. /\ st'[ALICE].drawn = t[a + 1].drawn
        /\ IF st'[ALICE].out = "running" THEN Alike(st'[ALICE], t[a + 1])
           ELSE st'[ALICE].out # "ended" /\ Current(t[a]).op # "set"
    BY <1>3 DEF Moved
  <2>2. Current(t[a + 1]).op = "report" => Current(t[a]).op = "set"
    BY <1>3 DEF Progress
  <2> QED
    BY <2>1, <2>2 DEF At, Alike, Current
<1>6. At(BOB, t[b])'
  BY <1>1, <1>4 DEF Synchrony, At, Alike, Current
<1> DEFINE M == Sent(t[a])
           R == Received(t[b])
           L == Len(chan[ALICE])
<1>7. /\ M \in Int /\ R \in Int /\ L \in Nat /\ L = M - R
      /\ \A j \in 0 .. n : Received(t[j]) \in Int /\ Sent(t[j]) \in Int
  <2>1. \A j \in 0 .. n : Received(t[j]) \in Int /\ Sent(t[j]) \in Int
    BY <1>1, TraceNumbers
  <2>2. L = M - R
    BY DEF Synchrony
  <2>3. L \in Nat
    BY <1>1
  <2> QED
    BY <2>1, <2>2, <2>3, <1>2
<1>8. \A j \in b .. n : j \in 0 .. n /\ R <= Received(t[j])
  <2>1. \A j \in b .. n : j \in 0 .. n /\ b <= j
    BY <1>2
  <2> QED
    BY <2>1, <1>1, <1>2, TraceOrder
<1>9. Sent(t[a + 1]) = M + (IF Sends(t[a]) THEN 1 ELSE 0)
  BY <1>3 DEF Progress
<1>10. \A j \in b .. n :
         Receives(t[j]) /\ Received(t[j]) < M =>
           LET m == chan[ALICE][Received(t[j]) - R + 1]
           IN  /\ m.kind = Kind(t[j])
               /\ m.kind = "length" => m.value = ChainAt(t[j])
  BY DEF Synchrony
<1>11. Passes(ALICE, t[a])
  BY DEF Moved
<1>12. /\ Len(chan'[ALICE]) = Sent(t[a + 1]) - R
       /\ \A j \in b .. n :
            Receives(t[j]) /\ Received(t[j]) < Sent(t[a + 1]) =>
              LET m == chan'[ALICE][Received(t[j]) - R + 1]
              IN  /\ m.kind = Kind(t[j])
                  /\ m.kind = "length" => m.value = ChainAt(t[j])
  <2>1. CASE ~ Sends(t[a])
    <3>1. chan'[ALICE] = chan[ALICE] /\ Sent(t[a + 1]) = M
      BY <2>1, <1>1, <1>7, <1>9, <1>11 DEF Passes
    <3> HIDE DEF M, R
    <3> QED
      BY <3>1, <1>7, <1>10
  <2>2. CASE Sends(t[a])
    <3>1. PICK m \in Messages :
            /\ m.kind = Kind(t[a])
            /\ m.kind = "length" => m.value = ChainAt(t[a])
            /\ chan'[ALICE] = Append(chan[ALICE], m)
      BY <2>2, <1>1, <1>11 DEF Passes
    <3>2. Sent(t[a + 1]) = M + 1
      BY <2>2, <1>9
    <3>3. /\ Len(chan'[ALICE]) = L + 1
          /\ chan'[ALICE][L + 1] = m
          /\ \A i \in 1 .. L : chan'[ALICE][i] = chan[ALICE][i]
      BY <3>1, <1>1
    <3>4. Len(chan'[ALICE]) = Sent(t[a + 1]) - R
      BY <3>2, <3>3, <1>7
    <3>5. ASSUME NEW j \in b .. n, Receives(t[j]), Received(t[j]) < M + 1
          PROVE  LET o == chan'[ALICE][Received(t[j]) - R + 1]
                 IN  /\ o.kind = Kind(t[j])
                     /\ o.kind = "length" => o.value = ChainAt(t[j])
      <4>1. /\ j \in 0 .. n /\ Received(t[j]) \in Int
            /\ R <= Received(t[j])
        BY <1>7, <1>8
      <4>2. CASE Received(t[j]) < M
        <5>1. Received(t[j]) - R + 1 \in 1 .. L
          BY <4>1, <4>2, <1>7
        <5>2. chan'[ALICE][Received(t[j]) - R + 1]
                = chan[ALICE][Received(t[j]) - R + 1]
          BY <5>1, <3>3
        <5> QED
          BY <5>2, <4>2, <3>5, <1>10
      <4>3. CASE Received(t[j]) = M
        <5>1. chan'[ALICE][Received(t[j]) - R + 1] = m
          <6>1. Received(t[j]) - R + 1 = L + 1
            BY <4>3, <1>7
          <6> QED
            BY <6>1, <3>3
        <5>2. ~ (j < a)
          <6>1. j < a => Received(t[j]) < Received(t[a])
            BY <4>1, <1>2, <3>5 DEF Trace
          <6>2. Received(t[a]) <= M /\ Received(t[a]) \in Int
            BY <1>1, <1>2, TraceNumbers
          <6> QED
            BY <6>1, <6>2, <4>1, <4>3, <1>7
        <5>3. ~ (j > a + 1)
          <6>1. j > a + 1 => Sent(t[a + 1]) <= Received(t[j])
            BY <4>1, <1>2 DEF Trace
          <6> QED
            BY <6>1, <3>2, <4>3, <1>7
        <5>4. j = a \/ j = a + 1
          BY <5>2, <5>3, <4>1, <1>2
        <5>5. CASE j = a
          BY <5>1, <5>5, <3>1
        <5>6. CASE j = a + 1
          <6>1. /\ ~ t[a].extending /\ Kind(t[a]) # "none"
                /\ Received(t[a]) = M - 0
            BY <2>2 DEF Sends, Received
          <6>2. /\ Received(t[a + 1]) = Received(t[a])
                                  + (IF Receives(t[a]) THEN 1 ELSE 0)
            BY <1>3 DEF Progress
          <6>3. ~ Receives(t[a])
            BY <6>1, <6>2, <5>6, <4>3, <1>7
          <6>4. Kind(t[a]) = "extend"
            BY <6>1, <6>3 DEF Receives
          <6>5. t[a + 1].extending
            <7>1. ~ t[a + 1].extending =>
                     Received(t[a + 1]) = Sent(t[a + 1]) - 0
              BY DEF Received
            <7>2. Received(t[a + 1]) = M
              BY <5>6, <4>3
            <7> QED
              BY <7>1, <7>2, <3>2, <1>7
          <6>6. Kind(t[a + 1]) = "extend"
            BY <6>5, <1>2, KindCases DEF Trace, Good
          <6> QED
            BY <5>1, <5>6, <6>4, <6>6, <3>1
        <5> QED
          BY <5>4, <5>5, <5>6
      <4> QED
        BY <4>1, <4>2, <4>3, <3>5, <1>7
    <3> QED
      BY <3>2, <3>4, <3>5
  <2> QED
    BY <2>1, <2>2
<1>13. \A v : ChainAt(v)' = ChainAt(v)
  BY <1>4, SameRun
<1> QED
  BY <1>2, <1>5, <1>6, <1>12, <1>13
     DEF Synchrony, Sent, Received, Receives, Kind, MaskedOps, Exhausted,
         Current

LEMMA VerifierMoves ==
  ASSUME Types, NEW t, NEW n, NEW a, NEW b,
         Trace(t, n), Synchrony(t, n, a, b), b # n,
         Frame(BOB), Moved(BOB, t[b])
  PROVE  Synchrony(t, n, a, b + 1)'
<1>1. /\ run \in Runs /\ chan[ALICE] \in Seq(Messages)
      /\ ALICE # BOB /\ Peer(BOB) = ALICE
  BY PartiesProperties DEF Types
<1>2. /\ n \in Nat /\ a \in 0 .. n /\ b \in 0 .. n /\ b \in 0 .. n - 1
      /\ b + 1 \in 0 .. n
  BY DEF Trace, Synchrony
<1>3. Progress(t[b], t[b + 1]) /\ t[b + 1] = Onward(t[b])
  BY <1>1, <1>2, TraceSteps DEF Trace
<1>4. /\ run' = run /\ st'[ALICE] = st[ALICE]
  BY <1>1 DEF Frame
<1>5. At(BOB, t[b + 1])'
  <2>1. /\ st'[BOB].drawn = t[b + 1].drawn
        /\ IF st'[BOB].out = "running" THEN Alike(st'[BOB], t[b + 1])
           ELSE st'[BOB].out # "ended"
    BY <1>3 DEF Moved
  <2> QED
    BY <2>1, <1>1 DEF At, Alike, Current
<1>6. At(ALICE, t[a])'
  BY <1>1, <1>4 DEF Synchrony, At, Alike, Current
<1> DEFINE M == Sent(t[a])
           R == Received(t[b])
           S == Received(t[b + 1])
           L == Len(chan[ALICE])
<1>7. /\ M \in Int /\ R \in Int /\ S \in Int /\ L \in Nat /\ L = M - R
      /\ \A j \in 0 .. n : Received(t[j]) \in Int
  <2>1. \A j \in 0 .. n : Received(t[j]) \in Int /\ Sent(t[j]) \in Int
    BY <1>1, TraceNumbers
  <2>2. L = M - R
    BY DEF Synchrony
  <2>3. L \in Nat
    BY <1>1
  <2> QED
    BY <2>1, <2>2, <2>3, <1>2
<1>8. \A j \in b + 1 .. n : /\ j \in b .. n /\ j \in 0 .. n
                            /\ S <= Received(t[j])
  <2>1. \A j \in b + 1 .. n : j \in 0 .. n /\ b + 1 <= j /\ j \in b .. n
    BY <1>2
  <2> QED
    BY <2>1, <1>1, <1>2, TraceOrder
<1>9. S = R + (IF Receives(t[b]) THEN 1 ELSE 0)
  BY <1>3 DEF Progress
<1>10. \A j \in b .. n :
         Receives(t[j]) /\ Received(t[j]) < M =>
           LET m == chan[ALICE][Received(t[j]) - R + 1]
           IN  /\ m.kind = Kind(t[j])
               /\ m.kind = "length" => m.value = ChainAt(t[j])
  BY DEF Synchrony
<1>11. Passes(BOB, t[b])
  BY DEF Moved
<1> HIDE DEF M, R, S
<1>12. /\ Len(chan'[ALICE]) = M - S
       /\ \A j \in b + 1 .. n :
            Receives(t[j]) /\ Received(t[j]) < M =>
              LET m == chan'[ALICE][Received(t[j]) - S + 1]
              IN  /\ m.kind = Kind(t[j])
                  /\ m.kind = "length" => m.value = ChainAt(t[j])
  <2>1. CASE ~ Receives(t[b])
    <3>1. chan'[ALICE] = chan[ALICE] /\ S = R
      BY <2>1, <1>1, <1>7, <1>9, <1>11 DEF Passes
    <3> QED
      BY <3>1, <1>7, <1>8, <1>10
  <2>2. CASE Receives(t[b])
    <3>1. chan[ALICE] # <<>> /\ chan'[ALICE] = Tail(chan[ALICE])
      BY <2>2, <1>1, <1>11 DEF Passes
    <3>2. S = R + 1
      BY <2>2, <1>9
    <3>3. /\ Len(chan'[ALICE]) = L - 1
          /\ \A i \in 1 .. L - 1 : chan'[ALICE][i] = chan[ALICE][i + 1]
      BY <3>1, <1>1
    <3>4. Len(chan'[ALICE]) = M - S
      BY <3>2, <3>3, <1>7
    <3>5. ASSUME NEW j \in b + 1 .. n, Receives(t[j]), Received(t[j]) < M
          PROVE  chan'[ALICE][Received(t[j]) - S + 1]
                   = chan[ALICE][Received(t[j]) - R + 1]
      <4>1. Received(t[j]) \in Int /\ S <= Received(t[j])
        BY <1>7, <1>8
      <4>2. Received(t[j]) - S + 1 \in 1 .. L - 1
        BY <4>1, <3>2, <3>5, <1>7
      <4>3. (Received(t[j]) - S + 1) + 1 = Received(t[j]) - R + 1
        BY <4>1, <3>2, <1>7
      <4> HIDE DEF L
      <4> QED
        BY <4>2, <4>3, <3>3
    <3> QED
      BY <3>4, <3>5, <1>8, <1>10
  <2> QED
    BY <2>1, <2>2
<1>13. \A v : ChainAt(v)' = ChainAt(v)
  BY <1>4, SameRun
<1> QED
  BY <1>2, <1>5, <1>6, <1>12, <1>13
     DEF Synchrony, Sent, Received, Receives, Kind, MaskedOps, Exhausted,
         Current, M, S

LEMMA PartyStops ==
  ASSUME Types, NEW t, NEW n, NEW a, NEW b,
         Trace(t, n), Synchrony(t, n, a, b), NEW p \in Parties,
         Frame(p), Stopped(p, IF p = ALICE THEN t[a] ELSE t[b])
  PROVE  Synchrony(t, n, a, b)'
<1>1. /\ ALICE # BOB /\ Peer(BOB) = ALICE /\ Peer(ALICE) = BOB
      /\ p \in {ALICE, BOB}
  BY PartiesProperties
<1>2. run' = run /\ st'[Peer(p)] = st[Peer(p)] /\ chan'[ALICE] = chan[ALICE]
  BY DEF Frame, Stopped
<1>3. At(ALICE, t[a]) /\ At(BOB, t[b])
  BY DEF Synchrony
<1>4. At(ALICE, t[a])'
  <2>1. CASE p = ALICE
    BY <2>1, <1>3 DEF At, Stopped, Alike, Current
  <2>2. CASE p = BOB
    BY <2>2, <1>1, <1>2, <1>3 DEF At, Alike, Current
  <2> QED
    BY <1>1, <2>1, <2>2
<1>5. At(BOB, t[b])'
  <2>1. CASE p = BOB
    BY <2>1, <1>1, <1>3 DEF At, Stopped, Alike, Current
  <2>2. CASE p = ALICE
    BY <2>2, <1>1, <1>2, <1>3 DEF At, Alike, Current
  <2> QED
    BY <1>1, <2>1, <2>2
<1>6. \A v : ChainAt(v)' = ChainAt(v)
  BY <1>2, SameRun
<1>7. \A v : /\ Sent(v)' = Sent(v) /\ Received(v)' = Received(v)
             /\ Receives(v)' = Receives(v) /\ Kind(v)' = Kind(v)
  BY DEF Sent, Received, Receives, Kind, MaskedOps, Exhausted, Current
<1> QED
  BY <1>2, <1>4, <1>5, <1>6, <1>7 DEF Synchrony

-----------------------------------------------------------------------------
(* The correlations in flight.                                             *)
MaskedIn(c) == {m \in DOMAIN c : c[m].kind \in MaskedOps}

Before(c, m) == {k \in MaskedIn(c) : k < m}

InStep(c, ta, tb) ==
  /\ ta = tb + Cardinality(MaskedIn(c))
  /\ \A m \in MaskedIn(c) :
       Number(c[m].value) = tb + Cardinality(Before(c, m))

LEMMA MaskedFinite ==
  ASSUME NEW c \in Seq(Messages), NEW m
  PROVE  /\ MaskedIn(c) \subseteq 1 .. Len(c) /\ IsFiniteSet(MaskedIn(c))
         /\ Cardinality(MaskedIn(c)) \in Nat
         /\ Before(c, m) \subseteq MaskedIn(c) /\ IsFiniteSet(Before(c, m))
         /\ Cardinality(Before(c, m)) \in Nat
<1>1. IsFiniteSet(1 .. Len(c))
  <2>1. Len(c) \in Int /\ 1 \in Int
    OBVIOUS
  <2> QED
    BY <2>1, FS_Interval
<1>2. MaskedIn(c) \subseteq 1 .. Len(c) /\ Before(c, m) \subseteq MaskedIn(c)
  BY DEF MaskedIn, Before
<1>3. IsFiniteSet(MaskedIn(c)) /\ IsFiniteSet(Before(c, m))
  BY <1>1, <1>2, FS_Subset
<1> QED
  BY <1>2, <1>3, FS_CardinalityType

(* Y is a set X of indices after the first element is taken off.           *)
Shift(X, Y, n) ==
  /\ X \subseteq 1 .. n /\ Y \subseteq 1 .. n
  /\ \A k \in 1 .. n : k \in Y <=> k + 1 \in X

LEMMA Shifted ==
  ASSUME NEW n \in Nat, NEW X, NEW Y, Shift(X, Y, n)
  PROVE  /\ IsFiniteSet(Y) /\ Cardinality(Y) \in Nat
         /\ 1 \in X => Cardinality(X) = Cardinality(Y) + 1
         /\ 1 \notin X => Cardinality(X) = Cardinality(Y)
<1> DEFINE Z == X \ {1}
           f == [x \in Z |-> x - 1]
<1> USE DEF Shift
<1>1. IsFiniteSet(X)
  <2>1. IsFiniteSet(1 .. n)
    BY FS_Interval
  <2> QED
    BY <2>1, FS_Subset
<1>2. /\ IsFiniteSet(Z) /\ Cardinality(X) \in Nat
      /\ Cardinality(Z) = IF 1 \in X THEN Cardinality(X) - 1
                          ELSE Cardinality(X)
  BY <1>1, FS_RemoveElement, FS_CardinalityType
<1>3. f \in Bijection(Z, Y)
  <2>1. \A x \in Z : x \in Int /\ x - 1 \in 1 .. n /\ (x - 1) + 1 = x
    OBVIOUS
  <2>2. \A x \in Z : x - 1 \in Y
    BY <2>1
  <2>3. f \in [Z -> Y]
    BY <2>2
  <2>4. \A x, y \in Z : f[x] = f[y] => x = y
    BY <2>1
  <2>5. ASSUME NEW k \in Y
        PROVE  \E x \in Z : f[x] = k
    <3>1. k \in Int /\ k + 1 \in Z /\ (k + 1) - 1 = k
      OBVIOUS
    <3> QED
      BY <3>1
  <2> QED
    BY <2>3, <2>4, <2>5 DEF Bijection, Injection, Surjection, IsInjective
<1>4. IsFiniteSet(Y) /\ Cardinality(Y) = Cardinality(Z)
  <2>1. ExistsBijection(Z, Y)
    BY <1>3 DEF ExistsBijection
  <2> QED
    BY <2>1, <1>2, FS_Bijection
<1> HIDE DEF Z
<1>5. Cardinality(Y) \in Nat
  BY <1>4, FS_CardinalityType
<1> QED
  BY <1>2, <1>4, <1>5

LEMMA InStepAppend ==
  ASSUME NEW c \in Seq(Messages), NEW o \in Messages,
         NEW ta \in Nat, NEW tb \in Nat, InStep(c, ta, tb)
  PROVE  /\ o.kind \in MaskedOps /\ Number(o.value) = ta =>
              InStep(Append(c, o), ta + 1, tb)
         /\ o.kind \notin MaskedOps => InStep(Append(c, o), ta, tb)
<1> DEFINE n == Len(c)
           d == Append(c, o)
<1>1. /\ n \in Nat /\ DOMAIN d = 1 .. n + 1 /\ DOMAIN c = 1 .. n
      /\ d[n + 1] = o /\ \A k \in 1 .. n : d[k] = c[k]
  OBVIOUS
<1>2. \A m : /\ MaskedIn(c) \subseteq 1 .. n
             /\ Before(c, m) \subseteq MaskedIn(c)
  BY MaskedFinite
<1>3. IsFiniteSet(MaskedIn(c)) /\ Cardinality(MaskedIn(c)) \in Nat
  BY MaskedFinite
<1> HIDE DEF n, d
<1>4. /\ o.kind \in MaskedOps => MaskedIn(d) = MaskedIn(c) \cup {n + 1}
      /\ o.kind \notin MaskedOps => MaskedIn(d) = MaskedIn(c)
  BY <1>1 DEF MaskedIn
<1>5. ASSUME NEW m \in MaskedIn(c)
      PROVE  Number(d[m].value) = tb + Cardinality(Before(d, m))
  <2>1. m \in 1 .. n /\ m < n + 1 /\ d[m] = c[m]
    BY <1>1, <1>2
  <2>2. Before(d, m) = Before(c, m)
    BY <2>1, <1>1, <1>4 DEF Before
  <2> QED
    BY <2>1, <2>2 DEF InStep
<1>6. CASE o.kind \notin MaskedOps
  BY <1>4, <1>5, <1>6 DEF InStep, d
<1>7. CASE o.kind \in MaskedOps /\ Number(o.value) = ta
  <2>1. n + 1 \notin MaskedIn(c)
    BY <1>1, <1>2
  <2>2. Cardinality(MaskedIn(d)) = Cardinality(MaskedIn(c)) + 1
    BY <2>1, <1>3, <1>4, <1>7, FS_AddElement
  <2>3. Before(d, n + 1) = MaskedIn(c)
    BY <1>1, <1>2, <1>4, <1>7 DEF Before
  <2>4. ta = tb + Cardinality(MaskedIn(c))
    BY DEF InStep
  <2>5. Number(d[n + 1].value) = tb + Cardinality(Before(d, n + 1))
    BY <2>3, <2>4, <1>1, <1>7
  <2>6. ta + 1 = tb + Cardinality(MaskedIn(d))
    BY <2>2, <2>4, <1>3
  <2>7. \A m \in MaskedIn(d) :
          Number(d[m].value) = tb + Cardinality(Before(d, m))
    BY <2>5, <1>4, <1>5, <1>7
  <2> QED
    BY <2>6, <2>7, <1>7 DEF InStep, d
<1> QED
  BY <1>6, <1>7

LEMMA InStepTail ==
  ASSUME NEW c \in Seq(Messages), c # <<>>,
         NEW ta \in Nat, NEW tb \in Nat, InStep(c, ta, tb)
  PROVE  /\ Head(c).kind \in MaskedOps =>
              /\ Number(Head(c).value) = tb
              /\ InStep(Tail(c), ta, tb + 1)
         /\ Head(c).kind \notin MaskedOps => InStep(Tail(c), ta, tb)
<1> DEFINE n == Len(c)
           d == Tail(c)
           first == IF 1 \in MaskedIn(c) THEN 1 ELSE 0
<1>1. /\ n \in Nat /\ n >= 1 /\ DOMAIN d = 1 .. n - 1 /\ DOMAIN c = 1 .. n
      /\ Head(c) = c[1] /\ \A k \in 1 .. n - 1 : d[k] = c[k + 1]
      /\ d \in Seq(Messages)
  OBVIOUS
<1>2. \A m : /\ MaskedIn(c) \subseteq 1 .. n
             /\ Before(c, m) \subseteq MaskedIn(c)
             /\ Cardinality(Before(c, m)) \in Nat
  BY MaskedFinite
<1>3. 1 \in MaskedIn(c) <=> Head(c).kind \in MaskedOps
  BY <1>1 DEF MaskedIn
<1> HIDE DEF n, d
<1>4. MaskedIn(d) \subseteq 1 .. n
      /\ \A k \in 1 .. n : k \in MaskedIn(d) <=> k + 1 \in MaskedIn(c)
  BY <1>1 DEF MaskedIn
<1>5. /\ Cardinality(MaskedIn(c)) = Cardinality(MaskedIn(d)) + first
      /\ Cardinality(MaskedIn(d)) \in Nat
  <2>1. Shift(MaskedIn(c), MaskedIn(d), n)
    BY <1>2, <1>4 DEF Shift
  <2>2. /\ 1 \in MaskedIn(c) =>
             Cardinality(MaskedIn(c)) = Cardinality(MaskedIn(d)) + 1
        /\ 1 \notin MaskedIn(c) =>
             Cardinality(MaskedIn(c)) = Cardinality(MaskedIn(d))
        /\ Cardinality(MaskedIn(d)) \in Nat
    BY <2>1, <1>1, Shifted
  <2> QED
    BY <2>2
<1>6. ASSUME NEW m \in MaskedIn(d)
      PROVE  Number(d[m].value) = (tb + first) + Cardinality(Before(d, m))
  <2>1. m \in 1 .. n - 1 /\ m + 1 \in MaskedIn(c) /\ d[m] = c[m + 1]
    BY <1>1, <1>4 DEF MaskedIn
  <2>2. Before(d, m) \subseteq 1 .. n /\ Before(c, m + 1) \subseteq 1 .. n
    BY <1>2, <1>4 DEF Before
  <2>3. \A k \in 1 .. n : k \in Before(d, m) <=> k + 1 \in Before(c, m + 1)
    BY <2>1, <1>1, <1>4 DEF Before
  <2>4. 1 \in Before(c, m + 1) <=> 1 \in MaskedIn(c)
    BY <2>1, <1>1 DEF Before
  <2>5. /\ Cardinality(Before(c, m + 1))
             = Cardinality(Before(d, m)) + first
        /\ Cardinality(Before(d, m)) \in Nat
    <3>1. /\ 1 \in Before(c, m + 1) =>
               Cardinality(Before(c, m + 1)) = Cardinality(Before(d, m)) + 1
          /\ 1 \notin Before(c, m + 1) =>
               Cardinality(Before(c, m + 1)) = Cardinality(Before(d, m))
          /\ Cardinality(Before(d, m)) \in Nat
      <4>1. Shift(Before(c, m + 1), Before(d, m), n)
        BY <2>2, <2>3 DEF Shift
      <4> QED
        BY <4>1, <1>1, Shifted
    <3> QED
      BY <3>1, <2>4
  <2>6. Number(c[m + 1].value) = tb + Cardinality(Before(c, m + 1))
    BY <2>1 DEF InStep
  <2> QED
    BY <2>1, <2>5, <2>6
<1>7. ta = tb + Cardinality(MaskedIn(c))
  BY DEF InStep
<1>8. first \in Nat /\ ta = (tb + first) + Cardinality(MaskedIn(d))
  BY <1>5, <1>7
<1>9. InStep(d, ta, tb + first)
  BY <1>6, <1>8 DEF InStep
<1>10. 1 \in MaskedIn(c) => Number(Head(c).value) = tb
  <2>1. Before(c, 1) = {}
    <3>1. MaskedIn(c) \subseteq 1 .. n
      BY <1>2
    <3>2. \A k \in MaskedIn(c) : ~ (k < 1)
      BY <3>1, <1>1
    <3> QED
      BY <3>2 DEF Before
  <2>2. Cardinality(Before(c, 1)) = 0
    BY <2>1, FS_EmptySet
  <2> QED
    BY <2>2, <1>1 DEF InStep
<1>11. 1 \notin MaskedIn(c) => tb + first = tb
  OBVIOUS
<1> QED
  BY <1>3, <1>9, <1>10, <1>11 DEF d

LEMMA NumberUnique ==
  ASSUME NEW q1 \in Nat, NEW q2 \in Nat,
         NEW r1 \in 0 .. PoolSize - 1, NEW r2 \in 0 .. PoolSize - 1,
         q1 * PoolSize + r1 = q2 * PoolSize + r2
  PROVE  q1 = q2 /\ r1 = r2
<1>1. PoolSize \in Nat /\ PoolSize > 0
  BY PartiesProperties
<1>2. \A q, d \in Nat, r \in Nat : (q + d) * r = q * r + d * r /\ d * r \in Nat
  OBVIOUS
<1>3. \A d \in Nat : d >= 1 => d * PoolSize >= PoolSize
  <2>1. SUFFICES ASSUME NEW d \in Nat, d >= 1 PROVE d * PoolSize >= PoolSize
    OBVIOUS
  <2>2. d - 1 \in Nat /\ d = (d - 1) + 1
    BY <2>1
  <2>3. ((d - 1) + 1) * PoolSize = (d - 1) * PoolSize + 1 * PoolSize
        /\ (d - 1) * PoolSize \in Nat
    BY <2>2, <1>1, <1>2
  <2> QED
    BY <2>2, <2>3, <1>1
<1>4. ASSUME NEW q \in Nat, NEW s \in Nat, NEW r \in 0 .. PoolSize - 1,
             NEW u \in 0 .. PoolSize - 1, q < s
      PROVE  q * PoolSize + r < s * PoolSize + u
  <2>1. s - q \in Nat /\ s - q >= 1 /\ s = q + (s - q)
    BY <1>4
  <2>2. (q + (s - q)) * PoolSize = q * PoolSize + (s - q) * PoolSize
    BY <2>1, <1>1, <1>2
  <2>3. (s - q) * PoolSize >= PoolSize /\ (s - q) * PoolSize \in Nat
        /\ q * PoolSize \in Nat
    BY <2>1, <1>1, <1>2, <1>3
  <2>4. s * PoolSize = q * PoolSize + (s - q) * PoolSize
    BY <2>1, <2>2
  <2> QED
    BY <2>3, <2>4, <1>1
<1>5. ~ (q1 < q2) /\ ~ (q2 < q1)
  <2>1. q1 * PoolSize \in Nat /\ q2 * PoolSize \in Nat
    BY <1>1
  <2> QED
    BY <2>1, <1>4, <1>1
<1>6. q1 = q2
  BY <1>5
<1> QED
  BY <1>6, <1>1

-----------------------------------------------------------------------------
(* The inductive invariant.                                                *)
Inv ==
  /\ Types /\ Replies
  /\ \A p \in Parties : st[p].base <= st[p].put
  /\ BlocksTrue
  /\ InStep(chan[ALICE], Taken(st[ALICE]), Taken(st[BOB]))
  /\ ~ st[BOB].garbled
  /\ \E t, n, a, b : Trace(t, n) /\ Synchrony(t, n, a, b)

LEMMA TakenType ==
  ASSUME NEW s \in States
  PROVE  Taken(s) \in Nat
<1>1. /\ s.pool \in Nat /\ s.pointer \in Nat /\ PoolSize \in Nat
  BY PartiesProperties DEF States
<1>2. Taken(s) = s.pool * PoolSize + s.pointer
  BY DEF Taken, Number, Correlation
<1>3. \A x, y, z \in Nat : x * y + z \in Nat
  OBVIOUS
<1> QED
  BY <1>1, <1>2, <1>3

LEMMA CorrelationsKept ==
  ASSUME Types, NEW p \in Parties, Frame(p), Correlations(p),
         InStep(chan[ALICE], Taken(st[ALICE]), Taken(st[BOB])),
         ~ st[BOB].garbled
  PROVE  /\ InStep(chan'[ALICE], Taken(st'[ALICE]), Taken(st'[BOB]))
         /\ ~ st'[BOB].garbled
<1>1. /\ ALICE # BOB /\ Peer(BOB) = ALICE /\ Peer(ALICE) = BOB
      /\ p \in {ALICE, BOB} /\ st[ALICE] \in States /\ st[BOB] \in States
      /\ chan[ALICE] \in Seq(Messages)
  BY PartiesProperties DEF Types
<1>2. Taken(st[ALICE]) \in Nat /\ Taken(st[BOB]) \in Nat
  BY <1>1, TakenType
<1>3. st'[Peer(p)] = st[Peer(p)]
  BY DEF Frame
<1>4. CASE chan'[ALICE] = chan[ALICE] /\ Taken(st'[p]) = Taken(st[p])
           /\ st'[p].garbled = st[p].garbled
  BY <1>1, <1>3, <1>4
<1>5. ASSUME p = ALICE, NEW m \in Messages,
             chan'[ALICE] = Append(chan[ALICE], m),
             IF m.kind \in MaskedOps
             THEN /\ m.value = Correlation(st[ALICE])
                  /\ Taken(st'[ALICE]) = Taken(st[ALICE]) + 1
             ELSE Taken(st'[ALICE]) = Taken(st[ALICE])
      PROVE  /\ InStep(chan'[ALICE], Taken(st'[ALICE]), Taken(st'[BOB]))
             /\ ~ st'[BOB].garbled
  <2>1. st'[BOB] = st[BOB]
    BY <1>1, <1>3, <1>5
  <2>2. Number(Correlation(st[ALICE])) = Taken(st[ALICE])
    BY DEF Taken
  <2>3. CASE m.kind \in MaskedOps
    BY <2>1, <2>2, <2>3, <1>1, <1>2, <1>5, InStepAppend
  <2>4. CASE m.kind \notin MaskedOps
    BY <2>1, <2>4, <1>1, <1>2, <1>5, InStepAppend
  <2> QED
    BY <2>3, <2>4
<1>6. ASSUME p = BOB, chan[ALICE] # <<>>,
             chan'[ALICE] = Tail(chan[ALICE]),
             LET m == Head(chan[ALICE])
                 s == st[BOB]
                 t == st'[BOB]
             IN  IF m.kind \in MaskedOps
                 THEN /\ Taken(t) = Taken(s) + 1 /\ ~ Exhausted(s)
                      /\ t.garbled => s.garbled \/ m.value # Correlation(s)
                 ELSE Taken(t) = Taken(s) /\ t.garbled = s.garbled
      PROVE  /\ InStep(chan'[ALICE], Taken(st'[ALICE]), Taken(st'[BOB]))
             /\ ~ st'[BOB].garbled
  <2> DEFINE m == Head(chan[ALICE])
             s == st[BOB]
  <2>1. st'[ALICE] = st[ALICE] /\ m \in Messages
    BY <1>1, <1>3, <1>6
  <2>2. CASE m.kind \in MaskedOps
    <3>1. /\ Number(m.value) = Taken(s)
          /\ InStep(Tail(chan[ALICE]), Taken(st[ALICE]), Taken(s) + 1)
      BY <2>2, <1>1, <1>2, <1>6, InStepTail
    <3>2. m.value \in Nat \X (0 .. PoolSize - 1)
      BY <2>1, <2>2 DEF Messages, MaskedOps
    <3>3. s.pool \in Nat /\ s.pointer \in 0 .. PoolSize - 1
      <4>1. s.pool \in Nat /\ s.pointer \in 0 .. PoolSize
        BY <1>1 DEF States
      <4>2. s.pointer # PoolSize
        BY <2>2, <1>6 DEF Exhausted
      <4> QED
        BY <4>1, <4>2, PartiesProperties
    <3>4. m.value[1] \in Nat /\ m.value[2] \in 0 .. PoolSize - 1
          /\ m.value = <<m.value[1], m.value[2]>>
      BY <3>2
    <3>5. m.value[1] * PoolSize + m.value[2] = s.pool * PoolSize + s.pointer
      <4>1. Number(m.value) = m.value[1] * PoolSize + m.value[2]
        BY DEF Number
      <4>2. Taken(s) = s.pool * PoolSize + s.pointer
        BY DEF Taken, Number, Correlation
      <4> HIDE DEF m, s
      <4> QED
        BY <4>1, <4>2, <3>1
    <3>6. m.value[1] = s.pool /\ m.value[2] = s.pointer
      <4> HIDE DEF m, s
      <4> QED
        BY <3>3, <3>4, <3>5, NumberUnique
    <3>7. m.value = Correlation(s)
      BY <3>4, <3>6 DEF Correlation
    <3> QED
      BY <2>1, <2>2, <3>1, <3>7, <1>6
  <2>3. CASE m.kind \notin MaskedOps
    BY <2>1, <2>3, <1>1, <1>2, <1>6, InStepTail
  <2> QED
    BY <2>2, <2>3
<1>7. \/ /\ chan'[ALICE] = chan[ALICE]
         /\ Taken(st'[p]) = Taken(st[p])
         /\ st'[p].garbled = st[p].garbled
      \/ /\ p = ALICE
         /\ \E m \in Messages :
              /\ chan'[ALICE] = Append(chan[ALICE], m)
              /\ IF m.kind \in MaskedOps
                 THEN /\ m.value = Correlation(st[ALICE])
                      /\ Taken(st'[ALICE]) = Taken(st[ALICE]) + 1
                 ELSE Taken(st'[ALICE]) = Taken(st[ALICE])
      \/ /\ p = BOB
         /\ chan[ALICE] # <<>> /\ chan'[ALICE] = Tail(chan[ALICE])
         /\ LET m == Head(chan[ALICE])
                s == st[BOB]
                t == st'[BOB]
            IN  IF m.kind \in MaskedOps
                THEN /\ Taken(t) = Taken(s) + 1 /\ ~ Exhausted(s)
                     /\ t.garbled => s.garbled \/ m.value # Correlation(s)
                ELSE Taken(t) = Taken(s) /\ t.garbled = s.garbled
  BY DEF Correlations
<1> QED
  BY <1>4, <1>5, <1>6, <1>7

LEMMA InitInv ==
  Init => Inv
<1> SUFFICES ASSUME Init PROVE Inv
  OBVIOUS
<1> DEFINE word == Ops("word", run.witness)
           todo == word \o Ops("header", 1)
           head == [op |-> "header", times |-> 1]
           s == st[ALICE]
           r == st[BOB]
           t == [j \in 0 .. 0 |-> s]
<1>1. /\ run \in Runs /\ ALICE # BOB /\ Parties = {ALICE, BOB}
      /\ run.witness \in Nat /\ run.degree \in Nat
      /\ PoolSize \in Nat /\ 0 \in 0 .. PoolSize
  BY RunProperties, PartiesProperties DEF Init
<1>2. /\ word \in Seq(Operation) /\ head \in Operation
      /\ Ops("header", 1) = <<head>>
      /\ \A m \in 1 .. Len(word) : word[m].op = "word"
      /\ Len(word) \in Nat
  <2>1. word \in Seq(Operation)
    BY <1>1, OpsType DEF OpNames
  <2>2. \A m \in 1 .. Len(word) : word[m].op = "word"
    BY <1>1, OpsShape
  <2>3. head \in Operation /\ Ops("header", 1) = <<head>>
    BY DEF Operation, OpNames, Ops
  <2> QED
    BY <2>1, <2>2, <2>3
<1>3. todo \in Seq(Operation) /\ Program(todo, FALSE)
  <2>1. head = [op |-> "header", times |-> 1]
    OBVIOUS
  <2>2. todo = word \o <<head>>
    BY <1>2
  <2> HIDE DEF word, head, todo
  <2>3. /\ todo \in Seq(Operation) /\ Len(todo) = Len(word) + 1
        /\ todo[Len(word) + 1] = head
        /\ \A m \in 1 .. Len(word) : todo[m] = word[m]
    BY <2>2, <1>2
  <2> QED
    BY <2>1, <2>3, <1>2 DEF Program
<1>4. \A p \in Parties :
        st[p] = [todo |-> todo,
                 degree |-> IF p = ALICE THEN run.degree ELSE 4,
                 mem |-> 0, reads |-> 0, logged |-> 0,
                 pool |-> 0, pointer |-> 0, extending |-> FALSE,
                 put |-> 0, base |-> 0, drawn |-> <<>>, transcript |-> 0,
                 cheat |-> FALSE, garbled |-> FALSE, out |-> "running"]
  BY DEF Init
<1> HIDE DEF todo, word, head
<1>5. \A p \in Parties :
        /\ st[p].todo = todo /\ st[p].mem = 0 /\ st[p].reads = 0
        /\ st[p].logged = 0 /\ st[p].pool = 0 /\ st[p].pointer = 0
        /\ st[p].extending = FALSE /\ st[p].put = 0 /\ st[p].base = 0
        /\ st[p].drawn = <<>> /\ st[p].transcript = 0
        /\ ~ st[p].garbled /\ st[p].out = "running"
        /\ st[p] \in States
  <2> SUFFICES ASSUME NEW p \in Parties
               PROVE  /\ st[p].todo = todo /\ st[p].mem = 0
                      /\ st[p].reads = 0 /\ st[p].logged = 0
                      /\ st[p].pool = 0 /\ st[p].pointer = 0
                      /\ st[p].extending = FALSE /\ st[p].put = 0
                      /\ st[p].base = 0 /\ st[p].drawn = <<>>
                      /\ st[p].transcript = 0 /\ ~ st[p].garbled
                      /\ st[p].out = "running" /\ st[p] \in States
    OBVIOUS
  <2> DEFINE degree == IF p = ALICE THEN run.degree ELSE 4
  <2>1. degree \in Nat
    BY <1>1
  <2>2. st[p] = [todo |-> todo, degree |-> degree,
                 mem |-> 0, reads |-> 0, logged |-> 0,
                 pool |-> 0, pointer |-> 0, extending |-> FALSE,
                 put |-> 0, base |-> 0, drawn |-> <<>>, transcript |-> 0,
                 cheat |-> FALSE, garbled |-> FALSE, out |-> "running"]
    BY <1>4
  <2>3. <<>> \in Seq(Nat)
    OBVIOUS
  <2> HIDE DEF degree
  <2> QED
    BY <2>1, <2>2, <2>3, <1>1, <1>3 DEF States, Outs
<1>6. chan = [p \in Parties |-> <<>>] /\ st \in [Parties -> States]
  <2>1. DOMAIN st = Parties /\ st = [p \in Parties |-> st[p]]
    BY DEF Init
  <2> QED
    BY <2>1, <1>5 DEF Init
<1>7. chan[ALICE] = <<>> /\ chan[BOB] = <<>> /\ Types /\ Replies
  BY <1>1, <1>6 DEF Types, Replies
<1>8. Good(s) /\ s.drawn = <<>> /\ Sent(s) = 0 /\ Received(s) = 0
  <2>1. /\ s.todo = todo /\ s.mem = 0 /\ s.put = 0 /\ s.base = 0
        /\ s.transcript = 0 /\ s.pool = 0 /\ ~ s.extending
        /\ s \in States /\ s.drawn = <<>>
    BY <1>1, <1>5
  <2> HIDE DEF s
  <2>2. Program(s.todo, s.mem # 0)
    <3>1. (s.mem # 0) = FALSE
      BY <2>1
    <3> QED
      BY <2>1, <3>1, <1>3
  <2>3. Good(s)
    BY <2>1, <2>2 DEF Good
  <2>4. Sent(s) = 0
    BY <2>1 DEF Sent
  <2>5. Received(s) = 0
    <3>1. Received(s) = Sent(s) - 0
      BY <2>1 DEF Received
    <3> QED
      BY <2>4, <3>1
  <2> QED
    BY <2>1, <2>3, <2>4, <2>5
<1>9. Alike(s, s) /\ Alike(r, s)
  <2>1. ALICE \in Parties /\ BOB \in Parties
    BY <1>1
  <2>2. /\ s.todo = r.todo /\ s.mem = 0 /\ r.mem = 0
        /\ s.reads = r.reads /\ s.logged = r.logged /\ s.pool = r.pool
        /\ s.pointer = r.pointer /\ s.put = r.put /\ s.base = r.base
        /\ s.drawn = r.drawn /\ s.transcript = r.transcript
    BY <2>1, <1>5
  <2>3. s.extending = r.extending
    <3>1. s.extending = FALSE /\ r.extending = FALSE
      BY <2>1, <1>5
    <3> HIDE DEF s, r
    <3> QED
      BY <3>1
  <2> HIDE DEF s, r
  <2> QED
    BY <2>2, <2>3 DEF Alike
<1>10. t[0] = s
  OBVIOUS
<1> HIDE DEF t
<1>11. Trace(t, 0)
  <2>1. \A j \in 0 .. 0 : j = 0
    OBVIOUS
  <2> QED
    BY <2>1, <1>8, <1>10 DEF Trace
<1>12. Synchrony(t, 0, 0, 0)
  <2>1. At(ALICE, t[0]) /\ At(BOB, t[0])
    BY <1>1, <1>5, <1>9, <1>10 DEF At
  <2>2. \A j \in 0 .. 0 : ~ (Received(t[j]) < Sent(t[0]))
    BY <1>8, <1>10
  <2>3. Len(chan[ALICE]) = Sent(t[0]) - Received(t[0])
    BY <1>7, <1>8, <1>10
  <2> QED
    BY <2>1, <2>2, <2>3 DEF Synchrony
<1>13. InStep(chan[ALICE], Taken(s), Taken(r))
  <2>1. MaskedIn(<<>>) = {} /\ Cardinality({}) = 0
    BY FS_EmptySet DEF MaskedIn
  <2>2. Taken(s) = 0 /\ Taken(r) = 0
    BY <1>1, <1>5 DEF Taken, Number, Correlation
  <2> HIDE DEF s, r
  <2>3. MaskedIn(chan[ALICE]) = {}
    BY <2>1, <1>7
  <2>4. Taken(s) = Taken(r) + Cardinality(MaskedIn(chan[ALICE]))
    BY <2>1, <2>2, <2>3
  <2> QED
    BY <2>3, <2>4 DEF InStep
<1>14. BlocksTrue
  BY <1>1, <1>5 DEF BlocksTrue
<1> QED
  BY <1>1, <1>5, <1>7, <1>11, <1>12, <1>13, <1>14 DEF Inv

LEMMA PartyInv ==
  ASSUME Inv, NEW p \in Parties,
         Step(p) \/ Broken(p) \/ (p = ALICE /\ ProverStops)
  PROVE  Inv'
<1>1. PICK t, n, a, b : Trace(t, n) /\ Synchrony(t, n, a, b)
  BY DEF Inv
<1> DEFINE v == IF p = ALICE THEN t[a] ELSE t[b]
<1>2. /\ ALICE # BOB /\ Peer(BOB) = ALICE /\ Peer(ALICE) = BOB
      /\ p \in {ALICE, BOB} /\ run \in Runs /\ Parties = {ALICE, BOB}
  BY PartiesProperties DEF Inv, Types
<1>3. st[p].out = "running"
  BY OnlyRunningSteps
<1>4. Ready(p, v)
  BY <1>1, <1>3, PositionReady DEF Inv
<1> HIDE DEF v
<1>5. Outcome(p, v)
  BY <1>4, StepOutcome
<1>6. Frame(p) /\ Correlations(p)
  BY <1>5 DEF Outcome
<1>7. /\ run' = run /\ States' = States /\ Messages' = Messages
  BY <1>6, SameRun DEF Frame
<1>8. Types' /\ Replies'
  BY <1>2, <1>6, <1>7 DEF Types, Frame
<1>9. \A q \in Parties : st'[q].base <= st'[q].put
  BY <1>2, <1>6 DEF Frame, Inv
<1>10. BlocksTrue'
  <2>1. CASE p = BOB
    BY <2>1, <1>6 DEF Frame, Inv
  <2>2. CASE p = ALICE
    BY <2>2, <1>2, <1>6 DEF Frame, Inv, BlocksTrue
  <2> QED
    BY <1>2, <2>1, <2>2
<1>11. /\ InStep(chan'[ALICE], Taken(st'[ALICE]), Taken(st'[BOB]))
       /\ ~ st'[BOB].garbled
  BY <1>6, CorrelationsKept DEF Inv
<1>12. \E u, k, c, d : Trace(u, k)' /\ Synchrony(u, k, c, d)'
  <2>1. CASE Stopped(p, v)
    <3>1. Synchrony(t, n, a, b)'
      BY <2>1, <1>1, <1>6, PartyStops DEF Inv, v
    <3> QED
      BY <3>1, <1>1, <1>7, SameTrace
  <2>2. CASE Moved(p, v)
    <3>1. PICK u, k : /\ Trace(u, k) /\ Synchrony(u, k, a, b)
                      /\ v = IF p = ALICE THEN u[a] ELSE u[b]
                      /\ (IF p = ALICE THEN a ELSE b) # k
      <4> DEFINE c == IF p = ALICE THEN a ELSE b
      <4>1. /\ c \in 0 .. n /\ a \in 0 .. n /\ b \in 0 .. n /\ n \in Nat
            /\ v = t[c]
        BY <1>1 DEF Synchrony, Trace, v
      <4>2. CASE c # n
        BY <4>2, <1>1 DEF v
      <4>3. CASE c = n
        <5>1. Current(t[n]).op # "report"
          BY <2>2, <4>1, <4>3 DEF Moved
        <5>2. PICK u : /\ Trace(u, n + 1) /\ Synchrony(u, n + 1, a, b)
                       /\ \A j \in 0 .. n : u[j] = t[j]
          BY <5>1, <1>1, <1>2, SynchronyGrows
        <5>3. c # n + 1
          BY <4>1
        <5>4. u[a] = t[a] /\ u[b] = t[b]
          BY <4>1, <5>2
        <5> QED
          BY <5>2, <5>3, <5>4 DEF v
      <4> QED
        BY <4>2, <4>3
    <3>2. Trace(u, k)'
      BY <3>1, <1>7, SameTrace
    <3>3. CASE p = ALICE
      <4>1. Synchrony(u, k, a + 1, b)'
        BY <2>2, <3>1, <3>3, <1>6, ProverMoves DEF Inv
      <4> QED
        BY <3>2, <4>1
    <3>4. CASE p = BOB
      <4>1. Synchrony(u, k, a, b + 1)'
        BY <2>2, <3>1, <3>4, <1>2, <1>6, VerifierMoves DEF Inv
      <4> QED
        BY <3>2, <4>1
    <3> QED
      BY <1>2, <3>3, <3>4
  <2> QED
    BY <1>5, <2>1, <2>2 DEF Outcome
<1> QED
  BY <1>8, <1>9, <1>10, <1>11, <1>12
     DEF Inv, InStep, MaskedIn, Before, Taken, Number, Correlation, MaskedOps

LEMMA StutterInv ==
  ASSUME Inv, UNCHANGED vars
  PROVE  Inv'
<1>1. run' = run /\ st' = st /\ chan' = chan
  BY DEF vars
<1>2. PICK t, n, a, b : Trace(t, n) /\ Synchrony(t, n, a, b)
  BY DEF Inv
<1>3. /\ States' = States /\ Messages' = Messages
      /\ \A v : ChainAt(v)' = ChainAt(v)
  BY <1>1, SameRun
<1>4. Trace(t, n)'
  BY <1>1, <1>2, SameTrace
<1>5. Synchrony(t, n, a, b)'
  BY <1>1, <1>2, <1>3
     DEF Synchrony, At, Alike, Sent, Received, Receives, Kind, MaskedOps,
         Exhausted, Current
<1>6. Types' /\ Replies' /\ BlocksTrue'
  BY <1>1, <1>3 DEF Inv, Types, Replies, BlocksTrue
<1> QED
  BY <1>1, <1>4, <1>5, <1>6
     DEF Inv, InStep, MaskedIn, Before, Taken, Number, Correlation, MaskedOps

(* The invariant of the two processes: both follow one run of the program  *)
(* that never fails, and their channels and pools say how far apart they   *)
(* are on it.                                                              *)
THEOREM InvAlways ==
  Spec => []Inv
<1>1. Inv /\ [Next]_vars => Inv'
  <2>1. SUFFICES ASSUME Inv, [Next]_vars PROVE Inv'
    OBVIOUS
  <2>2. CASE UNCHANGED vars
    BY <2>1, <2>2, StutterInv
  <2>3. ASSUME NEW p \in Parties, Step(p) \/ Broken(p)
        PROVE  Inv'
    BY <2>1, <2>3, PartyInv
  <2>4. CASE ProverStops
    <3>1. ALICE \in Parties
      BY PartiesProperties
    <3> QED
      BY <2>1, <2>4, <3>1, PartyInv
  <2> QED
    BY <2>1, <2>2, <2>3, <2>4 DEF Next
<1> QED
  BY <1>1, InitInv, PTL DEF Spec

-----------------------------------------------------------------------------
(* What the invariant says of each of the runs' properties.                *)
LEMMA Placed ==
  ASSUME Inv, NEW t, NEW n, NEW a, NEW b,
         Trace(t, n), Synchrony(t, n, a, b)
  PROVE  /\ run \in Runs /\ ALICE # BOB /\ Parties = {ALICE, BOB}
         /\ st[ALICE] \in States /\ st[BOB] \in States
         /\ chan[ALICE] \in Seq(Messages) /\ chan[BOB] \in Seq(Messages)
         /\ n \in Nat /\ a \in 0 .. n /\ b \in 0 .. n
         /\ At(ALICE, t[a]) /\ At(BOB, t[b])
         /\ \A p \in Parties :
              st[p].out = "running" =>
                Ready(p, IF p = ALICE THEN t[a] ELSE t[b])
<1>1. \A p \in Parties :
        st[p].out = "running" => Ready(p, IF p = ALICE THEN t[a] ELSE t[b])
  BY PositionReady DEF Inv
<1> QED
  BY <1>1, PartiesProperties DEF Inv, Types, Trace, Synchrony

LEMMA InvTypeOK ==
  ASSUME Inv
  PROVE  TypeOK
<1>1. PICK t, n, a, b : Trace(t, n) /\ Synchrony(t, n, a, b)
  BY DEF Inv
<1>2. ASSUME NEW p \in Parties
      PROVE  /\ st[p].pointer \in 0 .. PoolSize
             /\ st[p].base <= st[p].put
             /\ st[p].out \in {"running", "ended", "error", "aborted",
                               "broken"}
             /\ st[p].out = "running" => st[p].todo # <<>>
             /\ \A m \in DOMAIN chan[p] : chan[p][m].kind \in Kinds
  <2>1. st[p] \in States /\ chan[p] \in Seq(Messages)
    BY DEF Inv, Types
  <2>2. st[p].pointer \in 0 .. PoolSize /\ st[p].out \in Outs
    BY <2>1 DEF States
  <2>3. st[p].base <= st[p].put
    BY DEF Inv
  <2>4. st[p].out = "running" => st[p].todo # <<>>
    <3>1. st[p].out = "running" =>
            Ready(p, IF p = ALICE THEN t[a] ELSE t[b])
      BY <1>1, Placed
    <3> QED
      BY <3>1, ReadyProperties
  <2>5. \A m \in Messages : m.kind \in Kinds
    BY DEF Messages, Kinds, MaskedOps
  <2>6. \A m \in DOMAIN chan[p] : chan[p][m] \in Messages
    BY <2>1
  <2> QED
    BY <2>2, <2>3, <2>4, <2>5, <2>6 DEF Outs
<1>3. run \in Runs
  BY DEF Inv, Types
<1> QED
  BY <1>2, <1>3 DEF TypeOK

LEMMA InvPoolInStep ==
  ASSUME Inv
  PROVE  PoolInStep
<1>1. InFlight = MaskedIn(chan[ALICE])
  BY DEF InFlight, MaskedIn
<1>2. InStep(chan[ALICE], Taken(st[ALICE]), Taken(st[BOB]))
  BY DEF Inv
<1>3. ASSUME NEW m \in InFlight
      PROVE  LET c == chan[ALICE][m].value
             IN  /\ c[2] < PoolSize
                 /\ Number(c) =
                      Taken(st[BOB]) + Cardinality({k \in InFlight : k < m})
  <2>1. m \in MaskedIn(chan[ALICE]) /\ ALICE \in Parties /\ PoolSize \in Nat
    BY <1>1, PartiesProperties
  <2>2. chan[ALICE] \in Seq(Messages)
    BY <2>1 DEF Inv, Types
  <2>3. chan[ALICE][m] \in Messages /\ chan[ALICE][m].kind \in MaskedOps
    BY <2>1, <2>2 DEF MaskedIn
  <2>4. \A o \in Messages :
          o.kind \in MaskedOps => o.value \in Nat \X (0 .. PoolSize - 1)
    BY DEF Messages, MaskedOps
  <2>5. chan[ALICE][m].value[2] \in 0 .. PoolSize - 1
    BY <2>3, <2>4
  <2>6. chan[ALICE][m].value[2] < PoolSize
    BY <2>5, <2>1
  <2>7. Number(chan[ALICE][m].value)
          = Taken(st[BOB]) + Cardinality(Before(chan[ALICE], m))
    BY <1>2, <2>1 DEF InStep
  <2>8. Before(chan[ALICE], m) = {k \in InFlight : k < m}
    BY <1>1 DEF Before
  <2> QED
    BY <2>6, <2>7, <2>8
<1>4. Taken(st[ALICE]) = Taken(st[BOB]) + Cardinality(InFlight)
  BY <1>1, <1>2 DEF InStep
<1> QED
  BY <1>3, <1>4 DEF PoolInStep

LEMMA InvMessagesExpected ==
  ASSUME Inv
  PROVE  MessagesExpected
<1>1. PICK t, n, a, b : Trace(t, n) /\ Synchrony(t, n, a, b)
  BY DEF Inv
<1>2. /\ ALICE # BOB /\ Parties = {ALICE, BOB} /\ run \in Runs
      /\ Peer(ALICE) = BOB /\ Peer(BOB) = ALICE
      /\ chan[ALICE] \in Seq(Messages) /\ chan[BOB] \in Seq(Messages)
      /\ n \in Nat /\ a \in 0 .. n /\ b \in 0 .. n
  BY <1>1, Placed, PartiesProperties
<1>3. ASSUME Receiving(ALICE), chan[BOB] # <<>>
      PROVE  Head(chan[BOB]).kind = Kind(st[ALICE])
  <2>1. st[ALICE].out = "running" /\ st[ALICE].extending
    BY <1>2, <1>3 DEF Receiving
  <2>2. Ready(ALICE, t[a])
    BY <1>1, <1>2, <2>1, Placed
  <2>3. Good(t[a]) /\ t[a].extending /\ Kind(st[ALICE]) = Kind(t[a])
    BY <2>1, <2>2, ReadyProperties DEF Ready
  <2>4. Kind(t[a]) = "extend"
    BY <2>3, KindCases DEF Good
  <2>5. Head(chan[BOB]) = chan[BOB][1] /\ 1 \in DOMAIN chan[BOB]
    BY <1>2, <1>3
  <2> QED
    BY <2>3, <2>4, <2>5 DEF Inv, Replies
<1>4. ASSUME Receiving(BOB), chan[ALICE] # <<>>
      PROVE  Head(chan[ALICE]).kind = Kind(st[BOB])
  <2>1. st[BOB].out = "running"
    BY <1>4 DEF Receiving
  <2>2. Ready(BOB, t[b])
    BY <1>1, <1>2, <2>1, Placed
  <2>3. Kind(st[BOB]) = Kind(t[b]) /\ st[BOB].extending = t[b].extending
    BY <2>2, ReadyProperties
  <2>4. Receives(t[b])
    BY <1>4, <2>3 DEF Receiving, Receives
  <2>5. Sent(t[a]) \in Int /\ Received(t[b]) \in Int /\ b \in b .. n
    BY <1>1, <1>2, TraceNumbers
  <2>6. Len(chan[ALICE]) > 0 /\ Head(chan[ALICE]) = chan[ALICE][1]
    BY <1>2, <1>4
  <2>7. Received(t[b]) < Sent(t[a])
    BY <1>1, <2>5, <2>6 DEF Synchrony
  <2>8. Received(t[b]) - Received(t[b]) + 1 = 1
    BY <2>5
  <2>9. chan[ALICE][1].kind = Kind(t[b])
    BY <1>1, <2>4, <2>5, <2>7, <2>8 DEF Synchrony
  <2> QED
    BY <2>3, <2>6, <2>9
<1> QED
  BY <1>2, <1>3, <1>4 DEF MessagesExpected

LEMMA ExtendsPrefix ==
  ASSUME NEW s \in Seq(Nat), NEW u \in Seq(Nat), Extends(s, u)
  PROVE  IsPrefix(s, u)
<1>1. Len(s) <= Len(u) /\ \A m \in 1 .. Len(s) : s[m] = u[m]
  BY DEF Extends
<1>2. SubSeq(s, 1, Len(s)) = SubSeq(u, 1, Len(s))
  BY <1>1
<1> QED
  BY <1>1, <1>2 DEF IsPrefix

LEMMA InvSameChallenges ==
  ASSUME Inv
  PROVE  SameChallenges
<1>1. PICK t, n, a, b : Trace(t, n) /\ Synchrony(t, n, a, b)
  BY DEF Inv
<1>2. /\ run \in Runs /\ n \in Nat /\ a \in 0 .. n /\ b \in 0 .. n
      /\ At(ALICE, t[a]) /\ At(BOB, t[b])
  BY <1>1, Placed
<1>3. st[ALICE].drawn = t[a].drawn /\ st[BOB].drawn = t[b].drawn
  BY <1>2 DEF At
<1>4. t[a].drawn \in Seq(Nat) /\ t[b].drawn \in Seq(Nat)
  BY <1>1, <1>2, TraceNumbers
<1>5. CASE a = b
  <2>1. Extends(t[a].drawn, t[b].drawn)
    BY <1>4, <1>5, ExtendsProperties
  <2> QED
    BY <2>1, <1>3, <1>4, ExtendsPrefix DEF SameChallenges
<1>6. CASE a < b
  <2>1. Extends(t[a].drawn, t[b].drawn)
    BY <1>1, <1>2, <1>6 DEF Trace
  <2> QED
    BY <2>1, <1>3, <1>4, ExtendsPrefix DEF SameChallenges
<1>7. CASE b < a
  <2>1. Extends(t[b].drawn, t[a].drawn)
    BY <1>1, <1>2, <1>7 DEF Trace
  <2> QED
    BY <2>1, <1>3, <1>4, ExtendsPrefix DEF SameChallenges
<1> QED
  BY <1>2, <1>5, <1>6, <1>7

LEMMA InvVerdictSound ==
  ASSUME Inv
  PROVE  VerdictSound
<1> SUFFICES ASSUME st[BOB].out = "ended" PROVE
      /\ run.false_block \notin 1 .. st[BOB].base
      /\ ~ st[BOB].garbled
      /\ st[ALICE].out = "ended" \/ Doing(ALICE, "report")
  BY DEF VerdictSound
<1>1. PICK t, n, a, b : Trace(t, n) /\ Synchrony(t, n, a, b)
  BY DEF Inv
<1>2. /\ run \in Runs /\ n \in Nat /\ a \in 0 .. n /\ b \in 0 .. n
      /\ ALICE # BOB /\ chan[ALICE] \in Seq(Messages)
      /\ At(ALICE, t[a]) /\ At(BOB, t[b])
  BY <1>1, Placed
<1>3. Current(t[b]).op = "report"
  BY <1>2 DEF At
<1>4. b = n
  <2>1. b \in 0 .. n - 1 => Current(t[b]).op # "report"
    BY <1>1 DEF Trace
  <2> QED
    BY <1>2, <1>3, <2>1
<1>5. a = b
  <2>1. SUFFICES ASSUME a # b PROVE FALSE
    OBVIOUS
  <2> DEFINE c == b - 1
  <2>2. c \in 0 .. n - 1 /\ c + 1 = b /\ a <= c /\ c \in 0 .. n
    BY <1>2, <1>4, <2>1
  <2> HIDE DEF c
  <2>3. Progress(t[c], t[b])
    BY <1>1, <1>2, <2>2, TraceSteps
  <2>4. Current(t[c]).op = "set"
    BY <1>3, <2>3 DEF Progress
  <2>5. Good(t[c])
    BY <1>1, <1>2, <2>2, TraceNumbers
  <2>6. Kind(t[c]) = "macs" /\ ~ t[c].extending
    BY <2>4, <2>5, KindCases DEF Good, MaskedOps
  <2>7. Receives(t[c])
    BY <2>6 DEF Receives
  <2>8. Received(t[c]) = Sent(t[c])
    <3>1. Sent(t[c]) \in Int
      BY <1>1, <1>2, <2>2, TraceNumbers
    <3> QED
      BY <2>6, <3>1 DEF Received
  <2>9. Received(t[c]) < Received(t[b])
    BY <1>1, <1>2, <2>2, <2>7 DEF Trace
  <2>10. Sent(t[a]) <= Sent(t[c])
    BY <1>1, <1>2, <2>2, TraceOrder
  <2>11. Len(chan[ALICE]) = Sent(t[a]) - Received(t[b])
    BY <1>1 DEF Synchrony
  <2>12. /\ Sent(t[a]) \in Int /\ Sent(t[c]) \in Int
         /\ Received(t[b]) \in Int /\ Len(chan[ALICE]) \in Nat
    <3>1. /\ Sent(t[a]) \in Int /\ Sent(t[c]) \in Int
          /\ Received(t[b]) \in Int
      BY <1>1, <1>2, <2>2, TraceNumbers
    <3>2. Len(chan[ALICE]) \in Nat
      BY <1>2
    <3> QED
      BY <3>1, <3>2
  <2> QED
    BY <2>8, <2>9, <2>10, <2>11, <2>12
<1>6. st[ALICE].out = "ended" \/ Doing(ALICE, "report")
  <2>1. CASE st[ALICE].out = "running"
    <3>1. Alike(st[ALICE], t[a])
      BY <2>1, <1>2 DEF At
    <3>2. Current(st[ALICE]).op = "report"
      BY <3>1, <1>3, <1>5 DEF Alike, Current
    <3> QED
      BY <2>1, <3>2 DEF Doing
  <2>2. CASE st[ALICE].out # "running"
    BY <2>2, <1>2, <1>3, <1>5 DEF At
  <2> QED
    BY <2>1, <2>2
<1> QED
  BY <1>6 DEF Inv, BlocksTrue

-----------------------------------------------------------------------------
(* Neither the number of the next correlation runs out of the pool, nor a  *)
(* list of operations out of operations before its party has ended, and    *)
(* no other kind of message is sent.                                       *)
THEOREM TypeCorrect ==
  Spec => []TypeOK
BY InvAlways, InvTypeOK, PTL

(* fill_data_and_mac and extend_inplace in the two processes stay in step  *)
(* for every size of the pool: a value is masked and unmasked with the     *)
(* same correlation, however far the prover is ahead.                      *)
THEOREM PoolStaysInStep ==
  Spec => []PoolInStep
BY InvAlways, InvPoolInStep, PTL

(* recv_data never gets what another send_data has sent: the two programs, *)
(* each expanded from its own variables, agree on the kind of every        *)
(* message.                                                                *)
THEOREM MessagesAreExpected ==
  Spec => []MessagesExpected
BY InvAlways, InvMessagesExpected, PTL

(* get_hash_block gives both processes the same challenges in the same     *)
(* order, in runs of any length.                                           *)
THEOREM ChallengesAgree ==
  Spec => []SameChallenges
BY InvAlways, InvSameChallenges, PTL

(* A verifier that reports has compared no digest over a false block, with *)
(* MACs that were all worth something, and its prover has reached the end  *)
(* of its program as well.                                                 *)
THEOREM VerdictIsSound ==
  Spec => []VerdictSound
BY InvAlways, InvVerdictSound, PTL

-----------------------------------------------------------------------------
(* The comparisons that are still to come.                                 *)
Compares(x) == {m \in DOMAIN x : x[m].op = "compare"}

Left(x) == Cardinality(Compares(x))

(* Each of them stands in the list by itself.                              *)
Single(x) == \A m \in DOMAIN x : x[m].op = "compare" => x[m].times = 1

LEMMA LeftType ==
  ASSUME NEW x \in Seq(Operation)
  PROVE  IsFiniteSet(Compares(x)) /\ Left(x) \in Nat
<1>1. IsFiniteSet(1 .. Len(x))
  <2>1. Len(x) \in Int /\ 1 \in Int
    OBVIOUS
  <2> QED
    BY <2>1, FS_Interval
<1>2. Compares(x) \subseteq 1 .. Len(x)
  BY DEF Compares
<1> QED
  BY <1>1, <1>2, FS_Subset, FS_CardinalityType DEF Left

LEMMA LeftOfOne ==
  ASSUME NEW e \in Operation
  PROVE  /\ Left(<<e>>) = IF e.op = "compare" THEN 1 ELSE 0
         /\ Single(<<e>>) <=> (e.op = "compare" => e.times = 1)
         /\ Left(<<>>) = 0 /\ Single(<<>>)
<1>1. Compares(<<e>>) = IF e.op = "compare" THEN {1} ELSE {}
  BY DEF Compares
<1>2. Compares(<<>>) = {}
  BY DEF Compares
<1>3. Cardinality({1}) = 1 /\ Cardinality({}) = 0
  BY FS_EmptySet, FS_Singleton
<1>4. Single(<<e>>) <=> (e.op = "compare" => e.times = 1)
  BY DEF Single
<1>5. Single(<<>>)
  BY DEF Single
<1> QED
  BY <1>1, <1>2, <1>3, <1>4, <1>5 DEF Left

LEMMA LeftOfConcat ==
  ASSUME NEW x \in Seq(Operation), NEW y \in Seq(Operation)
  PROVE  /\ Left(x \o y) = Left(x) + Left(y)
         /\ Single(x \o y) <=> Single(x) /\ Single(y)
<1> DEFINE n == Len(x)
           z == x \o y
           X == Compares(x)
           Y == Compares(y)
           W == {m \in n + 1 .. n + Len(y) : y[m - n].op = "compare"}
           f == [m \in Y |-> m + n]
<1>1. /\ n \in Nat /\ Len(y) \in Nat /\ DOMAIN x = 1 .. n
      /\ DOMAIN y = 1 .. Len(y) /\ DOMAIN z = 1 .. n + Len(y)
      /\ \A m \in 1 .. n : z[m] = x[m]
      /\ \A m \in n + 1 .. n + Len(y) : z[m] = y[m - n]
      /\ \A m \in 1 .. Len(y) : z[m + n] = y[m]
  OBVIOUS
<1> HIDE DEF n, z
<1>2. Compares(z) = X \cup W
  BY <1>1 DEF Compares
<1>3. X \cap W = {}
  BY <1>1 DEF Compares
<1>4. IsFiniteSet(X) /\ IsFiniteSet(Y)
  BY LeftType
<1>5. IsFiniteSet(W) /\ Cardinality(W) = Cardinality(Y)
  <2>1. \A m \in Y : m \in Int /\ (m + n) - n = m /\ m + n \in W
    BY <1>1 DEF Compares
  <2>2. f \in [Y -> W]
    BY <2>1
  <2>3. \A k, m \in Y : f[k] = f[m] => k = m
    BY <2>1, <1>1
  <2>4. ASSUME NEW k \in W
        PROVE  \E m \in Y : f[m] = k
    <3>1. k - n \in Y /\ (k - n) + n = k
      BY <1>1 DEF Compares
    <3> QED
      BY <3>1
  <2>5. f \in Bijection(Y, W)
    BY <2>2, <2>3, <2>4 DEF Bijection, Injection, Surjection, IsInjective
  <2> QED
    BY <2>5, <1>4, FS_Bijection DEF ExistsBijection
<1>6. Cardinality(X \cup W) = Cardinality(X) + Cardinality(W)
  <2>1. Cardinality(X \cup W)
          = Cardinality(X) + Cardinality(W) - Cardinality(X \cap W)
    BY <1>4, <1>5, FS_Union
  <2>2. Cardinality(X \cap W) = 0
    BY <1>3, FS_EmptySet
  <2>3. Cardinality(X) \in Nat /\ Cardinality(W) \in Nat
    BY <1>4, <1>5, FS_CardinalityType
  <2> QED
    BY <2>1, <2>2, <2>3
<1>7. Single(z) <=> Single(x) /\ Single(y)
  <2>1. ASSUME Single(x), Single(y) PROVE Single(z)
    <3> SUFFICES ASSUME NEW m \in DOMAIN z, z[m].op = "compare"
                 PROVE  z[m].times = 1
      BY DEF Single
    <3>1. CASE m \in 1 .. n
      BY <3>1, <2>1, <1>1 DEF Single
    <3>2. CASE m \notin 1 .. n
      <4>1. m \in n + 1 .. n + Len(y) /\ m - n \in 1 .. Len(y)
        BY <3>2, <1>1
      <4> QED
        BY <4>1, <2>1, <1>1 DEF Single
    <3> QED
      BY <3>1, <3>2
  <2>2. ASSUME Single(z) PROVE Single(x)
    BY <2>2, <1>1 DEF Single
  <2>3. ASSUME Single(z) PROVE Single(y)
    <3> SUFFICES ASSUME NEW m \in DOMAIN y, y[m].op = "compare"
                 PROVE  y[m].times = 1
      BY DEF Single
    <3>1. m + n \in DOMAIN z /\ z[m + n] = y[m]
      BY <1>1
    <3> QED
      BY <3>1, <2>3 DEF Single
  <2> QED
    BY <2>1, <2>2, <2>3
<1> QED
  BY <1>2, <1>5, <1>6, <1>7 DEF Left, z

(* A list of calls without comparisons.                                    *)
Plain(x) == x \in Seq({o \in Calls : o.op # "compare"})

LEMMA PlainProperties ==
  /\ Plain(<<>>)
  /\ \A x, y : Plain(x) /\ Plain(y) => Plain(x \o y)
  /\ \A x : Plain(x) => /\ x \in Seq(Calls) /\ x \in Seq(Operation)
                        /\ Left(x) = 0 /\ Single(x)
<1>1. Plain(<<>>)
  BY DEF Plain
<1>2. ASSUME NEW x, NEW y, Plain(x), Plain(y)
      PROVE  Plain(x \o y)
  BY <1>2 DEF Plain
<1>3. ASSUME NEW x, Plain(x)
      PROVE  /\ x \in Seq(Calls) /\ x \in Seq(Operation)
             /\ Left(x) = 0 /\ Single(x)
  <2>1. \A m \in DOMAIN x : x[m].op # "compare"
    BY <1>3 DEF Plain
  <2>2. Compares(x) = {} /\ Single(x)
    BY <2>1 DEF Compares, Single
  <2>3. Left(x) = 0
    BY <2>2, FS_EmptySet DEF Left
  <2>4. x \in Seq(Calls)
    BY <1>3 DEF Plain
  <2> QED
    BY <2>2, <2>3, <2>4, CallsAreOperations
<1> QED
  BY <1>1, <1>2, <1>3

LEMMA PlainOps ==
  ASSUME NEW op \in Inner \ {"compare"}, NEW k \in Int,
         op = "chain" => k \in 0 .. Len(run.chains)
  PROVE  Plain(Ops(op, k))
<1>1. CASE k = 0
  BY <1>1, PlainProperties DEF Ops
<1>2. CASE k # 0
  <2> DEFINE e == [op |-> op, times |-> k]
  <2>1. e \in Calls /\ e.op # "compare"
    BY <1>2 DEF Calls, Operation, OpNames
  <2>2. Ops(op, k) = <<e>>
    BY <1>2 DEF Ops
  <2> HIDE DEF e
  <2> QED
    BY <2>1, <2>2 DEF Plain
<1> QED
  BY <1>1, <1>2

LEMMA PlainCalls ==
  ASSUME NEW k \in Int
  PROVE  /\ Plain(Ops("clause", k)) /\ Plain(Ops("coef", k))
         /\ Plain(Ops("one", k)) /\ Plain(Ops("inv", k))
         /\ Plain(Ops("sat", k)) /\ Plain(Ops("fetch", k))
         /\ Plain(Ops("get", k)) /\ Plain(Ops("log", k))
         /\ Plain(Ops("resolve", k)) /\ Plain(Ops("xres", k))
         /\ Plain(Ops("equal", k)) /\ Plain(Ops("check", k))
         /\ Plain(Ops("challenge", k)) /\ Plain(Ops("hash", k))
         /\ Plain(Ops("order", k)) /\ Plain(Ops("verdict", k))
         /\ Plain(Ops("set", k)) /\ Plain(Ops("witness", k))
<1>1. \A op \in Inner \ {"compare"} : op # "chain" => Plain(Ops(op, k))
  BY PlainOps
<1>2. /\ "clause" \in Inner /\ "coef" \in Inner /\ "one" \in Inner
      /\ "inv" \in Inner /\ "sat" \in Inner
      /\ "fetch" \in Inner /\ "get" \in Inner /\ "log" \in Inner
      /\ "resolve" \in Inner /\ "xres" \in Inner /\ "equal" \in Inner
      /\ "check" \in Inner /\ "challenge" \in Inner /\ "hash" \in Inner
      /\ "order" \in Inner /\ "verdict" \in Inner /\ "set" \in Inner
      /\ "witness" \in Inner
  BY DEF Inner
<1> QED
  BY <1>1, <1>2

LEMMA PlainBodies ==
  ASSUME NEW s \in States, NEW length \in Nat
  PROVE  /\ Plain(ChainBody(s, length)) /\ Plain(XresBody(s))
         /\ Plain(CheckBody(s))
         /\ Plain(Ops("coef", s.degree))
         /\ Plain(Ops("coef", s.degree) \o Ops("log", 1))
         /\ Plain(Ops("get", 1)) /\ Plain(Ops("check", 1))
<1>1. s.degree \in Nat /\ s.logged \in Nat
  BY DEF States
<1>2. /\ s.degree \in Int /\ 2 * s.degree + 3 \in Int /\ s.degree + 2 \in Int
      /\ s.logged \in Int /\ s.logged - 1 \in Int
      /\ s.logged * s.degree \in Int /\ 1 \in Int /\ 2 \in Int /\ 3 \in Int
      /\ length \in Int /\ length - 1 \in Int
  BY <1>1
<1>3. /\ Plain(Ops("coef", s.degree)) /\ Plain(Ops("log", 1))
      /\ Plain(Ops("get", 1)) /\ Plain(Ops("check", 1))
      /\ Plain(Ops("equal", 1)) /\ Plain(Ops("xres", 1))
      /\ Plain(Ops("verdict", 1)) /\ Plain(Ops("set", 1))
  BY <1>2, PlainCalls, Zenon
<1>4. /\ Plain(Ops("fetch", length)) /\ Plain(Ops("resolve", length - 1))
      /\ Plain(Ops("xres", length - 1))
  BY <1>2, PlainCalls, Zenon
<1>5. /\ Plain(Ops("coef", 2 * s.degree + 3)) /\ Plain(Ops("equal", 3))
      /\ Plain(Ops("witness", 2))
      /\ Plain(Ops("coef", s.logged * s.degree))
      /\ Plain(Ops("challenge", s.degree + 2)) /\ Plain(Ops("hash", s.logged))
      /\ Plain(Ops("order", s.logged - 1))
  BY <1>2, PlainCalls, Zenon
<1>6. \A x, y : Plain(x) /\ Plain(y) => Plain(x \o y)
  BY PlainProperties
<1>7. Plain(ChainBody(s, length))
  <2>1. Plain(IF run.unfold THEN Ops("xres", 1)
              ELSE Ops("resolve", length - 1) \o Ops("xres", length - 1)
                     \o Ops("equal", 1))
    BY <1>3, <1>4, <1>6
  <2>2. Plain(IF Current(s).times = 1
              THEN Ops("coef", s.degree) \o Ops("equal", 1) ELSE <<>>)
    BY <1>3, <1>6, PlainProperties
  <2> QED
    BY <2>1, <2>2, <1>3, <1>4, <1>6 DEF ChainBody
<1>8. Plain(XresBody(s))
  BY <1>5, <1>6 DEF XresBody
<1>9. Plain(CheckBody(s))
  BY <1>3, <1>5, <1>6 DEF CheckBody
<1> QED
  BY <1>3, <1>6, <1>7, <1>8, <1>9

(* What Advance does to the comparisons.                                   *)
LEMMA LeftAdvance ==
  ASSUME NEW s \in States, s.todo # <<>>, NEW ops \in Seq(Operation),
         Single(ops), Single(s.todo)
  PROVE  /\ Single(Advance(s, ops).todo)
         /\ Left(Advance(s, ops).todo) =
              Left(ops) + Left(s.todo)
                - (IF Current(s).op = "compare" THEN 1 ELSE 0)
<1> DEFINE c == Current(s)
           more == Ops(c.op, c.times - 1)
           rest == Tail(s.todo)
<1>1. /\ c \in Operation /\ c.op \in OpNames /\ c.times \in Int
      /\ more \in Seq(Operation) /\ rest \in Seq(Operation)
      /\ Advance(s, ops).todo = ops \o more \o rest
  BY CurrentType, AdvanceType
<1>2. s.todo = <<c>> \o rest
  <2>1. s.todo \in Seq(Operation)
    BY DEF States
  <2> QED
    BY <2>1 DEF Current
<1>3. more = <<>> \/ more = <<[op |-> c.op, times |-> c.times - 1]>>
  BY DEF Ops
<1> HIDE DEF c, rest
<1>4. <<c>> \in Seq(Operation)
  BY <1>1
<1>5. /\ Left(s.todo) = Left(<<c>>) + Left(rest)
      /\ Single(<<c>>) /\ Single(rest)
  BY <1>1, <1>2, <1>4, LeftOfConcat, ZenonT(40)
<1>6. Left(<<c>>) = IF c.op = "compare" THEN 1 ELSE 0
  BY <1>1, LeftOfOne
<1>7. c.op = "compare" => c.times = 1
  BY <1>1, <1>5, LeftOfOne
<1>8. Left(more) = 0 /\ Single(more)
  <2>1. Left(<<>>) = 0 /\ Single(<<>>)
    BY <1>1, LeftOfOne
  <2>2. CASE c.op = "compare"
    BY <2>1, <2>2, <1>1, <1>7 DEF Ops
  <2>3. CASE c.op # "compare"
    <3> DEFINE e == [op |-> c.op, times |-> c.times - 1]
    <3>1. CASE more = <<>>
      BY <2>1, <3>1
    <3>2. CASE more = <<e>>
      <4>1. e \in Operation /\ e.op = c.op
        <5>1. more[1] \in Operation /\ more[1] = e
          BY <3>2, <1>1
        <5> QED
          BY <5>1
      <4> HIDE DEF e, more
      <4> QED
        BY <2>3, <3>2, <4>1, LeftOfOne
    <3> QED
      BY <1>3, <3>1, <3>2
  <2> QED
    BY <2>2, <2>3
<1> HIDE DEF more
<1>9. /\ Left(ops \o more) = Left(ops) + Left(more)
      /\ Single(ops \o more) /\ ops \o more \in Seq(Operation)
  BY <1>1, <1>8, LeftOfConcat
<1>10. /\ Left((ops \o more) \o rest) = Left(ops \o more) + Left(rest)
       /\ Single((ops \o more) \o rest)
  BY <1>1, <1>5, <1>9, LeftOfConcat
<1>11. Left(ops) \in Nat /\ Left(rest) \in Nat
  BY <1>1, LeftType
<1> QED
  BY <1>1, <1>5, <1>6, <1>8, <1>9, <1>10, <1>11 DEF c

(* What Onward does to the list and the blocks of a party, apart from the  *)
(* header and the comparisons.                                             *)
Advances(v, w) ==
  /\ w.mem = v.mem /\ w.base = v.base
  /\ w.put \in Nat /\ v.put <= w.put
  /\ w.todo = v.todo \/ \E ops : Plain(ops) /\ w.todo = Advance(v, ops).todo

LEMMA AdvanceAdvances ==
  ASSUME NEW v \in States, v.todo # <<>>, NEW ops, Plain(ops)
  PROVE  LET a == Advance(v, ops)
         IN  /\ a \in States /\ Advances(v, a)
             /\ a.put = v.put /\ v.put \in Nat
             /\ Advances(v, Count(a)) /\ Advances(v, Draw(a))
             /\ \A k \in Nat : Advances(v, Put(a, k))
<1> DEFINE a == Advance(v, ops)
<1>1. a \in States /\ v.put \in Nat
  <2>1. v.put \in Nat
    BY DEF States
  <2> QED
    BY <2>1, PlainProperties, AdvanceType
<1>2. a.mem = v.mem /\ a.base = v.base /\ a.put = v.put
  BY Unchanged
<1>3. \E x : Plain(x) /\ a.todo = Advance(v, x).todo
  OBVIOUS
<1> HIDE DEF a
<1>4. Advances(v, a)
  BY <1>1, <1>2, <1>3 DEF Advances
<1>5. ASSUME NEW w, w.mem = a.mem, w.base = a.base, w.todo = a.todo,
             w.put \in Nat, a.put <= w.put
      PROVE  Advances(v, w)
  BY <1>2, <1>3, <1>5 DEF Advances
<1>6. Advances(v, Count(a))
  BY <1>1, <1>2, <1>5, Unchanged
<1>7. Advances(v, Draw(a))
  BY <1>1, <1>2, <1>5, Unchanged
<1>8. ASSUME NEW k \in Nat
      PROVE  Advances(v, Put(a, k))
  <2> DEFINE w == Put(a, k)
  <2>1. w.mem = a.mem /\ w.base = a.base /\ w.todo = a.todo
        /\ w.put = a.put + k
    BY <1>1, Unchanged
  <2> HIDE DEF w
  <2>2. w.put \in Nat /\ a.put <= w.put
    BY <2>1, <1>1, <1>2
  <2>3. Advances(v, w)
    BY <2>1, <2>2, <1>5
  <2> QED
    BY <2>3 DEF w
<1> QED
  BY <1>1, <1>2, <1>4, <1>6, <1>7, <1>8 DEF a

LEMMA MaskedAdvances ==
  ASSUME NEW v \in States, v.todo # <<>>, NEW blocks \in Nat
  PROVE  Advances(v, OnwardMasked(v, blocks))
<1> DEFINE c == Count(v)
           a == Advance(v, <<>>)
           b == Put(a, blocks)
<1>1. /\ c \in States /\ c.todo = v.todo /\ c.mem = v.mem
      /\ c.base = v.base /\ c.put = v.put /\ v.put \in Nat
  <2>1. v.put \in Nat
    BY DEF States
  <2> QED
    BY <2>1, CountType, Unchanged
<1>2. b \in States /\ Advances(v, b)
  BY PlainProperties, AdvanceAdvances, PutType
<1>3. CASE v.extending
  <2> DEFINE pool == c.pool + 1
             w == [c EXCEPT !.extending = FALSE, !.pool = pool,
                            !.pointer = 0]
  <2>1. OnwardMasked(v, blocks) = w
    BY <1>3 DEF OnwardMasked
  <2> HIDE DEF c, pool
  <2>2. /\ w.todo = c.todo /\ w.mem = c.mem /\ w.base = c.base
        /\ w.put = c.put
    BY <1>1 DEF States
  <2> HIDE DEF w
  <2> QED
    BY <2>1, <2>2, <1>1 DEF Advances
<1>4. CASE ~ v.extending /\ Exhausted(v)
  <2> DEFINE w == [c EXCEPT !.extending = TRUE]
  <2>1. OnwardMasked(v, blocks) = w
    BY <1>4 DEF OnwardMasked
  <2> HIDE DEF c
  <2>2. /\ w.todo = c.todo /\ w.mem = c.mem /\ w.base = c.base
        /\ w.put = c.put
    BY <1>1 DEF States
  <2> HIDE DEF w
  <2> QED
    BY <2>1, <2>2, <1>1 DEF Advances
<1>5. CASE ~ v.extending /\ ~ Exhausted(v)
  <2> DEFINE pointer == b.pointer + 1
             d == [b EXCEPT !.pointer = pointer]
             w == Count(d)
  <2>1. OnwardMasked(v, blocks) = w
    BY <1>5 DEF OnwardMasked
  <2> HIDE DEF b, pointer
  <2>2. /\ w.todo = b.todo /\ w.mem = b.mem /\ w.base = b.base
        /\ w.put = b.put
    BY <1>2 DEF States, Count
  <2> HIDE DEF w
  <2> QED
    BY <2>1, <2>2, <1>2 DEF Advances
<1> QED
  BY <1>3, <1>4, <1>5

LEMMA OnwardAdvances ==
  ASSUME run \in Runs, NEW v, Good(v),
         Current(v).op \notin {"report", "header", "compare"}
  PROVE  Advances(v, Onward(v))
<1> DEFINE op == Current(v).op
<1>1. /\ v \in States /\ v.todo # <<>> /\ op \in OpNames
      /\ Plain(<<>>)
  BY GoodProperties, PlainProperties
<1>2. ASSUME NEW ops, Plain(ops)
      PROVE  /\ Advance(v, ops) \in States
             /\ Advances(v, Advance(v, ops))
             /\ Advances(v, Count(Advance(v, ops)))
             /\ Advances(v, Draw(Advance(v, ops)))
             /\ \A k \in Nat : Advances(v, Put(Advance(v, ops), k))
  BY <1>1, <1>2, AdvanceAdvances
<1>3. CASE op \in {"coef", "one", "inv"}
  BY <1>1, <1>3, OnwardCases, MaskedAdvances
<1>4. CASE op \in {"word", "order"}
  BY <1>1, <1>2, <1>4, OnwardCases
<1>5. CASE op \in {"clause", "resolve", "witness", "get", "xres", "check",
                    "verdict"}
  <2>1. 0 \in Nat
    OBVIOUS
  <2>2. /\ Plain(Ops("coef", v.degree))
        /\ Plain(Ops("coef", v.degree) \o Ops("log", 1))
        /\ Plain(XresBody(v)) /\ Plain(CheckBody(v))
    BY <1>1, <2>1, PlainBodies
  <2> QED
    BY <1>1, <1>2, <1>5, <2>2, OnwardCases
<1>6. CASE op = "sat"
  BY <1>1, <1>2, <1>6, OnwardCases
<1>7. CASE op = "hash"
  BY <1>1, <1>2, <1>7, OnwardCases
<1>8. CASE op = "challenge"
  BY <1>1, <1>2, <1>8, OnwardCases
<1>9. CASE op = "fetch"
  <2>1. 0 \in Nat
    OBVIOUS
  <2>2. Plain(Ops("get", 1))
    BY <1>1, <2>1, PlainBodies
  <2> QED
    BY <1>2, <1>9, <2>2, OnwardCases
<1>10. CASE op = "chain"
  <2> DEFINE ops == IF ChainAt(v) = 0 THEN <<>> ELSE ChainBody(v, ChainAt(v))
  <2>1. ChainAt(v) \in Nat
    BY <1>10, ChainAtType
  <2>2. Plain(ChainBody(v, ChainAt(v)))
    BY <1>1, <2>1, PlainBodies
  <2>3. Plain(ops)
    BY <1>1, <2>2
  <2>4. Onward(v) = Count(Advance(v, ops))
    BY <1>10, OnwardChain
  <2> HIDE DEF ops
  <2> QED
    BY <1>2, <2>3, <2>4
<1>11. CASE op = "equal"
  <2> DEFINE d == Draw(Advance(v, <<>>))
             w == Put(d, 1)
  <2>1. Onward(v) = w
    BY <1>11, OnwardCases
  <2>2. d \in States /\ Advances(v, d)
    BY <1>1, <1>2, DrawType
  <2> HIDE DEF d
  <2>3. /\ w.todo = d.todo /\ w.mem = d.mem /\ w.base = d.base
        /\ w.put = d.put + 1
    BY <2>2, Unchanged
  <2>4. d.put \in Nat /\ v.put \in Nat /\ v.put <= d.put
    BY <1>1, <2>2 DEF Advances, States
  <2> HIDE DEF w
  <2>5. w.put \in Nat /\ v.put <= w.put
    BY <2>3, <2>4
  <2> QED
    BY <2>1, <2>2, <2>3, <2>5 DEF Advances
<1>12. CASE op = "log"
  <2> DEFINE ops == IF CheckDue(v) THEN Ops("check", 1) ELSE <<>>
             reads == v.reads + 1
             logged == v.logged + 1
             a == Advance(v, ops)
             w == [a EXCEPT !.reads = reads, !.logged = logged]
  <2>1. Onward(v) = w
    BY <1>12, OnwardLog
  <2>2. Plain(ops)
    <3>1. 0 \in Nat
      OBVIOUS
    <3>2. Plain(Ops("check", 1))
      BY <1>1, <3>1, PlainBodies
    <3> QED
      BY <1>1, <3>2
  <2> HIDE DEF ops
  <2>3. a \in States /\ Advances(v, a)
    BY <1>2, <2>2
  <2> HIDE DEF a, reads, logged
  <2>4. /\ w.todo = a.todo /\ w.mem = a.mem /\ w.base = a.base
        /\ w.put = a.put
    BY <2>3 DEF States
  <2> HIDE DEF w
  <2> QED
    BY <2>1, <2>3, <2>4 DEF Advances
<1>13. CASE op = "set"
  <2> DEFINE drawn == Draw(v).drawn
             logged == v.mem
             a == Advance(v, <<>>)
             c == [a EXCEPT !.drawn = drawn, !.logged = logged, !.reads = 0]
             w == Count(c)
  <2>1. Onward(v) = w
    BY <1>13, OnwardSet
  <2>2. a \in States /\ Advances(v, a)
    BY <1>1, <1>2
  <2> HIDE DEF a, drawn, logged
  <2>3. /\ w.todo = a.todo /\ w.mem = a.mem /\ w.base = a.base
        /\ w.put = a.put
    BY <2>2 DEF States, Count
  <2> HIDE DEF w
  <2> QED
    BY <2>1, <2>2, <2>3 DEF Advances
<1> QED
  BY <1>1, <1>3, <1>4, <1>5, <1>6, <1>7, <1>8, <1>9, <1>10, <1>11, <1>12,
     <1>13 DEF OpNames, Inner

LEMMA BodyLeft ==
  ASSUME run \in Runs
  PROVE  /\ Body(FileHeader) \in Seq(Operation)
         /\ Left(Body(FileHeader)) = 3 /\ Single(Body(FileHeader))
<1> DEFINE compare == Ops("compare", 1)
           x1 == Ops("clause", run.ncls)
                   \o Ops("one", 1) \o Ops("inv", run.n_c1_cls * run.pub_lits)
           x2 == Ops("sat", run.n_c1_cls)
           x3 == Ops("chain", Len(run.chains))
           x4 == Ops("check", 1)
           x5 == Ops("report", 1)
<1>1. Body(FileHeader)
        = x1 \o compare \o x2 \o compare \o x3 \o compare \o x4 \o x5
  BY DEF Body, FileHeader
<1>2. run.n_c1_cls * run.pub_lits \in Int /\ run.n_c1_cls \in Int
      /\ run.ncls \in Int /\ 1 \in Int /\ Len(run.chains) \in Int
      /\ Len(run.chains) \in 0 .. Len(run.chains)
  BY RunProperties
<1>3. Plain(x1) /\ Plain(x2) /\ Plain(x3) /\ Plain(x4)
  <2>1. /\ Plain(Ops("clause", run.ncls)) /\ Plain(Ops("one", 1))
        /\ Plain(Ops("inv", run.n_c1_cls * run.pub_lits))
        /\ Plain(x2) /\ Plain(x4)
    BY <1>2, PlainCalls, Zenon
  <2>2. Plain(x3)
    BY <1>2, PlainOps DEF Inner
  <2> QED
    BY <2>1, <2>2, PlainProperties
<1>4. /\ compare \in Seq(Operation) /\ Left(compare) = 1 /\ Single(compare)
      /\ x5 \in Seq(Operation) /\ Left(x5) = 0 /\ Single(x5)
  <2> DEFINE e == [op |-> "compare", times |-> 1]
             r == [op |-> "report", times |-> 1]
  <2>1. /\ e \in Operation /\ e.op = "compare" /\ e.times = 1
        /\ r \in Operation /\ r.op = "report"
    BY DEF Operation, OpNames, Inner
  <2>2. compare = <<e>> /\ x5 = <<r>>
    BY DEF Ops
  <2> HIDE DEF e, r
  <2>3. Left(<<e>>) = 1 /\ Single(<<e>>)
    BY <2>1, LeftOfOne
  <2>4. Left(<<r>>) = 0 /\ Single(<<r>>)
    BY <2>1, LeftOfOne
  <2>5. <<e>> \in Seq(Operation) /\ <<r>> \in Seq(Operation)
    BY <2>1
  <2> HIDE DEF compare, x5
  <2> QED
    BY <2>2, <2>3, <2>4, <2>5
<1> HIDE DEF compare, x1, x2, x3, x4, x5
<1>5. \A x, y \in Seq(Operation) :
        Single(x) /\ Single(y) =>
          /\ x \o y \in Seq(Operation) /\ Single(x \o y)
          /\ Left(x \o y) = Left(x) + Left(y)
  BY LeftOfConcat
<1>6. /\ x1 \in Seq(Operation) /\ Single(x1) /\ Left(x1) = 0
      /\ x2 \in Seq(Operation) /\ Single(x2) /\ Left(x2) = 0
      /\ x3 \in Seq(Operation) /\ Single(x3) /\ Left(x3) = 0
      /\ x4 \in Seq(Operation) /\ Single(x4) /\ Left(x4) = 0
  BY <1>3, PlainProperties
<1> DEFINE y1 == x1 \o compare
           y2 == y1 \o x2
           y3 == y2 \o compare
           y4 == y3 \o x3
           y5 == y4 \o compare
           y6 == y5 \o x4
           y7 == y6 \o x5
<1>7. y1 \in Seq(Operation) /\ Single(y1) /\ Left(y1) = 1
  BY <1>4, <1>5, <1>6
<1> HIDE DEF y1
<1>8. y2 \in Seq(Operation) /\ Single(y2) /\ Left(y2) = 1
  BY <1>5, <1>6, <1>7
<1> HIDE DEF y2
<1>9. y3 \in Seq(Operation) /\ Single(y3) /\ Left(y3) = 2
  BY <1>4, <1>5, <1>8
<1> HIDE DEF y3
<1>10. y4 \in Seq(Operation) /\ Single(y4) /\ Left(y4) = 2
  BY <1>5, <1>6, <1>9
<1> HIDE DEF y4
<1>11. y5 \in Seq(Operation) /\ Single(y5) /\ Left(y5) = 3
  BY <1>4, <1>5, <1>10
<1> HIDE DEF y5
<1>12. y6 \in Seq(Operation) /\ Single(y6) /\ Left(y6) = 3
  BY <1>5, <1>6, <1>11
<1> HIDE DEF y6
<1>13. y7 \in Seq(Operation) /\ Single(y7) /\ Left(y7) = 3
  BY <1>4, <1>5, <1>12
<1>14. Body(FileHeader) = y7
  BY <1>1 DEF y1, y2, y3, y4, y5, y6
<1> QED
  BY <1>13, <1>14

(* The three comparisons of main, one after the other.                     *)
LEMMA OnwardLeft ==
  ASSUME run \in Runs, NEW v, Good(v), Current(v).op # "report",
         Single(v.todo)
  PROVE  LET w == Onward(v)
         IN  /\ Single(w.todo)
             /\ Current(v).op = "header" =>
                  /\ w.mem # 0 /\ w.base = v.base /\ w.put = v.put
                  /\ Left(w.todo) = 3
             /\ Current(v).op = "compare" =>
                  /\ w.mem = v.mem /\ w.put = v.put + 1 /\ w.base = w.put
                  /\ Left(w.todo) = Left(v.todo) - 1
             /\ Current(v).op \notin {"header", "compare"} =>
                  /\ w.mem = v.mem /\ w.base = v.base
                  /\ w.put \in Nat /\ v.put <= w.put
                  /\ Left(w.todo) = Left(v.todo)
<1>1. /\ v \in States /\ v.todo # <<>> /\ v.todo \in Seq(Operation)
      /\ Left(v.todo) \in Nat /\ v.put \in Nat
  <2>1. v \in States /\ v.todo # <<>>
    BY GoodProperties
  <2>2. v.todo \in Seq(Operation) /\ v.put \in Nat
    BY <2>1 DEF States
  <2> QED
    BY <2>1, <2>2, LeftType
<1>2. CASE Current(v).op \notin {"header", "compare"}
  <2> DEFINE w == Onward(v)
  <2>1. Advances(v, w)
    BY <1>2, OnwardAdvances
  <2> HIDE DEF w
  <2>2. CASE w.todo = v.todo
    BY <2>1, <2>2, <1>2 DEF Advances, w
  <2>3. CASE w.todo # v.todo
    <3>1. PICK ops : Plain(ops) /\ w.todo = Advance(v, ops).todo
      BY <2>1, <2>3 DEF Advances
    <3>2. ops \in Seq(Operation) /\ Single(ops) /\ Left(ops) = 0
      BY <3>1, PlainProperties
    <3>3. Single(w.todo) /\ Left(w.todo) = Left(ops) + Left(v.todo) - 0
      BY <3>1, <3>2, <1>1, <1>2, LeftAdvance
    <3>4. Left(w.todo) = Left(v.todo)
      BY <3>2, <3>3, <1>1
    <3> QED
      BY <3>3, <3>4, <2>1, <1>2 DEF Advances, w
  <2> QED
    BY <2>2, <2>3
<1>3. CASE Current(v).op = "header"
  <2> DEFINE a == Advance(v, Body(FileHeader))
             b == [a EXCEPT !.degree = run.degree, !.mem = run.ncls,
                            !.logged = run.ncls]
             w == Onward(v)
  <2>1. a \in States /\ Single(a.todo) /\ Left(a.todo) = 3 + Left(v.todo) - 0
    BY <1>1, <1>3, BodyLeft, LeftAdvance, AdvanceType
  <2>2. a.base = v.base /\ a.put = v.put
    BY <1>1, Unchanged
  <2>3. w = Count(b)
    BY <1>3, OnwardHeader
  <2>4. run.degree \in Nat /\ run.ncls \in Nat /\ run.ncls # 0
    BY RunProperties
  <2>5. Left(v.todo) = 0
    <3>1. Len(v.todo) = 1
      BY <1>3, GoodProperties
    <3>2. v.todo = <<Current(v)>> /\ Current(v) \in Operation
      BY <3>1, <1>1 DEF Current
    <3>3. Left(<<Current(v)>>) = 0
      BY <3>2, <1>3, LeftOfOne
    <3> QED
      BY <3>2, <3>3
  <2> HIDE DEF a, w
  <2>6. /\ b \in States /\ b.todo = a.todo /\ b.base = a.base
        /\ b.put = a.put /\ b.mem = run.ncls
    BY <2>1, <2>4 DEF States
  <2> HIDE DEF b
  <2>7. /\ w.todo = b.todo /\ w.base = b.base /\ w.put = b.put
        /\ w.mem = b.mem
    BY <2>3, <2>6, Unchanged
  <2>8. Left(w.todo) = 3 /\ Single(w.todo)
    BY <2>1, <2>5, <2>6, <2>7
  <2> QED
    BY <2>2, <2>4, <2>6, <2>7, <2>8, <1>3 DEF w
<1>4. CASE Current(v).op = "compare"
  <2> DEFINE base == v.put + 1
             a == Advance(v, <<>>)
             b == Put(a, 1)
             c == [b EXCEPT !.base = base]
             w == Onward(v)
  <2>1. a \in States /\ Single(a.todo) /\ Left(a.todo) = 0 + Left(v.todo) - 1
    BY <1>1, <1>4, PlainProperties, LeftAdvance, AdvanceType
  <2>2. a.mem = v.mem /\ a.put = v.put
    BY <1>1, Unchanged
  <2>3. w = Count(c) /\ base \in Nat
    BY <1>1, <1>4, OnwardCompare
  <2> HIDE DEF a, w
  <2>4. /\ b \in States /\ b.todo = a.todo /\ b.mem = a.mem
        /\ b.put = a.put + 1
    BY <2>1, PutType, Unchanged
  <2> HIDE DEF b
  <2>5. /\ c \in States /\ c.todo = b.todo /\ c.mem = b.mem
        /\ c.put = b.put /\ c.base = base
    BY <2>3, <2>4 DEF States
  <2> HIDE DEF c
  <2>6. /\ w.todo = c.todo /\ w.mem = c.mem /\ w.put = c.put
        /\ w.base = c.base
    BY <2>3, <2>5, Unchanged
  <2>7. Single(w.todo) /\ Left(w.todo) = Left(v.todo) - 1
    BY <2>1, <2>4, <2>5, <2>6, <1>1
  <2>8. w.mem = v.mem /\ w.put = v.put + 1 /\ w.base = w.put
    BY <2>2, <2>4, <2>5, <2>6
  <2> QED
    BY <2>7, <2>8, <1>4 DEF w
<1> QED
  BY <1>2, <1>3, <1>4

-----------------------------------------------------------------------------
(* The verifier's comparisons stand in its list one by one, at most three. *)
Counting ==
  /\ Single(st[BOB].todo)
  /\ st[BOB].mem # 0 => Left(st[BOB].todo) <= 3

LEMMA InitCounting ==
  Init => Counting
<1> SUFFICES ASSUME Init PROVE Counting
  OBVIOUS
<1> DEFINE word == Ops("word", run.witness)
           head == Ops("header", 1)
<1>1. BOB \in Parties /\ run.witness \in Nat
  BY RunProperties, PartiesProperties DEF Init
<1>2. st[BOB].todo = word \o head /\ st[BOB].mem = 0
  BY <1>1 DEF Init
<1>3. word \in Seq(Operation) /\ head \in Seq(Operation)
  BY <1>1, OpsType DEF OpNames
<1>4. Single(word) /\ Single(head)
  BY <1>1, OpsShape DEF Single
<1> HIDE DEF word, head
<1> QED
  BY <1>2, <1>3, <1>4, LeftOfConcat DEF Counting

(* The three functions of the refinement mapping.                          *)
Hashed(s) ==
  IF Digest(s) = {} THEN "empty"
  ELSE IF s.garbled \/ run.false_block \in Digest(s) THEN "nonzero"
  ELSE "zeros"

Compared(s) == IF s.mem = 0 THEN 0 ELSE 3 - Left(s.todo)

Decided(s) ==
  CASE s.out = "running" -> "running"
    [] s.out = "ended" -> "accepted"
    [] OTHER -> "stopped"

(* The steps of ZeroCheck in terms of the verifier's states.               *)
LEMMA ZeroSteps ==
  /\ Hashed(st[BOB]) = "empty" /\ Compared(st[BOB]) = 0
       /\ Decided(st[BOB]) = "running" => Zero!Init
  /\ run' = run /\ st'[BOB] = st[BOB] => UNCHANGED Zero!vars
  /\ /\ Decided(st[BOB]) = "running"
     /\ Hashed(st[BOB])' \in
          IF Hashed(st[BOB]) = "nonzero" THEN {"nonzero"}
          ELSE {"zeros", "nonzero"}
     /\ Compared(st[BOB])' = Compared(st[BOB])
     /\ Decided(st[BOB])' = Decided(st[BOB])
     => Zero!Collect
  /\ /\ Hashed(st[BOB])' = Hashed(st[BOB])
     /\ Compared(st[BOB])' = Compared(st[BOB])
     /\ Decided(st[BOB])' = Decided(st[BOB])
     => UNCHANGED Zero!vars
  /\ /\ Decided(st[BOB]) = "running" /\ Hashed(st[BOB]) # "nonzero"
     /\ Hashed(st[BOB])' = "empty"
     /\ Compared(st[BOB])' = Compared(st[BOB]) + 1
     /\ Decided(st[BOB])' = Decided(st[BOB])
     => Zero!Compare
  /\ /\ Decided(st[BOB]) = "running"
     /\ Compared(st[BOB])' \in 0 .. 3 /\ Decided(st[BOB])' = "stopped"
     => Zero!Stop
  /\ /\ Decided(st[BOB]) = "running" /\ Compared(st[BOB]) = 3
     /\ Compared(st[BOB])' = 3 /\ Decided(st[BOB])' = "accepted"
     => Zero!Accept
<1>1. /\ Hashed(st[BOB]) = "empty" /\ Compared(st[BOB]) = 0
           /\ Decided(st[BOB]) = "running" => Zero!Init
  BY DEF Zero!Init, Hashed, Compared, Decided, Left, Compares
<1>2. run' = run /\ st'[BOB] = st[BOB] => UNCHANGED Zero!vars
  BY DEF Zero!vars, Digest
<1>3. /\ Decided(st[BOB]) = "running"
      /\ Hashed(st[BOB])' \in
           IF Hashed(st[BOB]) = "nonzero" THEN {"nonzero"}
           ELSE {"zeros", "nonzero"}
      /\ Compared(st[BOB])' = Compared(st[BOB])
      /\ Decided(st[BOB])' = Decided(st[BOB])
      => Zero!Collect
  BY DEF Zero!Collect, Hashed, Compared, Decided, Left, Compares
<1>4. /\ Hashed(st[BOB])' = Hashed(st[BOB])
      /\ Compared(st[BOB])' = Compared(st[BOB])
      /\ Decided(st[BOB])' = Decided(st[BOB])
      => UNCHANGED Zero!vars
  BY DEF Zero!vars, Hashed, Compared, Decided, Left, Compares
<1>5. /\ Decided(st[BOB]) = "running" /\ Hashed(st[BOB]) # "nonzero"
      /\ Hashed(st[BOB])' = "empty"
      /\ Compared(st[BOB])' = Compared(st[BOB]) + 1
      /\ Decided(st[BOB])' = Decided(st[BOB])
      => Zero!Compare
  BY DEF Zero!Compare, Hashed, Compared, Decided, Left, Compares
<1>6. /\ Decided(st[BOB]) = "running"
      /\ Compared(st[BOB])' \in 0 .. 3 /\ Decided(st[BOB])' = "stopped"
      => Zero!Stop
  BY DEF Zero!Stop, Zero!Hashes, Zero!Comparisons,
         Hashed, Compared, Decided, Left, Compares
<1>7. /\ Decided(st[BOB]) = "running" /\ Compared(st[BOB]) = 3
      /\ Compared(st[BOB])' = 3 /\ Decided(st[BOB])' = "accepted"
      => Zero!Accept
  BY DEF Zero!Accept, Zero!Hashes, Zero!Comparisons,
         Hashed, Compared, Decided, Left, Compares
<1> QED
  BY <1>1, <1>2, <1>3, <1>4, <1>5, <1>6, <1>7

(* The verifier ends.                                                      *)
LEMMA ZeroEnds ==
  ASSUME Inv, Counting, NEW v, Ready(BOB, v), Frame(BOB),
         st'[BOB].out # "running",
         st'[BOB].out = "ended" => Current(v).op = "report"
  PROVE  Counting' /\ (Zero!Stop \/ Zero!Accept)
<1> DEFINE s == st[BOB]
           t == st'[BOB]
<1>1. /\ s \in States /\ s.out = "running" /\ s.todo # <<>>
      /\ s.todo \in Seq(Operation) /\ t \in States
      /\ t.mem = s.mem /\ t.todo \in {s.todo, Advance(s, <<>>).todo}
      /\ Current(s) = Current(v)
  <2>1. /\ s \in States /\ s.out = "running" /\ s.todo # <<>>
        /\ Current(s) = Current(v)
    BY ReadyProperties
  <2>2. t \in States
    BY PartiesProperties DEF Frame
  <2>3. t.mem = s.mem /\ t.todo \in {s.todo, Advance(s, <<>>).todo}
    BY DEF Frame, Leaves
  <2> QED
    BY <2>1, <2>2, <2>3 DEF States
<1>2. Left(s.todo) \in Nat /\ Left(t.todo) \in Nat
  <2>1. t.todo \in Seq(Operation)
    BY <1>1 DEF States
  <2> QED
    BY <2>1, <1>1, LeftType
<1>3. Single(s.todo) /\ (s.mem # 0 => Left(s.todo) <= 3)
  BY DEF Counting
<1>4. /\ <<>> \in Seq(Operation) /\ Single(<<>>) /\ Left(<<>>) = 0
  BY PlainProperties
<1> HIDE DEF s, t
<1>5. /\ Single(t.todo)
      /\ t.todo = s.todo \/
           Left(t.todo) = Left(s.todo)
                            - (IF Current(s).op = "compare" THEN 1 ELSE 0)
  <2>1. /\ Single(Advance(s, <<>>).todo)
        /\ Left(Advance(s, <<>>).todo) =
             0 + Left(s.todo) - (IF Current(s).op = "compare" THEN 1 ELSE 0)
    BY <1>1, <1>3, <1>4, LeftAdvance
  <2> QED
    BY <2>1, <1>1, <1>2, <1>3
<1>6. t.mem # 0 => Left(t.todo) <= 3
  BY <1>1, <1>2, <1>3, <1>5
<1>7. Counting'
  BY <1>5, <1>6 DEF Counting, t
<1>8. Compared(t) \in 0 .. 3
  BY <1>2, <1>6 DEF Compared
<1>9. Decided(s) = "running"
  BY <1>1 DEF Decided
<1>10. t.out # "running"
  BY DEF t
<1>11. CASE t.out = "ended"
  <2>1. Current(v).op = "report"
    BY <1>11 DEF t
  <2>2. Good(v) /\ run \in Runs /\ Alike(s, v)
    BY ReadyProperties DEF Ready, s
  <2>3. v.mem # 0 /\ v \in States
    BY <2>1, <2>2, GoodProperties
  <2>4. s.mem # 0 /\ s.todo = v.todo
    BY <2>2, <2>3 DEF Alike
  <2>5. Len(v.todo) = 1
    <3>1. /\ Program(v.todo, TRUE) /\ Len(v.todo) \in Nat
          /\ v.todo # <<>> /\ Current(v) = v.todo[1]
      <4>1. v.todo # <<>>
        BY <2>2, GoodProperties
      <4>2. v.todo \in Seq(Operation)
        BY <2>3 DEF States
      <4>3. Len(v.todo) \in Nat /\ Current(v) = v.todo[1]
        BY <4>1, <4>2 DEF Current
      <4>4. (v.mem # 0) = TRUE
        BY <2>3
      <4>5. Program(v.todo, v.mem # 0)
        BY <2>2 DEF Good
      <4>6. Program(v.todo, TRUE)
        BY <4>4, <4>5
      <4> QED
        BY <4>1, <4>3, <4>6
    <3>2. Len(v.todo) >= 1
      BY <3>1 DEF Program
    <3>3. Len(v.todo) >= 2 => v.todo[1].op \in Inner
      BY <3>1 DEF Program
    <3> QED
      BY <2>1, <3>1, <3>2, <3>3, SmallNumbers DEF Inner
  <2>6. Left(s.todo) = 0
    <3>1. s.todo = <<Current(s)>> /\ Current(s) \in Operation
      BY <2>4, <2>5, <1>1, CurrentType DEF Current
    <3>2. Left(<<Current(s)>>) = 0
      BY <3>1, <2>1, <1>1, LeftOfOne
    <3> QED
      BY <3>1, <3>2
  <2>7. Left(t.todo) = 0
    BY <2>1, <2>6, <1>1, <1>5
  <2>8. Compared(s) = 3 /\ Compared(t) = 3
    BY <2>4, <2>6, <2>7, <1>1 DEF Compared
  <2>9. Decided(t) = "accepted"
    BY <1>11 DEF Decided
  <2>10. Compared(st[BOB])' = Compared(t) /\ Decided(st[BOB])' = Decided(t)
    BY DEF Compared, Decided, t, Left, Compares
  <2>11. Zero!Accept
    BY <2>8, <2>9, <2>10, <1>9, ZeroSteps DEF s
  <2> QED
    BY <2>11, <1>7
<1>12. CASE t.out # "ended"
  <2>1. Decided(t) = "stopped"
    BY <1>10, <1>12 DEF Decided
  <2>2. Compared(st[BOB])' = Compared(t) /\ Decided(st[BOB])' = Decided(t)
    BY DEF Compared, Decided, t, Left, Compares
  <2>3. Zero!Stop
    BY <2>1, <2>2, <1>8, <1>9, ZeroSteps DEF s
  <2> QED
    BY <2>3, <1>7
<1> QED
  BY <1>11, <1>12

(* The verifier goes on.                                                   *)
LEMMA ZeroGoesOn ==
  ASSUME Inv, Inv', Counting, NEW v, Ready(BOB, v), Frame(BOB),
         st'[BOB].out = "running", Current(v).op # "report",
         Alike(st'[BOB], Onward(v))
  PROVE  /\ Counting'
         /\ Zero!Collect \/ Zero!Compare \/ UNCHANGED Zero!vars
<1> DEFINE s == st[BOB]
           t == st'[BOB]
           w == Onward(v)
           fb == run.false_block
<1>1. /\ Good(v) /\ Alike(s, v) /\ Alike(t, w) /\ run \in Runs
      /\ s.out = "running" /\ t.out = "running" /\ run' = run
      /\ s \in States /\ t \in States
      /\ ~ s.garbled /\ ~ t.garbled
  <2>1. t \in States
    BY PartiesProperties DEF Frame
  <2> QED
    BY <2>1, ReadyProperties DEF Ready, Inv, Frame
<1>2. fb \in Nat /\ fb \notin 1 .. t.base
  BY <1>1, RunProperties DEF Inv, BlocksTrue
<1>3. /\ s.mem \in Nat /\ s.put \in Nat /\ s.base \in Nat
      /\ t.mem \in Nat /\ t.put \in Nat /\ t.base \in Nat
      /\ Left(s.todo) \in Nat /\ Left(t.todo) \in Nat
  <2>1. /\ s.mem \in Nat /\ s.put \in Nat /\ s.base \in Nat
        /\ t.mem \in Nat /\ t.put \in Nat /\ t.base \in Nat
        /\ s.todo \in Seq(Operation) /\ t.todo \in Seq(Operation)
    BY <1>1 DEF States
  <2> QED
    BY <2>1, LeftType
<1>4. /\ s.todo = v.todo /\ s.mem = v.mem /\ s.put = v.put
      /\ s.base = v.base
      /\ t.todo = w.todo /\ t.mem = w.mem /\ t.put = w.put
      /\ t.base = w.base
  BY <1>1 DEF Alike
<1>5. Single(s.todo) /\ (s.mem # 0 => Left(s.todo) <= 3)
  BY DEF Counting
<1>6. /\ Single(w.todo)
      /\ Current(v).op = "header" =>
           /\ w.mem # 0 /\ w.base = v.base /\ w.put = v.put
           /\ Left(w.todo) = 3
      /\ Current(v).op = "compare" =>
           /\ w.mem = v.mem /\ w.put = v.put + 1 /\ w.base = w.put
           /\ Left(w.todo) = Left(v.todo) - 1
      /\ Current(v).op \notin {"header", "compare"} =>
           /\ w.mem = v.mem /\ w.base = v.base
           /\ w.put \in Nat /\ v.put <= w.put
           /\ Left(w.todo) = Left(v.todo)
  BY <1>1, <1>4, <1>5, OnwardLeft
<1>7. v.mem = 0 <=> Current(v).op \in {"word", "header"}
  BY <1>1, GoodProperties
<1>8. /\ Decided(s) = "running" /\ Decided(st[BOB])' = "running"
      /\ Compared(st[BOB])' = Compared(t) /\ Hashed(st[BOB])' = Hashed(t)
  BY <1>1 DEF Decided, Compared, Hashed, Left, Compares, Digest
<1>9. /\ Hashed(s) = IF Digest(s) = {} THEN "empty"
                     ELSE IF fb \in Digest(s) THEN "nonzero" ELSE "zeros"
      /\ Hashed(t) = IF Digest(t) = {} THEN "empty"
                     ELSE IF fb \in Digest(t) THEN "nonzero" ELSE "zeros"
      /\ Digest(s) = s.base + 1 .. s.put /\ Digest(t) = t.base + 1 .. t.put
  BY <1>1 DEF Hashed, Digest
<1> HIDE DEF s, t, w, fb
<1>10. CASE Current(v).op = "header"
  <2>1. Compared(s) = 0 /\ Compared(t) = 0
    BY <1>4, <1>6, <1>7, <1>10 DEF Compared
  <2>2. Hashed(t) = Hashed(s)
    BY <1>4, <1>6, <1>9, <1>10
  <2>3. UNCHANGED Zero!vars
    BY <2>1, <2>2, <1>8, ZeroSteps DEF s
  <2>4. Counting'
    BY <1>4, <1>6, <1>10 DEF Counting, t
  <2> QED
    BY <2>3, <2>4
<1>11. CASE Current(v).op = "compare"
  <2>1. /\ s.mem # 0 /\ t.mem # 0 /\ t.put = s.put + 1 /\ t.base = t.put
        /\ Left(t.todo) = Left(s.todo) - 1 /\ Single(t.todo)
    BY <1>4, <1>6, <1>7, <1>11
  <2>2. Compared(t) = Compared(s) + 1
    BY <2>1, <1>3 DEF Compared
  <2>3. Digest(t) = {}
    BY <2>1, <1>3, <1>9
  <2>4. fb \notin Digest(s)
    BY <2>1, <1>2, <1>3, <1>9
  <2>5. Hashed(t) = "empty" /\ Hashed(s) # "nonzero"
    BY <2>3, <2>4, <1>9
  <2>6. Zero!Compare
    BY <2>2, <2>5, <1>8, ZeroSteps DEF s
  <2>7. Counting'
    BY <2>1, <1>3, <1>5 DEF Counting, t
  <2> QED
    BY <2>6, <2>7
<1>12. CASE Current(v).op \notin {"header", "compare"}
  <2>1. /\ t.mem = s.mem /\ t.base = s.base /\ s.put <= t.put
        /\ Left(t.todo) = Left(s.todo) /\ Single(t.todo)
    BY <1>4, <1>6, <1>12
  <2>2. Compared(t) = Compared(s)
    BY <2>1 DEF Compared
  <2>3. Counting'
    BY <2>1, <1>5 DEF Counting, t
  <2>4. CASE t.put = s.put
    <3>1. Hashed(t) = Hashed(s)
      BY <2>1, <2>4, <1>9
    <3>2. UNCHANGED Zero!vars
      BY <2>2, <3>1, <1>8, ZeroSteps DEF s
    <3> QED
      BY <2>3, <3>2
  <2>5. CASE t.put # s.put
    <3>1. Digest(s) \subseteq Digest(t)
      BY <2>1, <1>3, <1>9
    <3>2. Digest(t) # {}
      <4>1. s.base <= s.put
        BY PartiesProperties DEF Inv, s
      <4>2. t.put \in Digest(t)
        BY <4>1, <2>1, <2>5, <1>3, <1>9
      <4> QED
        BY <4>2
    <3>3. Hashed(t) \in IF Hashed(s) = "nonzero" THEN {"nonzero"}
                        ELSE {"zeros", "nonzero"}
      BY <3>1, <3>2, <1>9
    <3>4. Zero!Collect
      BY <2>2, <3>3, <1>8, ZeroSteps DEF s
    <3> QED
      BY <2>3, <3>4
  <2> QED
    BY <2>4, <2>5
<1> QED
  BY <1>10, <1>11, <1>12

LEMMA ZeroNext ==
  ASSUME Inv, Inv', Counting, [Next]_vars
  PROVE  Counting' /\ [Zero!Next]_(Zero!vars)
<1>1. ALICE # BOB /\ Parties = {ALICE, BOB} /\ Peer(ALICE) = BOB
      /\ BOB \in Parties /\ ALICE \in Parties
  BY PartiesProperties
<1>2. ASSUME run' = run, st'[BOB] = st[BOB]
      PROVE  Counting' /\ [Zero!Next]_(Zero!vars)
  <2>1. Counting'
    BY <1>2 DEF Counting, Single, Left, Compares
  <2>2. UNCHANGED Zero!vars
    BY <1>2, ZeroSteps
  <2> QED
    BY <2>1, <2>2
<1>3. PICK u, n, a, b : Trace(u, n) /\ Synchrony(u, n, a, b)
  BY DEF Inv
<1>4. CASE UNCHANGED vars
  BY <1>2, <1>4 DEF vars
<1>5. ASSUME Step(ALICE) \/ Broken(ALICE) \/ ProverStops
      PROVE  Counting' /\ [Zero!Next]_(Zero!vars)
  <2>1. st[ALICE].out = "running"
    BY <1>5, OnlyRunningSteps
  <2>2. Ready(ALICE, u[a])
    BY <2>1, <1>1, <1>3, Placed
  <2>3. Frame(ALICE)
    BY <2>2, <1>5, StepOutcome DEF Outcome
  <2> QED
    BY <2>3, <1>1, <1>2 DEF Frame
<1>6. ASSUME Step(BOB) \/ Broken(BOB)
      PROVE  Counting' /\ [Zero!Next]_(Zero!vars)
  <2>1. st[BOB].out = "running"
    BY <1>6, OnlyRunningSteps
  <2> DEFINE v == u[b]
  <2>2. Ready(BOB, v)
    BY <2>1, <1>1, <1>3, Placed
  <2> HIDE DEF v
  <2>3. Outcome(BOB, v)
    BY <2>2, <1>6, StepOutcome
  <2>4. Frame(BOB)
    BY <2>3 DEF Outcome
  <2>5. CASE st'[BOB].out # "running"
    <3>1. st'[BOB].out = "ended" => Current(v).op = "report"
      BY <2>3, <2>5 DEF Outcome, Stopped, Moved
    <3>2. Counting' /\ (Zero!Stop \/ Zero!Accept)
      BY <2>2, <2>4, <2>5, <3>1, ZeroEnds
    <3> QED
      BY <3>2 DEF Zero!Next
  <2>6. CASE st'[BOB].out = "running"
    <3>1. Current(v).op # "report" /\ Alike(st'[BOB], Onward(v))
      BY <2>3, <2>6 DEF Outcome, Stopped, Moved
    <3>2. /\ Counting'
          /\ Zero!Collect \/ Zero!Compare \/ UNCHANGED Zero!vars
      BY <2>2, <2>4, <2>6, <3>1, ZeroGoesOn
    <3> QED
      BY <3>2 DEF Zero!Next
  <2> QED
    BY <2>5, <2>6
<1> QED
  BY <1>1, <1>4, <1>5, <1>6 DEF Next

(* The verifier's process implements the accumulator of ZeroCheck,         *)
(* whatever comes between sending and receiving: check_zero_MAC lets no    *)
(* nonzero block past a comparison, and the verdict comes after all three. *)
THEOREM VerifierKeepsZeroCheck ==
  Spec => KeepsZeroCheck
<1>1. Init => Counting /\ Zero!Init
  <2> SUFFICES ASSUME Init PROVE Zero!Init
    BY InitCounting
  <2>1. BOB \in Parties
    BY PartiesProperties
  <2>2. /\ st[BOB].mem = 0 /\ st[BOB].put = 0 /\ st[BOB].base = 0
        /\ st[BOB].out = "running"
    BY <2>1 DEF Init
  <2>3. Digest(st[BOB]) = {}
    BY <2>2 DEF Digest
  <2> QED
    BY <2>2, <2>3, ZeroSteps DEF Hashed, Compared, Decided
<1>2. Inv /\ Inv' /\ Counting /\ [Next]_vars =>
        Counting' /\ [Zero!Next]_(Zero!vars)
  BY ZeroNext
<1> QED
  BY <1>1, <1>2, InvAlways, PTL DEF Spec, KeepsZeroCheck, Zero!Spec
=============================================================================
