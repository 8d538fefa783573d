-------------------------- MODULE AuthValuesProofs --------------------------
(***************************************************************************)
(* Proofs about module AuthValues, for every field of characteristic 2.    *)
(***************************************************************************)
EXTENDS AuthValues, TLAPS

LEMMA Closed ==
  ASSUME NEW a \in Field, NEW b \in Field
  PROVE  XOR(a, b) \in Field /\ gfmul(a, b) \in Field
BY FieldAssumption

LEMMA InitTypes == Init => TypeOK
BY DEF Init, TypeOK

(* One lemma for all operations that compute a value.                      *)
LEMMA EmitTypes ==
  ASSUME TypeOK, NEW w \in Wires, Emit(w)
  PROVE  TypeOK'
BY DEF TypeOK, Emit

LEMMA WireType ==
  ASSUME TypeOK
  PROVE  /\ \A n \in DOMAIN wires : wires[n] \in Wires
         /\ \A n \in DOMAIN blocks : blocks[n] \in Wires
         /\ delta \in Field /\ delta # zero
BY DEF TypeOK

LEMMA TypesStep == TypeOK /\ [Next]_vars => TypeOK'
<1> SUFFICES ASSUME TypeOK, [Next]_vars
             PROVE  TypeOK'
  OBVIOUS
<1>1. CASE Commit
  <2>1. PICK x \in Field, d \in Field, key \in Field :
          Emit(Wire(x, MacOf(d, key), XOR(key, gfmul(delta, XOR(d, x)))))
    BY <1>1 DEF Commit
  <2>2. Wire(x, MacOf(d, key), XOR(key, gfmul(delta, XOR(d, x)))) \in Wires
    BY Closed, WireType DEF Wire, Wires, MacOf
  <2> QED
    BY <2>1, <2>2, EmitTypes
<1>2. CASE multiply_const
  <2>1. PICK n \in DOMAIN wires, cst \in Field :
          Emit(Wire(gfmul(wires[n].x, cst), gfmul(wires[n].m, cst),
                    gfmul(wires[n].k, cst)))
    BY <1>2 DEF multiply_const
  <2>2. Wire(gfmul(wires[n].x, cst), gfmul(wires[n].m, cst),
             gfmul(wires[n].k, cst)) \in Wires
    BY Closed, WireType DEF Wire, Wires
  <2> QED
    BY <2>1, <2>2, EmitTypes
<1>3. CASE compute_xor
  <2>1. PICK n1 \in DOMAIN wires, n2 \in DOMAIN wires :
          Emit(Wire(XOR(wires[n1].x, wires[n2].x),
                    XOR(wires[n1].m, wires[n2].m),
                    XOR(wires[n1].k, wires[n2].k)))
    BY <1>3 DEF compute_xor
  <2>2. Wire(XOR(wires[n1].x, wires[n2].x), XOR(wires[n1].m, wires[n2].m),
             XOR(wires[n1].k, wires[n2].k)) \in Wires
    BY Closed, WireType DEF Wire, Wires
  <2> QED
    BY <2>1, <2>2, EmitTypes
<1>4. CASE compute_mul
  <2>1. PICK n1 \in DOMAIN wires, n2 \in DOMAIN wires, key \in Field :
          Emit(Wire(gfmul(wires[n1].x, wires[n2].x),
                    MacOf(gfmul(wires[n1].x, wires[n2].x), key), key))
    BY <1>4 DEF compute_mul
  <2>2. Wire(gfmul(wires[n1].x, wires[n2].x),
             MacOf(gfmul(wires[n1].x, wires[n2].x), key), key) \in Wires
    BY Closed, WireType DEF Wire, Wires, MacOf
  <2> QED
    BY <2>1, <2>2, EmitTypes
<1>9. CASE compute_add_const
  <2>1. PICK n \in DOMAIN wires, r \in Field :
          Emit(Wire(XOR(wires[n].x, r), wires[n].m,
                    XOR(wires[n].k, gfmul(delta, r))))
    BY <1>9 DEF compute_add_const
  <2>2. Wire(XOR(wires[n].x, r), wires[n].m,
             XOR(wires[n].k, gfmul(delta, r))) \in Wires
    BY Closed, WireType DEF Wire, Wires
  <2> QED
    BY <2>1, <2>2, EmitTypes
<1>5. CASE Put
  BY <1>5 DEF Put, TypeOK
<1>6. CASE Compare
  BY <1>6 DEF Compare, TypeOK
<1>7. CASE SetEqualities
  BY <1>7 DEF SetEqualities, SetEquality, TypeOK
<1>8. CASE UNCHANGED vars
  BY <1>8 DEF vars, TypeOK
<1> QED
  BY <1>1, <1>2, <1>3, <1>4, <1>5, <1>6, <1>7, <1>8, <1>9 DEF Next

(* The type invariant.                                                     *)
THEOREM TypeCorrect == Spec => []TypeOK
BY InitTypes, TypesStep, PTL DEF Spec

-----------------------------------------------------------------------------
(* Each formula of the verifier keeps the relation.                        *)
LEMMA Cancel ==
  ASSUME NEW a \in Field, NEW b \in Field
  PROVE  XOR(XOR(a, b), b) = a
<1>1. XOR(XOR(a, b), b) = XOR(a, XOR(b, b))
  BY FieldAssumption
<1>2. XOR(b, b) = zero /\ XOR(a, zero) = a
  BY FieldAssumption
<1> QED
  BY <1>1, <1>2

LEMMA Associative ==
  ASSUME NEW a \in Field, NEW b \in Field, NEW c \in Field
  PROVE  /\ XOR(XOR(a, b), c) = XOR(a, XOR(b, c))
         /\ gfmul(gfmul(a, b), c) = gfmul(a, gfmul(b, c))
BY FieldAssumption

LEMMA Commutative ==
  ASSUME NEW a \in Field, NEW b \in Field
  PROVE  XOR(a, b) = XOR(b, a) /\ gfmul(a, b) = gfmul(b, a)
BY FieldAssumption

LEMMA Distributive ==
  ASSUME NEW a \in Field, NEW b \in Field, NEW c \in Field
  PROVE  gfmul(a, XOR(b, c)) = XOR(gfmul(a, b), gfmul(a, c))
BY FieldAssumption

(* Two sums of two, added up in the other order.                           *)
LEMMA Interchange ==
  ASSUME NEW a \in Field, NEW b \in Field, NEW c \in Field, NEW d \in Field
  PROVE  XOR(XOR(a, b), XOR(c, d)) = XOR(XOR(a, c), XOR(b, d))
<1>1. /\ XOR(c, d) \in Field /\ XOR(b, d) \in Field
  BY Closed
<1>2. XOR(XOR(a, b), XOR(c, d)) = XOR(a, XOR(b, XOR(c, d)))
  BY <1>1, Associative
<1>3. /\ XOR(b, XOR(c, d)) = XOR(XOR(b, c), d)
      /\ XOR(XOR(c, b), d) = XOR(c, XOR(b, d))
  BY Associative
<1>4. XOR(b, c) = XOR(c, b)
  BY Commutative
<1>5. XOR(a, XOR(c, XOR(b, d))) = XOR(XOR(a, c), XOR(b, d))
  BY <1>1, Associative
<1> QED
  BY <1>2, <1>3, <1>4, <1>5

LEMMA CommitAuthentic ==
  ASSUME TypeOK, NEW x \in Field, NEW d \in Field, NEW key \in Field
  PROVE  MacOf(d, key) =
           XOR(XOR(key, gfmul(delta, XOR(d, x))), gfmul(delta, x))
<1> DEFINE dd == gfmul(delta, d)
           dx == gfmul(delta, x)
<1>1. dd \in Field /\ dx \in Field /\ delta \in Field
  BY Closed, WireType
<1>2. gfmul(delta, XOR(d, x)) = XOR(dd, dx)
  BY <1>1, Distributive
<1> HIDE DEF dd, dx
<1>3. XOR(key, XOR(dd, dx)) = XOR(XOR(key, dd), dx)
  BY <1>1, Associative
<1>4. XOR(key, dd) \in Field
  BY <1>1, Closed
<1>5. XOR(XOR(XOR(key, dd), dx), dx) = XOR(key, dd)
  BY <1>1, <1>4, Cancel
<1> QED
  BY <1>2, <1>3, <1>5 DEF MacOf, dd, dx

LEMMA MultiplyAuthentic ==
  ASSUME TypeOK, NEW w \in Wires, Authentic(w), NEW cst \in Field
  PROVE  gfmul(w.m, cst) =
           XOR(gfmul(w.k, cst), gfmul(delta, gfmul(w.x, cst)))
<1> DEFINE dx == gfmul(delta, w.x)
<1>1. /\ delta \in Field /\ w.x \in Field /\ w.m \in Field /\ w.k \in Field
      /\ dx \in Field
  BY WireType, Closed DEF Wires
<1>2. gfmul(delta, gfmul(w.x, cst)) = gfmul(dx, cst)
  BY <1>1, Associative
<1>3. w.m = XOR(w.k, dx)
  BY DEF Authentic
<1> HIDE DEF dx
<1>4. gfmul(cst, XOR(w.k, dx)) = XOR(gfmul(cst, w.k), gfmul(cst, dx))
  BY <1>1, Distributive
<1>5. /\ gfmul(cst, w.k) = gfmul(w.k, cst) /\ gfmul(cst, dx) = gfmul(dx, cst)
      /\ gfmul(cst, w.m) = gfmul(w.m, cst)
  BY <1>1, Commutative
<1> QED
  BY <1>2, <1>3, <1>4, <1>5

LEMMA XorAuthentic ==
  ASSUME TypeOK, NEW v \in Wires, NEW w \in Wires, Authentic(v), Authentic(w)
  PROVE  XOR(v.m, w.m) =
           XOR(XOR(v.k, w.k), gfmul(delta, XOR(v.x, w.x)))
<1> DEFINE dv == gfmul(delta, v.x)
           dw == gfmul(delta, w.x)
<1>1. /\ v.k \in Field /\ w.k \in Field /\ v.x \in Field /\ w.x \in Field
      /\ dv \in Field /\ dw \in Field /\ delta \in Field
  BY WireType, Closed DEF Wires
<1>2. gfmul(delta, XOR(v.x, w.x)) = XOR(dv, dw)
  BY <1>1, Distributive
<1>3. v.m = XOR(v.k, dv) /\ w.m = XOR(w.k, dw)
  BY DEF Authentic
<1> HIDE DEF dv, dw
<1>4. XOR(XOR(v.k, dv), XOR(w.k, dw)) = XOR(XOR(v.k, w.k), XOR(dv, dw))
  BY <1>1, Interchange
<1> QED
  BY <1>2, <1>3, <1>4

LEMMA AddConstAuthentic ==
  ASSUME TypeOK, NEW w \in Wires, Authentic(w), NEW r \in Field
  PROVE  w.m = XOR(XOR(w.k, gfmul(delta, r)), gfmul(delta, XOR(w.x, r)))
<1> DEFINE dx == gfmul(delta, w.x)
           dr == gfmul(delta, r)
<1>1. /\ w.k \in Field /\ w.x \in Field /\ delta \in Field
      /\ dx \in Field /\ dr \in Field
  BY WireType, Closed DEF Wires
<1>2. gfmul(delta, XOR(w.x, r)) = XOR(dx, dr)
  BY <1>1, Distributive
<1>3. w.m = XOR(w.k, dx)
  BY DEF Authentic
<1> HIDE DEF dx, dr
<1>4. XOR(dx, dr) = XOR(dr, dx) /\ XOR(w.k, dr) \in Field
  BY <1>1, Commutative, Closed
<1>5. XOR(XOR(w.k, dr), XOR(dr, dx)) = XOR(XOR(XOR(w.k, dr), dr), dx)
  BY <1>1, <1>4, Associative
<1>6. XOR(XOR(w.k, dr), dr) = w.k
  BY <1>1, Cancel
<1> QED
  BY <1>2, <1>3, <1>4, <1>5, <1>6 DEF dr

LEMMA EmitAuthentic ==
  ASSUME TypeOK, MacsHold, NEW w \in Wires, Authentic(w), Emit(w)
  PROVE  MacsHold'
<1>1. /\ wires' = Append(wires, w) /\ blocks' = blocks /\ delta' = delta
      /\ wires \in Seq(Wires)
  BY DEF Emit, TypeOK
<1>2. \A n \in DOMAIN wires' : Authentic(wires'[n])
  BY <1>1 DEF MacsHold
<1> QED
  BY <1>1, <1>2 DEF MacsHold, Authentic

LEMMA MacsStep == TypeOK /\ MacsHold /\ [Next]_vars => MacsHold'
<1> SUFFICES ASSUME TypeOK, MacsHold, [Next]_vars
             PROVE  MacsHold'
  OBVIOUS
<1>0. /\ \A n \in DOMAIN wires : wires[n] \in Wires /\ Authentic(wires[n])
      /\ delta \in Field
  BY WireType DEF MacsHold
<1>1. CASE Commit
  <2>1. PICK x \in Field, d \in Field, key \in Field :
          Emit(Wire(x, MacOf(d, key), XOR(key, gfmul(delta, XOR(d, x)))))
    BY <1>1 DEF Commit
  <2> DEFINE w == Wire(x, MacOf(d, key), XOR(key, gfmul(delta, XOR(d, x))))
  <2>2. w \in Wires
    BY <1>0, Closed DEF Wire, Wires, MacOf
  <2>3. Authentic(w)
    BY CommitAuthentic DEF Authentic, Wire
  <2> QED
    BY <2>1, <2>2, <2>3, EmitAuthentic
<1>2. CASE multiply_const
  <2>1. PICK n \in DOMAIN wires, cst \in Field :
          Emit(Wire(gfmul(wires[n].x, cst), gfmul(wires[n].m, cst),
                    gfmul(wires[n].k, cst)))
    BY <1>2 DEF multiply_const
  <2> DEFINE w == Wire(gfmul(wires[n].x, cst), gfmul(wires[n].m, cst),
                       gfmul(wires[n].k, cst))
  <2>2. w \in Wires
    BY <1>0, Closed DEF Wire, Wires
  <2>3. Authentic(w)
    BY <1>0, MultiplyAuthentic DEF Authentic, Wire
  <2> QED
    BY <2>1, <2>2, <2>3, EmitAuthentic
<1>3. CASE compute_xor
  <2>1. PICK n1 \in DOMAIN wires, n2 \in DOMAIN wires :
          Emit(Wire(XOR(wires[n1].x, wires[n2].x),
                    XOR(wires[n1].m, wires[n2].m),
                    XOR(wires[n1].k, wires[n2].k)))
    BY <1>3 DEF compute_xor
  <2> DEFINE w == Wire(XOR(wires[n1].x, wires[n2].x),
                       XOR(wires[n1].m, wires[n2].m),
                       XOR(wires[n1].k, wires[n2].k))
  <2>2. w \in Wires
    BY <1>0, Closed DEF Wire, Wires
  <2>3. Authentic(w)
    BY <1>0, XorAuthentic DEF Authentic, Wire
  <2> QED
    BY <2>1, <2>2, <2>3, EmitAuthentic
<1>4. CASE compute_mul
  <2>1. PICK n1 \in DOMAIN wires, n2 \in DOMAIN wires, key \in Field :
          Emit(Wire(gfmul(wires[n1].x, wires[n2].x),
                    MacOf(gfmul(wires[n1].x, wires[n2].x), key), key))
    BY <1>4 DEF compute_mul
  <2> DEFINE w == Wire(gfmul(wires[n1].x, wires[n2].x),
                       MacOf(gfmul(wires[n1].x, wires[n2].x), key), key)
  <2>2. w \in Wires
    BY <1>0, Closed DEF Wire, Wires, MacOf
  <2>3. Authentic(w)
    BY DEF Authentic, Wire, MacOf
  <2> QED
    BY <2>1, <2>2, <2>3, EmitAuthentic
<1>9. CASE compute_add_const
  <2>1. PICK n \in DOMAIN wires, r \in Field :
          Emit(Wire(XOR(wires[n].x, r), wires[n].m,
                    XOR(wires[n].k, gfmul(delta, r))))
    BY <1>9 DEF compute_add_const
  <2> DEFINE w == Wire(XOR(wires[n].x, r), wires[n].m,
                       XOR(wires[n].k, gfmul(delta, r)))
  <2>2. w \in Wires
    BY <1>0, Closed DEF Wire, Wires
  <2>3. Authentic(w)
    BY <1>0, AddConstAuthentic DEF Authentic, Wire
  <2> QED
    BY <2>1, <2>2, <2>3, EmitAuthentic
<1>5. CASE Put
  <2>1. PICK n \in DOMAIN wires : blocks' = Append(blocks, wires[n])
    BY <1>5 DEF Put
  <2>2. blocks \in Seq(Wires) /\ wires' = wires /\ delta' = delta
    BY <1>5 DEF Put, TypeOK
  <2>3. \A m \in DOMAIN blocks' : Authentic(blocks'[m])
    BY <1>0, <2>1, <2>2 DEF MacsHold
  <2> QED
    BY <2>2, <2>3 DEF MacsHold, Authentic
<1>6. CASE Compare
  BY <1>6 DEF Compare, MacsHold, Authentic
<1>7. CASE SetEqualities
  BY <1>7 DEF SetEqualities, SetEquality, MacsHold, Authentic
<1>8. CASE UNCHANGED vars
  BY <1>8 DEF vars, MacsHold, Authentic
<1> QED
  BY <1>1, <1>2, <1>3, <1>4, <1>5, <1>6, <1>7, <1>8, <1>9 DEF Next

(* For every field: whatever the sequence of commitments, additions and    *)
(* multiplications, MAC and key differ by delta times the value.           *)
THEOREM MacsCorrect == Spec => []MacsHold
<1>1. Init => MacsHold
  BY DEF Init, MacsHold
<1> QED
  BY <1>1, InitTypes, TypesStep, MacsStep, PTL DEF Spec

-----------------------------------------------------------------------------
(* MAC and key agree on the value zero only, since delta is not zero.      *)
LEMMA EqualIsZero ==
  ASSUME TypeOK, NEW w \in Wires, Authentic(w)
  PROVE  w.m = w.k <=> w.x = zero
<1> DEFINE dx == gfmul(delta, w.x)
<1>1. w.k \in Field /\ w.x \in Field /\ dx \in Field /\ delta # zero
  BY WireType, Closed DEF Wires
<1>2. w.m = XOR(w.k, dx)
  BY DEF Authentic
<1>3. dx = zero <=> w.x = zero
  BY <1>1, WireType, FieldAssumption
<1> HIDE DEF dx
<1>4. ASSUME XOR(w.k, dx) = w.k
      PROVE  dx = zero
  <2>1. XOR(dx, w.k) = XOR(w.k, dx) /\ XOR(w.k, w.k) = zero
    BY <1>1, FieldAssumption
  <2>2. XOR(XOR(dx, w.k), w.k) = dx
    BY <1>1, Cancel
  <2> QED
    BY <1>4, <2>1, <2>2
<1>5. XOR(w.k, zero) = w.k
  BY <1>1, FieldAssumption
<1> QED
  BY <1>2, <1>3, <1>4, <1>5

(* A comparison of digests fails exactly when a block's value is not zero. *)
THEOREM ComparisonIsExact == Spec => ComparisonDecides
<1>1. ASSUME TypeOK, MacsHold, Compare
      PROVE  verdict' = "failed" <=>
               \E n \in DOMAIN blocks : blocks[n].x # zero
  <2>1. \A n \in DOMAIN blocks : blocks[n].m = blocks[n].k
                                   <=> blocks[n].x = zero
    BY <1>1, WireType, EqualIsZero DEF MacsHold
  <2> QED
    BY <1>1, <2>1 DEF Compare, Running, DigestsEqual
<1> QED
  BY <1>1, TypeCorrect, MacsCorrect, PTL DEF Spec, ComparisonDecides

(* The key and the received MAC add up to delta times the value.           *)
LEMMA SumIsProduct ==
  ASSUME TypeOK, NEW w \in Wires, Authentic(w)
  PROVE  XOR(w.k, w.m) = gfmul(delta, w.x)
<1> DEFINE dx == gfmul(delta, w.x)
<1>1. w.k \in Field /\ w.m \in Field /\ dx \in Field
  BY WireType, Closed DEF Wires
<1>2. w.m = XOR(w.k, dx) /\ XOR(w.k, dx) = XOR(dx, w.k)
  BY <1>1, FieldAssumption DEF Authentic
<1> HIDE DEF dx
<1>3. XOR(w.k, w.m) = XOR(w.m, w.k) /\ XOR(XOR(dx, w.k), w.k) = dx
  BY <1>1, Cancel, FieldAssumption
<1> QED
  BY <1>2, <1>3 DEF dx

LEMMA SameProduct ==
  ASSUME NEW d \in Field \ {zero}, NEW a \in Field, NEW b \in Field
  PROVE  gfmul(d, a) = gfmul(d, b) <=> a = b
<1>1. gfmul(d, XOR(a, b)) = XOR(gfmul(d, a), gfmul(d, b))
  BY FieldAssumption
<1>2. ASSUME gfmul(d, a) = gfmul(d, b)
      PROVE  a = b
  <2>1. gfmul(d, b) \in Field /\ XOR(a, b) \in Field
    BY Closed
  <2>2. gfmul(d, XOR(a, b)) = zero
    BY <1>1, <1>2, <2>1, FieldAssumption
  <2>3. XOR(a, b) = zero
    BY <2>1, <2>2, FieldAssumption
  <2>4. /\ XOR(XOR(a, b), b) = a
        /\ XOR(zero, b) = XOR(b, zero) /\ XOR(b, zero) = b
    BY Cancel, FieldAssumption
  <2> QED
    BY <2>3, <2>4
<1> QED
  BY <1>2

(* check_set_euqality fails exactly when the two products differ.          *)
THEOREM SetEqualityIsExact == Spec => SetEqualityDecides
<1>1. ASSUME TypeOK, MacsHold,
             NEW n1 \in DOMAIN wires, NEW n2 \in DOMAIN wires,
             SetEquality(wires[n1], wires[n2])
      PROVE  verdict' = "failed" <=> wires[n1].x # wires[n2].x
  <2> DEFINE v == wires[n1]
             w == wires[n2]
  <2>1. v \in Wires /\ w \in Wires /\ Authentic(v) /\ Authentic(w)
    BY <1>1, WireType DEF MacsHold
  <2>2. XOR(v.k, v.m) = gfmul(delta, v.x) /\ XOR(w.k, w.m) = gfmul(delta, w.x)
    BY <1>1, <2>1, SumIsProduct
  <2>3. MacsEqual(v, w) <=> v.x = w.x
    BY <1>1, <2>1, <2>2, WireType, SameProduct DEF MacsEqual, Wires
  <2> QED
    BY <1>1, <2>3 DEF SetEquality, Running
<1>2. TypeOK /\ MacsHold =>
        \A n1, n2 \in DOMAIN wires :
          SetEquality(wires[n1], wires[n2]) =>
            (verdict' = "failed" <=> wires[n1].x # wires[n2].x)
  BY <1>1
<1> QED
  BY <1>2, TypeCorrect, MacsCorrect, PTL DEF Spec, SetEqualityDecides
=============================================================================
