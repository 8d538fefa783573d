---------------------------- MODULE MCAuthValues ----------------------------
(* GF(4): 0, 1, 2 (a root of x^2 + x + 1) and 3 = 2 + 1.                   *)
EXTENDS AuthValues, Bitwise

MCField == 0 .. 3

MCXor(a, b) == a ^^ b

MCgfmul(a, b) ==
  IF a = 0 \/ b = 0 THEN 0 ELSE 1 + ((a + b - 2) % 3)
=============================================================================
