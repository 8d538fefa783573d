----------------------------- MODULE MCEncoder -----------------------------
(* Two secret ids (2 and 3) between the public ids 1 and 4; the digests    *)
(* take three values of the low bits, so keys with and without collisions  *)
(* (equal low bits, zero low bits) both occur.                             *)
EXTENDS Encoder

MCDigest == [pub : {0, 1}, lit : {0, 1}, val : 0 .. 2]
=============================================================================
