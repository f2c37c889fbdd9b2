------------------------------- MODULE MCPoW -------------------------------
(* Two cores with blocks of two nonces and two blocks each: 0 .. 7 are searched,
   8 and 9 are left out by the division; every set of good nonces. *)
EXTENDS PoW
=============================================================================
