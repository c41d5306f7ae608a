------------------------------ MODULE MCBarrett ------------------------------
(***************************************************************************)
(* fieldModX with W = 4, L = 2 (R = 256).  The call sites, scaled:         *)
(*   fieldModGeneric: the 25519 prime, just below R/2 (127), a 2L-word     *)
(*     product of two L-word values in, L words out;                       *)
(*   fieldModO(.., 16): an order, 2L words in, L+1 out; the P-256 order    *)
(*     just below R (241) and the 25519 order far below it (17); the input *)
(*     is a product with one factor already reduced (r * d, z * w, r * w,  *)
(*     k^-1 * (z + r d)) or a sum z + (r d mod n), so below m * R;         *)
(*   fieldModO(.., 8) and fieldModO(.., 9): an x coordinate, below R.      *)
(***************************************************************************)
EXTENDS Barrett

MCCalls ==
    {[m |-> 127, len |-> 2 * L, rl |-> L]} \cup
    {[m |-> md, len |-> ln, rl |-> L + 1] : md \in {241, 17}, ln \in {L, L + 1, 2 * L}}

MCInputs(c) ==
    IF c.len = 2 * L
      THEN 0..(IF c.rl = L THEN Base^(2 * L) ELSE c.m * Base^L) - 1
      ELSE 0..Base^L - 1

=============================================================================
