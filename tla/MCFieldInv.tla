------------------------------ MODULE MCFieldInv ------------------------------
(***************************************************************************)
(* fieldInv with W = 4, L = 2 (R = 256).  The moduli stand for the four   *)
(* the code inverts modulo: 251 for a modulus just below R (the P-256 p    *)
(* and n, where x1 + m carries out of R), 127 for one just below R/2       *)
(* (2^255 - 19), 17 for one far below R (the Curve25519 group order).     *)
(* Every A below R that is not a multiple of m is an input: callers pass   *)
(* unreduced values such as fieldAdd(y, y) too.                            *)
(***************************************************************************)
EXTENDS FieldInv

MCModuli == {251, 127, 17}

MCInputs(md) == {a \in 0..R-1 : a % md # 0}

=============================================================================
