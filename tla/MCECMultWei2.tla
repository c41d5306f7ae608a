----------------------------- MODULE MCECMultWei2 -----------------------------
(***************************************************************************)
(* ecc_ec_mult on the WEI25519_2 layout with W = 4, L = 2: the prime 127   *)
(* for 2^255 - 19, fieldModGeneric as fieldModP, and the curve             *)
(* y^2 = x^3 + 2x + 12 of order 136 = 8 * 17.  ecc_ec_init stores          *)
(* wei25519_2_a = 2, the coefficient a itself (lines 111 and 161), where   *)
(* the other curves store p - a.                                           *)
(***************************************************************************)
EXTENDS ECMult

MCPrime == 127
MCCurveA == 2
MCCurveB == 12
MCParamA == MCCurveA

MCfieldModP(b) == fieldModGeneric(b)

MCPoints ==
    {pt \in (0..MCPrime-1) \X (0..MCPrime-1) :
        (pt[2] * pt[2] - pt[1] * pt[1] * pt[1] - MCCurveA * pt[1] - MCCurveB) % MCPrime = 0}

MCSubgroup == {pt \in MCPoints : ScalarMul(17, pt) = Identity}

MCSecrets == 0..2^NBits - 1

=============================================================================
