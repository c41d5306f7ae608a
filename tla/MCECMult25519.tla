---------------------------- MODULE MCECMult25519 ----------------------------
(***************************************************************************)
(* ecc_ec_mult on the WEI25519 layout with W = 4, L = 2 (R = 256, 8-bit    *)
(* secrets).  The prime 127 stands for 2^255 - 19: just below R / 2, so    *)
(* fieldAdd never reduces and fieldModP is fieldModGeneric, the Barrett    *)
(* reduction.  The curve y^2 = x^3 + x + 2 over it has 136 = 8 * 17        *)
(* points: like Curve25519 a cofactor 8 and a prime subgroup (order 17),   *)
(* with points of order 2 (y = 0).  ecc_param_a holds p - a, as wei25519_a *)
(* does.                                                                    *)
(***************************************************************************)
EXTENDS ECMult

MCPrime == 127
MCCurveA == 1
MCCurveB == 2
MCParamA == MCPrime - MCCurveA

MCfieldModP(b) == fieldModGeneric(b)

\* Every affine point of the curve.
MCPoints ==
    {pt \in (0..MCPrime-1) \X (0..MCPrime-1) :
        (pt[2] * pt[2] - pt[1] * pt[1] * pt[1] - MCCurveA * pt[1] - MCCurveB) % MCPrime = 0}

\* The points of the prime-order subgroup, the ones a key or a signature uses.
MCSubgroup == {pt \in MCPoints : ScalarMul(17, pt) = Identity}

MCSecrets == 0..2^NBits - 1

=============================================================================
