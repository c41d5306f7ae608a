---------------------------- MODULE MCECDSA25519 ----------------------------
(***************************************************************************)
(* ECDSA on the WEI25519 layout, W = 4, L = 2 (R = 256): the prime 127 for *)
(* 2^255 - 19 and the curve y^2 = x^3 + x + 2 of MCECMult25519, whose      *)
(* subgroup of order n = 17 plays the 2^252 + ... of Curve25519.  As there,*)
(* n is far below R and the digest is shifted right by 3 bits, which      *)
(* leaves z below 2n; the x coordinates (below p) exceed n.               *)
(***************************************************************************)
EXTENDS ECDSA

MCPrime == 127
MCCurveA == 1
MCParamA == MCPrime - MCCurveA
MCOrder == 17
MCShift == 3
MCG == <<20, 23>>

MCfieldModP(b) == fieldModGeneric(b)

\* Private keys that ecc_is_valid_key accepts (d < n), 0 included.
MCKeys == {0, 7}

\* One digest for every z, with low bits (which rshift drops) 101.
MCDigests == {ee \in 0..Base^L - 1 : ee % 8 = 5}

MCNonces == 0..Base^L - 1

\* Signatures a verifier may be sent: small values, multiples of n and the
\* largest 8-word value, with s never 0 mod n.
MCValues == {0, 1, 2, 3, 8, 15, 16, 17, 18, 34, 255}
MCForgeries == {rs \in MCValues \X MCValues : rs[2] % MCOrder # 0}

=============================================================================
