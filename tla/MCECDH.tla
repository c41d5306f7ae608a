------------------------------- MODULE MCECDH -------------------------------
(***************************************************************************)
(* The three curves of ecc_ec_init, each scaled as in its own MC module   *)
(* and all with R = 2^8 (8-bit secrets):                                   *)
(*   SECP256R1   W = 1, L = 8, p = 199, y^2 = x^3 - 3x + 6 (order 197),   *)
(*               stored a = 3, fieldModP = fieldModP256;                   *)
(*   WEI25519    W = 4, L = 2, p = 127, y^2 = x^3 + x + 2, stored p - 1,  *)
(*               fieldModP = fieldModGeneric;                              *)
(*   WEI25519_2  the same prime and reduction, y^2 = x^3 + 2x + 12,       *)
(*               stored a = 2 (wei25519_2_a).                              *)
(* Each base point generates a prime-order subgroup (197, 17, 17).         *)
(***************************************************************************)
EXTENDS ECDH, TLC

P256Fold256 == INSTANCE P256Fold WITH W <- 1, L <- 8

ModX25519 == INSTANCE ModX WITH W <- 4, L <- 2

\* fieldModGeneric(A, B), lines 403-405, for the 127 prime.
fieldModGeneric(b) == ModX25519!fieldModX(b, [m |-> 127, len |-> 4, rl |-> 2], FALSE)

GroupP256 == INSTANCE ECGroup
    WITH W <- 1, L <- 8, Prime <- 199, CurveA <- -3, ecc_param_a <- 3,
         fieldModP <- P256Fold256!fieldModP256

GroupWei == INSTANCE ECGroup
    WITH W <- 4, L <- 2, Prime <- 127, CurveA <- 1, ecc_param_a <- 126,
         fieldModP <- fieldModGeneric

GroupWei2 == INSTANCE ECGroup
    WITH W <- 4, L <- 2, Prime <- 127, CurveA <- 2, ecc_param_a <- 2,
         fieldModP <- fieldModGeneric

MCCurves == {"SECP256R1", "WEI25519", "WEI25519_2"}

\* ecc_ec_mult under the globals of curve c.
MCMult(c, P, k) ==
    CASE c = "SECP256R1" -> GroupP256!ecc_ec_mult(P, k)
      [] c = "WEI25519"  -> GroupWei!ecc_ec_mult(P, k)
      [] OTHER           -> GroupWei2!ecc_ec_mult(P, k)

MCBasePoint(c) ==
    CASE c = "SECP256R1" -> <<2, 40>>
      [] c = "WEI25519"  -> <<20, 23>>
      [] OTHER           -> <<9, 39>>

MCHang == <<-1, -1>>

PartySymmetry == Permutations(Parties)

\* Zero, small values, the multiples of 17 and of 197 and their
\* neighbours, and the largest 8-bit value.
MCSecrets == {0, 1, 2, 16, 17, 18, 34, 196, 197, 198, 255}

-----------------------------------------------------------------------------
(***************************************************************************)
(* eccdhTest's assertions (testecc.c 111-112) on the two 25519 layouts:   *)
(* an agreement whose calls all read one of them ends with equal shared   *)
(* points, whatever ecc_ec_init calls came before it.  On WEI25519_2 the  *)
(* stored a is wrong (ecc.c line 111), yet the chord and tangent formulas *)
(* with that a are a group law of their own, so both parties still agree. *)
(* SECP256R1's fieldModP256 is not exact at this width, and agreement     *)
(* fails there (ecdh_p256).                                                *)
(***************************************************************************)
AgreementOn25519 ==
    \A c \in Curves \ {"SECP256R1"} : read = {c} /\ BothAgreed => SharedEqual

(***************************************************************************)
(* An ecc_ec_mult of an agreement hangs only if the agreement read         *)
(* WEI25519_2 or ecc_ec_init changed the curve in its middle.  On one      *)
(* SECP256R1 or WEI25519 registry the base points have odd order, so no    *)
(* party's Q reaches y = 0 and ec_add never divides by a zero difference   *)
(* of x.  With WEI25519_2's stored a, or with a peer key computed on       *)
(* another curve, the point leaves the subgroup and fieldInv(0) can be    *)
(* called: e.g. a key made on WEI25519 used after a switch to SECP256R1.   *)
(***************************************************************************)
HangsOnlyOnWei2OrReconfigured ==
    (\E p \in Parties : pc[p] = "hang") =>
        "WEI25519_2" \in read \/ Cardinality(read) > 1

=============================================================================
