------------------------------- MODULE ECGroup -------------------------------
(***************************************************************************)
(* ec_double and ec_add of src/ecc/ecc.c, lines 493-573, on the integer    *)
(* reading of the field helpers.  fieldMult is the exact product (FieldMult *)
(* checks its loops), fieldModP is whatever reduction ecc_ec_init selected *)
(* (a constant operator, as the function pointer is), fieldAdd and        *)
(* fieldSub are those of FieldArith, and fieldInv writes the inverse of an *)
(* invertible input (FieldInv refines InverseSpec) and never returns for   *)
(* an input that is 0 modulo p: u becomes 0 and the halving loop at line   *)
(* 449 spins.  A call that never returns yields Hang.                      *)
(*                                                                          *)
(* The stored coefficient ecc_param_a is a constant of its own: the code   *)
(* computes 3x^2 - ecc_param_a, so it must hold p - a for the curve        *)
(* y^2 = x^3 + a x + b the reference CurveGroup describes.                 *)
(***************************************************************************)
EXTENDS FieldArith, ModX, CurveGroup

CONSTANTS ecc_param_a,  \* the stored domain parameter a
          fieldModP(_)  \* the reduction the fieldModP pointer selects

ASSUME Prime < R /\ ecc_param_a \in 0..R-1

ecc_prime_m == Prime

\* The table ecc_prime_r, 2^256 - p.
ecc_prime_r == Reducer(Prime)

\* fieldModGeneric(A, B), lines 403-405: fieldModX on the 2L-word product,
\* L words out.  The words read out of bounds at line 379 are taken to be
\* nonzero here; Barrett checks the other outcome.
fieldModGeneric(b) == fieldModX(b, [m |-> Prime, len |-> 2 * L, rl |-> L], FALSE)

\* The result of a call that never returns.
Hang == <<-1, -1>>

\* fieldInv(a, ecc_prime_m, ecc_prime_r, out) returns iff a is not 0 mod p.
Invertible(a) == a % ecc_prime_m # 0

fieldInvResult(a) == InvMod(a)

\* A faulty variant of ec_double that adds the stored coefficient, as the
\* spec's 3x^2 + a reads, instead of subtracting it.
ec_doubleAddA(Pt) ==
    LET px == Pt[1]
        py == Pt[2]
        m  == ecc_prime_m
    IN IF px = 0 /\ py = 0 THEN Pt
       ELSE LET tA == fieldAdd(fieldModP(fieldModP(px * px) * 3), ecc_param_a, ecc_prime_r)
                tB == fieldAdd(py, py, ecc_prime_r)
            IN IF ~Invertible(tB) THEN Hang
               ELSE LET lambda == fieldModP(tA * fieldInvResult(tB))
                        Dx == fieldSub(fieldSub(fieldModP(lambda * lambda), px, m), px, m)
                    IN <<Dx, fieldSub(fieldModP(lambda * fieldSub(px, Dx, m)), py, m)>>

(***************************************************************************)
(* ec_double(px, py, Dx, Dy), lines 493-529.  The identity (both words     *)
(* arrays zero) is copied; otherwise lambda = (3x^2 - ecc_param_a) / 2y    *)
(* with 2y = fieldAdd(py, py), then Dx = lambda^2 - x - x and              *)
(* Dy = lambda (x - Dx) - y, every product reduced by fieldModP.           *)
(***************************************************************************)
ec_double(Pt) ==
    LET px == Pt[1]
        py == Pt[2]
        m  == ecc_prime_m
    IN IF px = 0 /\ py = 0 THEN Pt
       ELSE LET tA == fieldSub(fieldModP(fieldModP(px * px) * 3), ecc_param_a, m)
                tB == fieldAdd(py, py, ecc_prime_r)
            IN IF ~Invertible(tB) THEN Hang
               ELSE LET lambda == fieldModP(tA * fieldInvResult(tB))
                        Dx == fieldSub(fieldSub(fieldModP(lambda * lambda), px, m), px, m)
                    IN <<Dx, fieldSub(fieldModP(lambda * fieldSub(px, Dx, m)), py, m)>>

\* A faulty variant of ec_add that doubles whenever the x words are equal,
\* without comparing the y words (P + -P).
ec_addNoNegCheck(Pt, Qt) ==
    LET px == Pt[1]  py == Pt[2]
        qx == Qt[1]  qy == Qt[2]
        m  == ecc_prime_m
    IN CASE px = 0 /\ py = 0 -> Qt
         [] qx = 0 /\ qy = 0 -> Pt
         [] px = qx -> ec_double(Pt)
         [] OTHER ->
              LET tA == fieldSub(py, qy, m)
                  tB == fieldSub(px, qx, m)
              IN IF ~Invertible(tB) THEN Hang
                 ELSE LET lambda == fieldModP(tA * fieldInvResult(tB))
                          Sx == fieldSub(fieldSub(fieldModP(lambda * lambda), px, m), qx, m)
                      IN <<Sx, fieldSub(fieldModP(lambda * fieldSub(qx, Sx, m)), qy, m)>>

\* A faulty variant of ec_add without the isSame test of lines 547-556: equal
\* points go through the chord formula.
ec_addNoSameCheck(Pt, Qt) ==
    LET px == Pt[1]  py == Pt[2]
        qx == Qt[1]  qy == Qt[2]
        m  == ecc_prime_m
    IN CASE px = 0 /\ py = 0 -> Qt
         [] qx = 0 /\ qy = 0 -> Pt
         [] OTHER ->
              LET tA == fieldSub(py, qy, m)
                  tB == fieldSub(px, qx, m)
              IN IF ~Invertible(tB) THEN Hang
                 ELSE LET lambda == fieldModP(tA * fieldInvResult(tB))
                          Sx == fieldSub(fieldSub(fieldModP(lambda * lambda), px, m), qx, m)
                      IN <<Sx, fieldSub(fieldModP(lambda * fieldSub(qx, Sx, m)), qy, m)>>

(***************************************************************************)
(* ec_add(px, py, qx, qy, Sx, Sy), lines 531-573.  An identity operand     *)
(* yields the other; equal x words yield the identity if the y words       *)
(* differ, else ec_double; otherwise lambda = (py - qy) / (px - qx),       *)
(* Sx = lambda^2 - px - qx and Sy = lambda (qx - Sx) - qy.  isSame         *)
(* compares the words, not the residues.                                   *)
(***************************************************************************)
ec_add(Pt, Qt) ==
    LET px == Pt[1]  py == Pt[2]
        qx == Qt[1]  qy == Qt[2]
        m  == ecc_prime_m
    IN CASE px = 0 /\ py = 0 -> Qt
         [] qx = 0 /\ qy = 0 -> Pt
         [] px = qx /\ py # qy -> Identity
         [] px = qx -> ec_double(Pt)
         [] OTHER ->
              LET tA == fieldSub(py, qy, m)
                  tB == fieldSub(px, qx, m)
              IN IF ~Invertible(tB) THEN Hang
                 ELSE LET lambda == fieldModP(tA * fieldInvResult(tB))
                          Sx == fieldSub(fieldSub(fieldModP(lambda * lambda), px, m), qx, m)
                      IN <<Sx, fieldSub(fieldModP(lambda * fieldSub(qx, Sx, m)), qy, m)>>

(***************************************************************************)
(* ecc_ec_mult(px, py, secret, resultx, resulty), lines 575-597, as a      *)
(* function, for the callers above it (ecc_ecdh, ecc_gen_pub_key and      *)
(* ECDSA): from Q, the iterations for bits i-1 down to 0 of the secret,    *)
(* each a doubling and, if the bit is set, an addition of P.  ECMult      *)
(* steps through the same loop.                                            *)
(***************************************************************************)
RECURSIVE MultBits(_, _, _, _)
MultBits(Q, Pt, secret, i) ==
    IF i = 0 \/ Q = Hang THEN Q
    ELSE LET D == ec_double(Q)
         IN MultBits(IF D # Hang /\ (secret \div 2^(i - 1)) % 2 = 1
                       THEN ec_add(D, Pt) ELSE D,
                     Pt, secret, i - 1)

ecc_ec_mult(Pt, secret) == MultBits(Identity, Pt, secret, W * L)

=============================================================================
