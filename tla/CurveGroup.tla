------------------------------ MODULE CurveGroup ------------------------------
(***************************************************************************)
(* The group of the short Weierstrass curve y^2 = x^3 + CurveA x + b over  *)
(* the field of the prime Prime, by the textbook affine formulas of spec   *)
(* section 4.5 on exact residues, with (0, 0) as the identity as in the    *)
(* code.  It is the reference the code's group law is checked against.     *)
(***************************************************************************)
EXTENDS Integers

CONSTANTS Prime,  \* the field prime p
          CurveA  \* the curve coefficient a (not its stored form)

Identity == <<0, 0>>

\* x^e modulo md by repeated squaring.
RECURSIVE PowMod(_, _, _)
PowMod(x, e, md) ==
    IF e = 0 THEN 1 % md
    ELSE LET h == PowMod(x, e \div 2, md)
         IN IF e % 2 = 0 THEN (h * h) % md ELSE (((h * h) % md) * x) % md

\* The inverse of a nonzero residue, by Fermat's little theorem.
InvMod(x) == PowMod(x % Prime, Prime - 2, Prime)

\* P + Q: chord through P and Q, or the tangent at P when P = Q.
GroupAdd(S, T) ==
    CASE S = Identity -> T
      [] T = Identity -> S
      [] S[1] = T[1] /\ (S[2] + T[2]) % Prime = 0 -> Identity
      [] OTHER ->
           LET lam == IF S = T
                        THEN ((3 * S[1] * S[1] + CurveA) * InvMod(2 * S[2])) % Prime
                        ELSE ((T[2] - S[2]) * InvMod(T[1] - S[1])) % Prime
               x3 == (lam * lam - S[1] - T[1]) % Prime
           IN <<x3, (lam * (S[1] - x3) - S[2]) % Prime>>

\* c * S, from c * S = 2 * ((c div 2) * S) + (c mod 2) * S.
RECURSIVE ScalarMul(_, _)
ScalarMul(c, S) ==
    IF c = 0 THEN Identity
    ELSE LET h == ScalarMul(c \div 2, S)
             d == GroupAdd(h, h)
         IN IF c % 2 = 0 THEN d ELSE GroupAdd(d, S)

=============================================================================
