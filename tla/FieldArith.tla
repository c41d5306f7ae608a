------------------------------ MODULE FieldArith ------------------------------
(***************************************************************************)
(* The modular helpers of src/ecc/ecc.c on the integer reading of an       *)
(* arrayLength-word number (a value in 0..R-1, R = 2^(W*L), 2^256 in the   *)
(* code).  FieldMult checks the word loops of add and sub against this     *)
(* reading.  A carry that the code computes and ignores is dropped here by *)
(* "% R", exactly where the code drops it.                                 *)
(***************************************************************************)
EXTENDS BigNum

R == Base^L

\* The reducer tables ecc_prime_r / ecc_order_r hold 2^256 - m.
Reducer(m) == R - m

(***************************************************************************)
(* fieldAdd(x, y, reducer, result), lines 200-208: the sum modulo R; only  *)
(* if add carried is the reducer added once more, and the carry of that    *)
(* second add (line 204) is ignored.  There is no comparison with the      *)
(* modulus: a sum in [m, R) is returned unreduced.                         *)
(***************************************************************************)
fieldAdd(x, y, reducer) ==
    IF x + y >= R THEN (x + y - R + reducer) % R ELSE x + y

\* A faulty variant of fieldSub that keeps the carry of the add of the
\* modulus instead of ignoring it.
fieldSubNoWrap(x, y, modulus) ==
    IF x >= y THEN x - y ELSE x - y + R + modulus

(***************************************************************************)
(* fieldSub(x, y, modulus, result), lines 210-218: the difference modulo   *)
(* R; if sub borrowed, the modulus is added and that carry ignored.        *)
(***************************************************************************)
fieldSub(x, y, modulus) ==
    IF x >= y THEN x - y ELSE (x - y + R + modulus) % R

\* A faulty variant of fieldAddAndDivide that loses the carry of x + modulus
\* instead of putting it back as the top bit after the shift.
fieldAddAndDivideNoCarry(x, modulus, reducer) == ((x + modulus) % R) \div 2

(***************************************************************************)
(* fieldAddAndDivide(x, modulus, reducer, result), lines 411-426:          *)
(* (x + modulus) / 2.  The sum is taken modulo R and shifted right; if add *)
(* carried, the carry is ORed back in as the top bit, and if the result    *)
(* then exceeds the modulus the reducer is added (modulo R).               *)
(***************************************************************************)
fieldAddAndDivide(x, modulus, reducer) ==
    LET carry == x + modulus >= R
        half  == ((x + modulus) % R) \div 2 + (IF carry THEN R \div 2 ELSE 0)
    IN IF carry /\ half > modulus THEN (half + reducer) % R ELSE half

=============================================================================
