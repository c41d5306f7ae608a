--------------------------------- MODULE ModX ---------------------------------
(***************************************************************************)
(* The arithmetic of fieldModX, src/ecc/ecc.c lines 367-401, as operators: *)
(* the Barrett estimate and the whole call as a function of its input.  A  *)
(* call site c is a record: the modulus m, the input length len and the    *)
(* result_length rl, in words.  Barrett steps through the same call; the  *)
(* group modules use the function as fieldModGeneric, lines 403-405.       *)
(***************************************************************************)
EXTENDS BigNum

k == L

\* The table ecc_order_mu / ecc_prime_mu: floor(b^(2k) / m).
Mu(m) == Base^(2 * k) \div m

BarrettEstimateNarrow(a, c) ==
    LET q1 == (a \div Base^(k - 1)) % Base^(L + 1)
        q3 == ((Mu(c.m) * q1) \div Base^(k + 1)) % Base^L
    IN (a - q3 * c.m) % Base^L

(***************************************************************************)
(* Lines 385-391 on integers: q1 = floor(A / b^(k-1)) kept in L+1 words;   *)
(* q2 = mu * q1; q3 = floor(q2 / b^(k+1)) kept in L words (out_size 8);    *)
(* then result = A - q3 * m in result_length words, the borrow ignored.    *)
(***************************************************************************)
BarrettEstimate(a, c) ==
    LET q1 == (a \div Base^(k - 1)) % Base^(L + 1)
        q2 == Mu(c.m) * q1
        q3 == (q2 \div Base^(k + 1)) % Base^L
    IN (a - q3 * c.m) % Base^c.rl

\* Lines 399-400: while isGreater(result, modulus) == 1, subtract.
RECURSIVE FinalLoop(_, _)
FinalLoop(r, c) == IF r > c.m THEN FinalLoop((r - c.m) % Base^c.rl, c) ELSE r

(***************************************************************************)
(* The value fieldModX writes for input a at call site c, when the words   *)
(* read out of bounds at line 379 are zero (oobZero) or not: the two early *)
(* returns of lines 374-382, else the estimate and the final loop.         *)
(***************************************************************************)
fieldModX(a, c, oobZero) ==
    CASE c.len = L /\ a <= c.m -> a
      [] c.len = 2 * L /\ oobZero /\ a % Base^c.rl <= c.m -> a % Base^c.rl
      [] OTHER -> FinalLoop(BarrettEstimate(a, c), c)

=============================================================================
