------------------------------- MODULE P256Fold -------------------------------
(***************************************************************************)
(* The arithmetic of fieldModP256(A, B), src/ecc/ecc.c lines 243-315, as   *)
(* operators: the gathered operands, one call of the fold, and the whole   *)
(* reduction as a function of B.  ECGroup uses the function as the        *)
(* curve's fieldModP, and MCECDH composes it with the curve registry.      *)
(***************************************************************************)
EXTENDS FieldArith, Sequences

ASSUME L = 8

\* ecc_prime_m for SECP256R1: 2^256 - 2^224 + 2^192 + 2^96 - 1.
P == Base^8 - Base^7 + Base^6 + Base^3 - 1

(***************************************************************************)
(* The gathers of lines 254-308: for each eight-word operand, the word of  *)
(* B that lands in words 0..7 (-1: the word is zero).                     *)
(***************************************************************************)
S1 == << -1, -1, -1, 11, 12, 13, 14, 15 >>
S2 == << -1, -1, -1, 12, 13, 14, 15, -1 >>
S3 == <<  8,  9, 10, -1, -1, -1, 14, 15 >>
S4 == <<  9, 10, 11, 13, 14, 15, 13,  8 >>
D1 == << 11, 12, 13, -1, -1, -1,  8, 10 >>
D2 == << 12, 13, 14, 15, -1, -1,  9, 11 >>
D3 == << 13, 14, 15,  8,  9, 10, -1, 12 >>
D4 == << 14, 15, -1,  9, 10, 11, -1, 13 >>

\* The calls of lines 258-310 in order.
Folds == << [op |-> "add", src |-> S1], [op |-> "add", src |-> S1],
            [op |-> "add", src |-> S2], [op |-> "add", src |-> S2],
            [op |-> "add", src |-> S3], [op |-> "add", src |-> S4],
            [op |-> "sub", src |-> D1], [op |-> "sub", src |-> D2],
            [op |-> "sub", src |-> D3], [op |-> "sub", src |-> D4] >>

\* The value of a gathered operand for input b: word src[i] of b, if any,
\* as word i - 1.
Gather(b, src) ==
    LET RECURSIVE G(_)
        G(i) == IF i > 8 THEN 0
                ELSE (IF src[i] < 0 THEN 0 ELSE (b \div Base^src[i]) % Base)
                       * Base^(i - 1) + G(i + 1)
    IN G(1)

\* Call i of Folds on the accumulator a, for input b.
FoldCall(a, b, i) ==
    LET f == Folds[i]
        t == Gather(b, f.src)
    IN IF f.op = "add" THEN fieldAdd(a, t, Reducer(P)) ELSE fieldSub(a, t, P)

\* Lines 311-314: one fieldSub of p if the accumulator is not below p.
FinalReduce(a) == IF a >= P THEN fieldSub(a, P, P) ELSE a

\* The value fieldModP256 writes to A for the 16-word input b.  The test
\* a < 0 never holds: it makes TLC evaluate each call's result before the
\* next call, instead of building all ten calls up before evaluating them.
fieldModP256(b) ==
    LET RECURSIVE Run(_, _)
        Run(a, i) == IF a < 0 \/ i > Len(Folds) THEN a ELSE Run(FoldCall(a, b, i), i + 1)
    IN FinalReduce(Run(b % R, 1))

=============================================================================
