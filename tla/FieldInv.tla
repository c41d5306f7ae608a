------------------------------- MODULE FieldInv -------------------------------
(***************************************************************************)
(* fieldInv(A, modulus, reducer, B) of src/ecc/ecc.c, lines 432-488: the   *)
(* binary extended Euclidean algorithm.  u and v start at A and the        *)
(* modulus, x1 and x2 at 1 and 0.  While neither u nor v is 1: halve u     *)
(* while it is even (x1 halved alongside, through fieldAddAndDivide when   *)
(* odd), the same for v and x2, then subtract the smaller of u, v from the *)
(* larger and the matching coefficient with fieldSub.  The result is x1 if *)
(* u is 1, else x2.  Each action is one iteration of one of these loops.   *)
(***************************************************************************)
EXTENDS FieldArith

CONSTANTS Moduli,   \* the moduli fieldInv is called with (p and n)
          Inputs(_) \* the values A it is called with for a modulus

ASSUME \A md \in Moduli : md % 2 = 1 /\ md < R

VARIABLES A, m,     \* the arguments
          u, v, x1, x2,
          B,        \* the output array
          pc

vars == <<A, m, u, v, x1, x2, B, pc>>

\* Every array holds an arrayLength-word value and the modulus is one of
\* the callers' moduli.
TypeOK ==
    /\ m \in Moduli /\ A \in 0..R-1
    /\ {u, v, x1, x2, B} \subseteq 0..R-1
    /\ pc \in {"test", "halveU", "halveV", "subtract", "finish", "done"}

\* Lines 436-446: copy(A, u), copy(modulus, v), x1 = 1, x2 = 0.
Init ==
    /\ m \in Moduli
    /\ A \in Inputs(m)
    /\ u = A /\ v = m /\ x1 = 1 /\ x2 = 0
    /\ B = 0
    /\ pc = "test"

\* Line 448: the outer loop runs while neither u nor v is one.
Test ==
    /\ pc = "test"
    /\ pc' = IF u = 1 \/ v = 1 THEN "finish" ELSE "halveU"
    /\ UNCHANGED <<A, m, u, v, x1, x2, B>>

\* x / 2 modulo m: a plain shift when x is even (line 452), else
\* fieldAddAndDivide (line 454).
Halve(x) ==
    IF x % 2 = 0 THEN x \div 2 ELSE fieldAddAndDivide(x, m, Reducer(m))

\* Lines 449-458, one iteration: u is even.
HalveU ==
    /\ pc = "halveU" /\ u % 2 = 0
    /\ u' = u \div 2
    /\ x1' = Halve(x1)
    /\ UNCHANGED <<A, m, v, x2, B, pc>>

HalveUDone ==
    /\ pc = "halveU" /\ u % 2 = 1
    /\ pc' = "halveV"
    /\ UNCHANGED <<A, m, u, v, x1, x2, B>>

\* Lines 459-470, one iteration: v is even.
HalveV ==
    /\ pc = "halveV" /\ v % 2 = 0
    /\ v' = v \div 2
    /\ x2' = Halve(x2)
    /\ UNCHANGED <<A, m, u, x1, B, pc>>

HalveVDone ==
    /\ pc = "halveV" /\ v % 2 = 1
    /\ pc' = "subtract"
    /\ UNCHANGED <<A, m, u, v, x1, x2, B>>

\* Lines 471-475: sub(u, v) did not borrow, so u >= v.
SubtractV ==
    /\ pc = "subtract" /\ u >= v
    /\ u' = u - v
    /\ x1' = fieldSub(x1, x2, m)
    /\ pc' = "test"
    /\ UNCHANGED <<A, m, v, x2, B>>

\* Lines 476-481: u < v.
SubtractU ==
    /\ pc = "subtract" /\ u < v
    /\ v' = v - u
    /\ x2' = fieldSub(x2, x1, m)
    /\ pc' = "test"
    /\ UNCHANGED <<A, m, u, x1, B>>

\* A faulty variant of Finish that always returns x1.
FinishX1 ==
    /\ pc = "finish"
    /\ B' = x1
    /\ pc' = "done"
    /\ UNCHANGED <<A, m, u, v, x1, x2>>

\* Lines 483-487: B is x1 if u is one, else x2.
Finish ==
    /\ pc = "finish"
    /\ B' = IF u = 1 THEN x1 ELSE x2
    /\ pc' = "done"
    /\ UNCHANGED <<A, m, u, v, x1, x2>>

\* fieldInv has returned.
Done == pc = "done" /\ UNCHANGED vars

Next ==
    \/ Test \/ HalveU \/ HalveUDone \/ HalveV \/ HalveVDone
    \/ SubtractV \/ SubtractU \/ Finish \/ Done

\* The code runs on one thread and never blocks: every enabled step is
\* eventually taken.
Spec == Init /\ [][Next]_vars /\ WF_vars(Next)

-----------------------------------------------------------------------------
(***************************************************************************)
(* The Bezout relation of the binary extended Euclidean algorithm holds    *)
(* after every step, with both coefficients kept reduced: x1 * A = u and   *)
(* x2 * A = v modulo m, x1 and x2 in 0..m-1.  Halving an odd x1 relies on  *)
(* fieldAddAndDivide putting the carry of x1 + m back as the top bit; a    *)
(* subtraction relies on fieldSub adding m back exactly once.              *)
(***************************************************************************)
BezoutInvariant ==
    /\ x1 < m /\ x2 < m
    /\ (x1 * A - u) % m = 0
    /\ (x2 * A - v) % m = 0

(***************************************************************************)
(* fieldInv implements InverseSpec: for every invertible input the loops   *)
(* end, and B is then the inverse of A in 0..m-1.  This also covers        *)
(* inputs A >= m, as fieldAdd produces for 2y in ec_double.                *)
(***************************************************************************)
Abstract == INSTANCE InverseSpec WITH a <- A, out <- B, done <- (pc = "done")

InverseSpecImplemented == Abstract!Spec

=============================================================================
