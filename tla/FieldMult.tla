------------------------------ MODULE FieldMult ------------------------------
(***************************************************************************)
(* fieldMult(x, y, result, length) of src/ecc/ecc.c: schoolbook            *)
(* multiplication.  For every pair of words (x[n], y[k]), k outer and n    *)
(* inner, the 2W-bit product is written into a zeroed scratch array temp   *)
(* at words n+k and n+k+1 and added into result from word n+k to the top   *)
(* (2*length words); the carry that add returns is discarded.  One action  *)
(* is one iteration of the inner loop body, lines 229-236.                 *)
(***************************************************************************)
EXTENDS BigNum

VARIABLES x, y,     \* the operands, length words each
          result,   \* the 2*length-word accumulator
          k, n,     \* the loop counters (k over y, n over x)
          pc

vars == <<x, y, result, k, n, pc>>

Len2 == 2 * L

\* Every variable holds a value of its C type: words below Base, counters in
\* the ranges the for loops of fieldMult give them.
TypeOK ==
    /\ x \in [0..L-1 -> 0..Base-1]
    /\ y \in [0..L-1 -> 0..Base-1]
    /\ result \in [0..Len2-1 -> 0..Base-1]
    /\ k \in 0..L /\ n \in 0..L-1
    /\ pc \in {"loop", "done"}

\* setZero(result, length * 2) and the loop counters before the first pass.
Init ==
    /\ x \in [0..L-1 -> 0..Base-1]
    /\ y \in [0..L-1 -> 0..Base-1]
    /\ result = Zeros(Len2)
    /\ k = 0 /\ n = 0
    /\ pc = "loop"

\* A faulty variant of PartialProduct that drops the high word of l.
PartialProductLowWord(i, j) ==
    [w \in 0..Len2-1 |-> IF w = i + j THEN (x[i] * y[j]) % Base ELSE 0]

\* temp after lines 230-232: the product l split over words n+k and n+k+1.
PartialProduct(i, j) ==
    LET l == x[i] * y[j]
    IN [w \in 0..Len2-1 |-> IF w = i + j THEN l % Base
                            ELSE IF w = i + j + 1 THEN l \div Base
                            ELSE 0]

\* Line 233: add(&temp[n+k], &result[n+k], &result[n+k], 2*length-(n+k)),
\* its carry dropped; the words below n+k keep their value.
AccumulateAt(res, temp, off) ==
    LET s == add(Suffix(temp, off), Suffix(res, off), Len2 - off)
    IN [w \in 0..Len2-1 |-> IF w < off THEN res[w] ELSE s.result[w - off]]

\* A faulty variant of MultStep that never resets n when k advances.
MultStepNoReset ==
    /\ pc = "loop"
    /\ result' = AccumulateAt(result, PartialProduct(n, k), n + k)
    /\ n' = n + 1
    /\ k' = IF n = L - 1 THEN k + 1 ELSE k
    /\ pc' = IF n = L - 1 /\ k = L - 1 THEN "done" ELSE "loop"
    /\ UNCHANGED <<x, y>>

\* One inner iteration: accumulate x[n] * y[k], then advance n, and k when
\* n has run through all words.
MultStep ==
    /\ pc = "loop"
    /\ result' = AccumulateAt(result, PartialProduct(n, k), n + k)
    /\ IF n = L - 1
         THEN /\ n' = 0
              /\ k' = k + 1
              /\ pc' = IF k = L - 1 THEN "done" ELSE "loop"
         ELSE /\ n' = n + 1
              /\ UNCHANGED <<k, pc>>
    /\ UNCHANGED <<x, y>>

\* fieldMult has returned; the caller holds the product.
Done == pc = "done" /\ UNCHANGED vars

Next == MultStep \/ Done

Spec == Init /\ [][Next]_vars

-----------------------------------------------------------------------------
\* The word pairs whose product the loop has accumulated so far.
Processed == {<<i, j>> \in (0..L-1) \X (0..L-1) : j < k \/ (j = k /\ i < n)}

(***************************************************************************)
(* After every iteration the accumulator holds exactly the sum of the      *)
(* partial products processed so far.  This fails if a carry of the add   *)
(* on line 233 is lost at the top of result, if the high half of a 64-bit  *)
(* product is dropped (line 232), or if an iteration adds at the wrong     *)
(* offset; at the end it says result = x * y.                              *)
(***************************************************************************)
PartialProductsAccumulated ==
    Val(result) = MapThenSumSet(LAMBDA p : x[p[1]] * y[p[2]] * Base^(p[1] + p[2]),
                                Processed)

(***************************************************************************)
(* The word loops of add, sub, isGreater, rshift and rshiftby compute what *)
(* their integer reading says: the sum and carry, the difference and       *)
(* borrow, the sign of the comparison, halving and division by a power of  *)
(* Base.  The field modules above use these integer readings.              *)
(***************************************************************************)
WordLoopsMatchIntegers ==
    LET vx == Val(x)  vy == Val(y)  R == Base^L
        s == add(x, y, L)  d == sub(x, y, L)
    IN /\ Val(s.result) + s.carry * R = vx + vy
       /\ Val(d.result) = (vx - vy) % R /\ (d.borrow = 1 <=> vx < vy)
       /\ isGreater(x, y, L) = IF vx > vy THEN 1 ELSE IF vx < vy THEN -1 ELSE 0
       /\ Val(rshift(x)) = vx \div 2
       /\ \A sh \in 0..L : Val(rshiftby(x, L, L, sh)) = vx \div Base^sh

=============================================================================
