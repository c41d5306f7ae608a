------------------------------- MODULE Barrett -------------------------------
(***************************************************************************)
(* fieldModX(A, result, length, modulus, mu, k, result_length) of          *)
(* src/ecc/ecc.c, lines 367-401: Barrett reduction (HAC 14.42) with two    *)
(* early returns.  It is reached through fieldModGeneric (the prime of the *)
(* 25519 curves, 2L words in, L words out) and fieldModO (the group order, *)
(* L, L+1 or 2L words in, L+1 words out).  k is ecc_order_k = L.           *)
(*                                                                          *)
(* Line 379 tests isZero on A + sizeof(uint32_t) * arrayLength, a uint32_t *)
(* pointer: the offset is scaled twice, so it reads the L words starting   *)
(* 4L words past A, beyond the 2L-word array the callers pass.  What it    *)
(* reads is not determined by the program; the model lets it be zero or    *)
(* not, as the constant OOBReadZero allows.                                *)
(***************************************************************************)
EXTENDS ModX

CONSTANTS Calls,        \* the call sites: [m, len, rl] records
          Inputs(_),    \* the values A a call site passes
          OOBReadZero,  \* the possible outcomes of the read at line 379
          MaxSubtractions \* bound on the final loop, beyond its expected 2

ASSUME OOBReadZero \subseteq BOOLEAN /\ MaxSubtractions \in Nat

VARIABLES call, \* the call site: modulus, input length, result length
          X,    \* the input A
          r,    \* the result array
          subs, \* subtractions done by the loop at line 399
          pc

vars == <<call, X, r, subs, pc>>

\* The result fits the result_length words the caller provides, and the
\* loop count stays within its bound.
TypeOK ==
    /\ call \in Calls
    /\ X \in 0..Base^call.len - 1
    /\ r \in 0..Base^call.rl - 1
    /\ subs \in 0..MaxSubtractions
    /\ pc \in {"start", "loop", "done"}

Init ==
    /\ call \in Calls
    /\ X \in Inputs(call)
    /\ r = 0 /\ subs = 0
    /\ pc = "start"

\* Lines 374-377: an arrayLength-word input not above the modulus is copied.
ReturnSmall ==
    /\ pc = "start"
    /\ call.len = L /\ X <= call.m
    /\ r' = X
    /\ pc' = "done"
    /\ UNCHANGED <<call, X, subs>>

\* A faulty variant of ReturnLowWords that copies the whole input, not its
\* low result_length words.
ReturnLowWordsAll ==
    /\ pc = "start"
    /\ call.len = 2 * L /\ TRUE \in OOBReadZero
    /\ X % Base^call.rl <= call.m
    /\ r' = X
    /\ pc' = "done"
    /\ UNCHANGED <<call, X, subs>>

\* Lines 378-382: a 2L-word input whose out-of-bounds words read as zero and
\* whose low result_length words are not above the modulus: those words are
\* copied, the rest of A dropped.
ReturnLowWords ==
    /\ pc = "start"
    /\ call.len = 2 * L /\ TRUE \in OOBReadZero
    /\ X % Base^call.rl <= call.m
    /\ r' = X % Base^call.rl
    /\ pc' = "done"
    /\ UNCHANGED <<call, X, subs>>

\* Neither early return applies; the read at line 379 may still be zero
\* when the low words exceed the modulus.
Estimate ==
    /\ pc = "start"
    /\ ~(call.len = L /\ X <= call.m)
    /\ \E zero \in OOBReadZero :
          ~(call.len = 2 * L /\ zero /\ X % Base^call.rl <= call.m)
    /\ r' = BarrettEstimate(X, call)
    /\ pc' = "loop"
    /\ UNCHANGED <<call, X, subs>>

\* Lines 399-400, one iteration: while isGreater(result, modulus) == 1.
Subtract ==
    /\ pc = "loop" /\ r > call.m
    /\ subs < MaxSubtractions
    /\ r' = (r - call.m) % Base^call.rl
    /\ subs' = subs + 1
    /\ UNCHANGED <<call, X, pc>>

LoopExit ==
    /\ pc = "loop" /\ r <= call.m
    /\ pc' = "done"
    /\ UNCHANGED <<call, X, r, subs>>

Done == pc = "done" /\ UNCHANGED vars

Next == ReturnSmall \/ ReturnLowWords \/ Estimate \/ Subtract \/ LoopExit \/ Done

Spec == Init /\ [][Next]_vars

-----------------------------------------------------------------------------
(***************************************************************************)
(* The result is congruent to the input modulo m.  The Barrett estimate    *)
(* only ever subtracts multiples of m, so this holds if q3 and the         *)
(* subtraction keep enough words for A - q3 * m; it fails if an early      *)
(* return drops words of A.                                                *)
(***************************************************************************)
ResultCongruent == pc = "done" => (r - X) % call.m = 0

=============================================================================
