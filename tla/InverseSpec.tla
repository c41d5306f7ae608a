----------------------------- MODULE InverseSpec -----------------------------
(***************************************************************************)
(* What fieldInv promises its callers (spec section 4.2): for an input a   *)
(* that is invertible modulo m, the call returns, and the value it writes  *)
(* is the inverse of a in 0..m-1.  One step, taken eventually.             *)
(***************************************************************************)
EXTENDS Integers

VARIABLES a, m,   \* the input and the modulus, fixed for the call
          out,    \* the output array B
          done    \* the call has returned

vars == <<a, m, out, done>>

\* The residue b in 0..m-1 with a * b = 1 (mod m).
Inverse(x, mod) == CHOOSE b \in 0..mod-1 : (x * b) % mod = 1

Init == done = FALSE /\ out = 0

Return ==
    /\ ~done
    /\ done' = TRUE
    /\ out' = Inverse(a, m)
    /\ UNCHANGED <<a, m>>

Spec == Init /\ [][Return]_vars /\ WF_vars(Return)

=============================================================================
