-------------------------------- MODULE ECMult --------------------------------
(***************************************************************************)
(* ecc_ec_mult(px, py, secret, resultx, resulty) of src/ecc/ecc.c, lines   *)
(* 575-597: left-to-right double-and-add over the W * L bits of the secret *)
(* (256 in the code), Q starting at the identity (0, 0).  Each iteration   *)
(* is a doubling step and, if bit i is set, an addition step; a step whose *)
(* fieldInv never returns leaves the call spinning ("hang").               *)
(***************************************************************************)
EXTENDS ECGroup

CONSTANTS Points,   \* the points (px, py) passed in
          Secrets   \* the secrets passed in

NBits == W * L

VARIABLES px, py,   \* the input point
          secret,
          Qx, Qy,   \* the accumulator Q
          i,        \* the loop index (after the decrement of the for test)
          pc

vars == <<px, py, secret, Qx, Qy, i, pc>>

\* Q and the index hold what their C arrays and int can; the point and the
\* secret are among the inputs.
TypeOK ==
    /\ <<px, py>> \in Points /\ secret \in Secrets
    /\ Qx \in 0..R-1 /\ Qy \in 0..R-1
    /\ i \in 0..NBits
    /\ pc \in {"loop", "bit", "done", "hang"}

\* Lines 576-585: Q = (0, 0); the for loop starts at i = 256.
Init ==
    /\ \E pt \in Points : px = pt[1] /\ py = pt[2]
    /\ secret \in Secrets
    /\ Qx = 0 /\ Qy = 0
    /\ i = NBits
    /\ pc = "loop"

\* Bit i of the secret, secret[i / 32] & (1 << (i % 32)).
SecretBit(j) == (secret \div 2^j) % 2

Doubled == ec_double(<<Qx, Qy>>)

Added == ec_add(<<Qx, Qy>>, <<px, py>>)

\* A faulty variant of Double that runs the loop once more, for i = -1.
DoubleOnceMore ==
    /\ pc = "loop" /\ i >= 0
    /\ i' = i - 1
    /\ IF Doubled = Hang
         THEN pc' = "hang" /\ UNCHANGED <<Qx, Qy>>
         ELSE Qx' = Doubled[1] /\ Qy' = Doubled[2] /\ pc' = "bit"
    /\ UNCHANGED <<px, py, secret>>

\* Lines 585-588: the test i-- and Q = 2Q through tempx, tempy; if
\* ec_double reaches fieldInv with 2y = 0 mod p, it never returns.
Double ==
    /\ pc = "loop" /\ i > 0
    /\ i' = i - 1
    /\ IF Doubled = Hang
         THEN pc' = "hang" /\ UNCHANGED <<Qx, Qy>>
         ELSE Qx' = Doubled[1] /\ Qy' = Doubled[2] /\ pc' = "bit"
    /\ UNCHANGED <<px, py, secret>>

\* Lines 589-593: bit i is set, Q = Q + P; ec_add (or the ec_double it
\* calls) never returns if it reaches fieldInv with a zero input.
Add ==
    /\ pc = "bit" /\ SecretBit(i) = 1
    /\ IF Added = Hang
         THEN pc' = "hang" /\ UNCHANGED <<Qx, Qy>>
         ELSE Qx' = Added[1] /\ Qy' = Added[2] /\ pc' = "loop"
    /\ UNCHANGED <<px, py, secret, i>>

\* Line 589: bit i is clear.
SkipAdd ==
    /\ pc = "bit" /\ SecretBit(i) = 0
    /\ pc' = "loop"
    /\ UNCHANGED <<px, py, secret, Qx, Qy, i>>

\* Lines 585, 595-596: the loop test finds i = 0; Q is copied to the result.
Return ==
    /\ pc = "loop" /\ i = 0
    /\ pc' = "done"
    /\ UNCHANGED <<px, py, secret, Qx, Qy, i>>

\* The call has returned.
Done == pc = "done" /\ UNCHANGED vars

\* fieldInv loops forever; nothing changes.
Spin == pc = "hang" /\ UNCHANGED vars

Next ==
    \/ Double \/ Add \/ SkipAdd \/ Return
    \/ Done \/ Spin

\* One thread, no blocking: a step that can change the state is taken.
Spec == Init /\ [][Next]_vars /\ WF_vars(Next)

-----------------------------------------------------------------------------
(***************************************************************************)
(* The double-and-add invariant: at the loop test Q is the multiple of P   *)
(* by the bits of the secret above i, after a doubling it is twice the     *)
(* multiple by the bits above i+1, and the returned Q is secret * P, in    *)
(* reduced coordinates.  It ties Q, after up to 2 * NBits steps, to the    *)
(* whole history of ec_double and ec_add calls: a wrong stored coefficient *)
(* a, a missed P = -P case, a lost carry in fieldModP or an unreduced      *)
(* coordinate breaks it.                                                   *)
(***************************************************************************)
PrefixMultiple ==
    /\ pc = "loop" => <<Qx, Qy>> = ScalarMul(secret \div 2^i, <<px, py>>)
    /\ pc = "bit"  => <<Qx, Qy>> = ScalarMul(2 * (secret \div 2^(i + 1)), <<px, py>>)
    /\ pc = "done" => <<Qx, Qy>> = ScalarMul(secret, <<px, py>>)

(***************************************************************************)
(* The only call that does not return is one whose Q reaches a point of    *)
(* order 2 (y = 0): ec_double then inverts 2y = 0 (line 513).  No chord    *)
(* of ec_add divides by zero, as it would if isSame (line 547) missed      *)
(* P = Q or P = -P, and no doubling of another point does.  With           *)
(* PrefixMultiple, Q is a multiple of P, so only points of even order hang.*)
(***************************************************************************)
HangsOnlyAtTwoTorsion == pc = "hang" => Qy = 0 /\ <<Qx, Qy>> # Identity

=============================================================================
