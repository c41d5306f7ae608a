------------------------------- MODULE Convert -------------------------------
(***************************************************************************)
(* The birational conversions of src/ecc/convert.c between the twisted    *)
(* Edwards, short Weierstrass and Montgomery forms of a 25519-family       *)
(* curve, over the field helpers of ECGroup.  A run converts one point by  *)
(* a chain of up to MaxCalls calls, each call a whole C function.  A call  *)
(* that reaches fieldInv with an input that is 0 mod p never returns       *)
(* (Hang), as in ECGroup.                                                   *)
(*                                                                          *)
(* The tables A, A_3, delta, c and minus_one are constants, as the static  *)
(* arrays of lines 47-51 are.  The 8-word tmp of lines 168 and 184 is      *)
(* passed to fieldModP, which reads 16 words: the 8 words past it are the  *)
(* stack's, StackWords is the set of values they can form.                *)
(***************************************************************************)
EXTENDS ECGroup

CONSTANTS A,          \* the Montgomery coefficient A (486662)
          A_3,        \* the table A_3 of line 48
          delta,      \* the table delta, A/3 mod p
          c,          \* the table c, a square root of -(A + 2)
          minus_one,  \* the table minus_one, p - 1
          StackWords, \* the values of the 8 words read past tmp
          EdStart,    \* the Edwards points a chain may start from
          WeiStart,   \* the Weierstrass points a chain may start from
          MontStart,  \* the Montgomery points a chain may start from
          MaxCalls    \* the number of calls in a chain

ASSUME /\ {A, A_3, delta, c, minus_one} \subseteq 0..Prime-1
       /\ StackWords \subseteq 0..R-1
       /\ MaxCalls \in Nat \ {0}

\* ecc_isZero(A), lines 37-43: all eight words zero.
ecc_isZero(x) == x = 0

(***************************************************************************)
(* twisted_edwards_to_short_weierstrass(px, py, rx, ry), lines 56-103.     *)
(* Special cases (0, 0) and (0, minus_one) by the words; otherwise         *)
(* rx = (1 + py) / (1 - py) + delta and ry = c (1 + py) / ((1 - py) px),   *)
(* with fieldInv at line 89 on 1 - py and at line 100 on (1 - py) px.      *)
(***************************************************************************)
twisted_edwards_to_short_weierstrass(P) ==
    LET px == P[1]  py == P[2]
        nom  == fieldAdd(1, py, ecc_prime_r)
        tmp2 == fieldSub(1, py, ecc_prime_m)
        tmp  == fieldModP(tmp2 * px)
    IN CASE ecc_isZero(px) /\ ecc_isZero(py) -> <<0, 0>>
         [] ecc_isZero(px) /\ py = minus_one -> <<A_3, 0>>
         [] ~Invertible(tmp2) \/ ~Invertible(tmp) -> Hang
         [] OTHER ->
              <<fieldModP(fieldAdd(fieldModP(nom * fieldInvResult(tmp2)), delta, ecc_prime_r)),
                fieldModP(fieldModP(c * nom) * fieldInvResult(tmp))>>

\* A faulty variant of short_weierstrass_to_twisted_edwards without the
\* special case of the identity (0, 0).
short_weierstrass_to_twisted_edwardsNoIdentity(P) ==
    LET px == P[1]  py == P[2]
        tmp == fieldModP(3 * py)
        pa  == fieldSub(fieldModP(3 * px), A, ecc_prime_m)
        den == fieldAdd(pa, 3, ecc_prime_r)
    IN CASE ecc_isZero(py) /\ px = A_3 -> <<0, minus_one>>
         [] ~Invertible(tmp) \/ ~Invertible(den) -> Hang
         [] OTHER ->
              <<fieldModP(fieldModP(c * pa) * fieldInvResult(tmp)),
                fieldModP(fieldSub(pa, 3, ecc_prime_m) * fieldInvResult(den))>>

\* A faulty variant of short_weierstrass_to_twisted_edwards that computes
\* pa = A - 3 px, the operands of fieldSub swapped.
short_weierstrass_to_twisted_edwardsSwapPa(P) ==
    LET px == P[1]  py == P[2]
        tmp == fieldModP(3 * py)
        pa  == fieldSub(A, fieldModP(3 * px), ecc_prime_m)
        den == fieldAdd(pa, 3, ecc_prime_r)
    IN CASE ecc_isZero(py) /\ ecc_isZero(px) -> <<0, 0>>
         [] ecc_isZero(py) /\ px = A_3 -> <<0, minus_one>>
         [] ~Invertible(tmp) \/ ~Invertible(den) -> Hang
         [] OTHER ->
              <<fieldModP(fieldModP(c * pa) * fieldInvResult(tmp)),
                fieldModP(fieldSub(pa, 3, ecc_prime_m) * fieldInvResult(den))>>

(***************************************************************************)
(* short_weierstrass_to_twisted_edwards(px, py, rx, ry), lines 105-155.    *)
(* Special cases on py = 0: px = 0 and px = A_3 (by the words); otherwise  *)
(* pa = 3 px - A, rx = c pa / (3 py), ry = (pa - 3) / (pa + 3), with       *)
(* fieldInv at line 138 on 3 py and at line 152 on pa + 3.                 *)
(***************************************************************************)
short_weierstrass_to_twisted_edwards(P) ==
    LET px == P[1]  py == P[2]
        tmp == fieldModP(3 * py)
        pa  == fieldSub(fieldModP(3 * px), A, ecc_prime_m)
        den == fieldAdd(pa, 3, ecc_prime_r)
    IN CASE ecc_isZero(py) /\ ecc_isZero(px) -> <<0, 0>>
         [] ecc_isZero(py) /\ px = A_3 -> <<0, minus_one>>
         [] ~Invertible(tmp) \/ ~Invertible(den) -> Hang
         [] OTHER ->
              <<fieldModP(fieldModP(c * pa) * fieldInvResult(tmp)),
                fieldModP(fieldSub(pa, 3, ecc_prime_m) * fieldInvResult(den))>>

\* A faulty variant of montgomery_to_short_weierstrass that subtracts delta,
\* as the Weierstrass to Montgomery direction does.
montgomery_to_short_weierstrassSub(P, hi) ==
    IF ecc_isZero(P[1]) /\ ecc_isZero(P[2]) THEN P
    ELSE <<fieldModP(fieldSub(P[1], delta, ecc_prime_m) + hi * R), P[2]>>

\* A faulty variant of montgomery_to_short_weierstrass that returns the
\* fieldAdd result without the final fieldModP.
montgomery_to_short_weierstrassNoMod(P, hi) ==
    IF ecc_isZero(P[1]) /\ ecc_isZero(P[2]) THEN P
    ELSE <<fieldAdd(P[1], delta, ecc_prime_r), P[2]>>

(***************************************************************************)
(* short_weierstrass_to_montgomery(px, py, rx, ry), lines 157-171, and     *)
(* montgomery_to_short_weierstrass, lines 173-187: y is copied; (0, 0) is  *)
(* copied; otherwise x -/+ delta into the 8-word tmp, and fieldModP of the *)
(* 16 words from tmp, whose upper 8 words hold hi.                         *)
(***************************************************************************)
short_weierstrass_to_montgomery(P, hi) ==
    IF ecc_isZero(P[1]) /\ ecc_isZero(P[2]) THEN P
    ELSE <<fieldModP(fieldSub(P[1], delta, ecc_prime_m) + hi * R), P[2]>>

montgomery_to_short_weierstrass(P, hi) ==
    IF ecc_isZero(P[1]) /\ ecc_isZero(P[2]) THEN P
    ELSE <<fieldModP(fieldAdd(P[1], delta, ecc_prime_r) + hi * R), P[2]>>

-----------------------------------------------------------------------------
VARIABLES form,   \* the form of pt: "ed", "wei" or "mont"
          pt,     \* the point, as the integer reading of its two arrays
          start,  \* [form, pt] the chain started from
          calls,  \* the calls made so far
          pc      \* "ready", or "hang" inside a fieldInv that never returns

vars == <<form, pt, start, calls, pc>>

Forms == {"ed", "wei", "mont"}
Start == [ed |-> EdStart, wei |-> WeiStart, mont |-> MontStart]

TypeOK ==
    /\ form \in Forms
    /\ pt \in (0..Prime-1) \X (0..Prime-1)
    /\ start \in [form: Forms, pt: (0..Prime-1) \X (0..Prime-1)]
    /\ calls \in 0..MaxCalls
    /\ pc \in {"ready", "hang"}

Init ==
    /\ form \in Forms
    /\ pt \in Start[form]
    /\ start = [form |-> form, pt |-> pt]
    /\ calls = 0
    /\ pc = "ready"

\* One call f from form "from" to form "to"; a call that hangs leaves the
\* output arrays unwritten.
Call(from, to, res) ==
    /\ pc = "ready" /\ form = from /\ calls < MaxCalls
    /\ calls' = calls + 1
    /\ IF res = Hang
         THEN pc' = "hang" /\ UNCHANGED <<form, pt>>
         ELSE form' = to /\ pt' = res /\ UNCHANGED pc
    /\ UNCHANGED start

EdToWei == Call("ed", "wei", twisted_edwards_to_short_weierstrass(pt))

WeiToEd == Call("wei", "ed", short_weierstrass_to_twisted_edwards(pt))

WeiToMont == \E hi \in StackWords : Call("wei", "mont", short_weierstrass_to_montgomery(pt, hi))

MontToWei == \E hi \in StackWords : Call("mont", "wei", montgomery_to_short_weierstrass(pt, hi))

\* The halving loop of fieldInv spins (ecc.c line 449).
Spin == pc = "hang" /\ UNCHANGED vars

\* The chain is over.
Done == pc = "ready" /\ calls = MaxCalls /\ UNCHANGED vars

Next == EdToWei \/ WeiToEd \/ WeiToMont \/ MontToWei \/ Spin \/ Done

Spec == Init /\ [][Next]_vars


-----------------------------------------------------------------------------
(***************************************************************************)
(* The maps of spec section 4.8 on exact residues, with A/3 = A * 3^-1 mod *)
(* p.  A map divides by zero where the spec leaves the input to the caller *)
(* (section 7); it is Hang there.                                          *)
(***************************************************************************)
ThirdA == (A * InvMod(3)) % Prime

Residue(P) == <<P[1] % Prime, P[2] % Prime>>

Quot(x, y) == IF y % Prime = 0 THEN Hang ELSE <<(x * InvMod(y)) % Prime>>

SpecEdToWei(P) ==
    LET x == P[1]  y == P[2]
        rx == Quot(1 + y, 1 - y)
        ry == Quot(c * (1 + y), (1 - y) * x)
    IN CASE P = <<0, 0>> -> <<0, 0>>
         [] P = <<0, Prime - 1>> -> <<ThirdA, 0>>
         [] rx = Hang \/ ry = Hang -> Hang
         [] OTHER -> <<(rx[1] + ThirdA) % Prime, ry[1]>>

SpecWeiToEd(P) ==
    LET x == P[1]  y == P[2]
        pa == 3 * x - A
        rx == Quot(c * pa, 3 * y)
        ry == Quot(pa - 3, pa + 3)
    IN CASE P = <<0, 0>> -> <<0, 0>>
         [] P = <<ThirdA, 0>> -> <<0, Prime - 1>>
         [] rx = Hang \/ ry = Hang -> Hang
         [] OTHER -> <<rx[1], ry[1]>>

SpecWeiToMont(P) == IF P = <<0, 0>> THEN P ELSE <<(P[1] - ThirdA) % Prime, P[2]>>

SpecMontToWei(P) == IF P = <<0, 0>> THEN P ELSE <<(P[1] + ThirdA) % Prime, P[2]>>

\* A call whose spec map is defined returns its value, as residues.
Agrees(S) == S # Hang => pc' = "ready" /\ Residue(pt') = S

-----------------------------------------------------------------------------
(***************************************************************************)
(* Every call of the four convert.c functions on an input for which spec   *)
(* section 4.8 defines the result returns that result (the special cases   *)
(* included), modulo p.                                                    *)
(***************************************************************************)
ConversionsMatchSpec ==
    [][/\ EdToWei => Agrees(SpecEdToWei(pt))
       /\ WeiToEd => Agrees(SpecWeiToEd(pt))
       /\ WeiToMont => Agrees(SpecWeiToMont(pt))
       /\ MontToWei => Agrees(SpecMontToWei(pt))]_vars

(***************************************************************************)
(* Spec section 8 round trip: a chain of conversions that comes back to    *)
(* the form it started in gives back the very arrays it started from.      *)
(***************************************************************************)
RoundTrip == pc = "ready" /\ form = start.form => pt = start.pt

\* The two points of order 2 that the special cases of lines 64-68 and
\* 116-120 are written for.
OrderTwo == {[form |-> "ed", pt |-> <<0, minus_one>>], [form |-> "wei", pt |-> <<delta, 0>>]}

(***************************************************************************)
(* A chain that does not start at a point of order 2 hangs only in        *)
(* twisted_edwards_to_short_weierstrass on the Edwards identity (0, 1),   *)
(* whose 1 - py is 0 at line 89: the identity and order-2 special cases   *)
(* keep every other input, and every point a chain reaches, away from     *)
(* fieldInv(0) at lines 89, 100, 138 and 152.  A chain from the           *)
(* Weierstrass point (delta, 0) can also hang, at line 138, because the   *)
(* special case compares with A_3 (convert_special).                      *)
(***************************************************************************)
HangsOnlyAtIdentity ==
    pc = "hang" => (form = "ed" /\ pt = <<0, 1>>) \/ start \in OrderTwo
=============================================================================
