-------------------------------- MODULE ECDSA --------------------------------
(***************************************************************************)
(* ecc_gen_pub_key (ecc.h lines 74-77), ecc_ecdsa_sign and                 *)
(* ecc_ecdsa_validate (src/ecc/ecc.c lines 618-730) on the integer reading *)
(* of ECGroup and ModX.  One session: the signer derives Q = d * G, signs  *)
(* the digest e with nonce k, and the verifier validates either that       *)
(* signature or one it received from elsewhere (forged).  Each action is   *)
(* a whole call.                                                           *)
(*                                                                          *)
(* fieldModO(A, result, length), lines 407-409, is fieldModX with the      *)
(* order n, result_length L+1.  fieldInv modulo n writes the inverse of an *)
(* input that is not 0 mod n (FieldInv refines InverseSpec for the         *)
(* modulus 17 too) and never returns otherwise.                            *)
(***************************************************************************)
EXTENDS ECGroup

CONSTANTS ecc_order_m,     \* the group order n
          ecc_prime_shift, \* the digest shift of the curve
          G,               \* the base point (ecc_g_point_x, ecc_g_point_y)
          OOBReadZero,     \* whether the words read at line 379 are zero
          Keys, Digests, Nonces, \* the d, e and k passed in
          Forgeries        \* the (r, s) a verifier may receive unsigned

ASSUME /\ ecc_order_m < R /\ OOBReadZero \in BOOLEAN
       /\ \A x \in 2..ecc_order_m-1 : ecc_order_m % x # 0

fieldModO(a, len) == fieldModX(a, [m |-> ecc_order_m, len |-> len, rl |-> L + 1], OOBReadZero)

\* fieldInv(a, ecc_order_m, ecc_order_r, out) for a not 0 mod n.
fieldInvOrder(a) == PowMod(a % ecc_order_m, ecc_order_m - 2, ecc_order_m)

\* Lines 645-649 and 702-707: copy(e, z) then ecc_prime_shift rshifts.
Digest(e) == e \div 2^ecc_prime_shift

\* A faulty variant of ecc_ecdsa_sign that inverts k modulo p, not n.
ecc_ecdsa_signInvModP(d, e, kk, r0, s0) ==
    LET kG == ecc_ec_mult(G, kk)
        r  == fieldModO(kG[1], L)
        rd == fieldModO((r % R) * d, 2 * L)
        t  == fieldModO(Digest(e) + (rd % R), 2 * L)
        s  == fieldModO((fieldInvResult(kk) % R) * (t % R), 2 * L)
    IN CASE kk = 0                   -> [ret |-> "fail", r |-> r0, s |-> s0]
         [] kG = Hang                -> [ret |-> "hang", r |-> r0, s |-> s0]
         [] r % R = 0                -> [ret |-> "fail", r |-> r, s |-> s0]
         [] kk % ecc_order_m = 0     -> [ret |-> "hang", r |-> r, s |-> s0]
         [] s % R = 0                -> [ret |-> "fail", r |-> r, s |-> s]
         [] OTHER                    -> [ret |-> "ok", r |-> r, s |-> s]

(***************************************************************************)
(* ecc_ecdsa_sign(d, e, k, r, s), lines 618-667; r0 and s0 are what the    *)
(* caller's arrays held.  r is fieldModO of the 8-word x coordinate of     *)
(* k * G; fieldMult reads the low 8 words of its 9-word operands.          *)
(***************************************************************************)
ecc_ecdsa_sign(d, e, kk, r0, s0) ==
    LET kG == ecc_ec_mult(G, kk)
        r  == fieldModO(kG[1], L)
        rd == fieldModO((r % R) * d, 2 * L)
        t  == fieldModO(Digest(e) + (rd % R), 2 * L)
        s  == fieldModO((fieldInvOrder(kk) % R) * (t % R), 2 * L)
    IN CASE kk = 0                   -> [ret |-> "fail", r |-> r0, s |-> s0]
         [] kG = Hang                -> [ret |-> "hang", r |-> r0, s |-> s0]
         [] r % R = 0                -> [ret |-> "fail", r |-> r, s |-> s0]
         [] kk % ecc_order_m = 0     -> [ret |-> "hang", r |-> r, s |-> s0]
         [] s % R = 0                -> [ret |-> "fail", r |-> r, s |-> s]
         [] OTHER                    -> [ret |-> "ok", r |-> r, s |-> s]

\* A faulty variant of ecc_ecdsa_validate that compares the x coordinate
\* with r without reducing it modulo n (line 728).
ecc_ecdsa_validateNoReduce(Qp, e, r, s) ==
    LET w  == fieldInvOrder(s)
        u1 == fieldModO(Digest(e) * w, 2 * L)
        u2 == fieldModO(r * w, 2 * L)
        T1 == ecc_ec_mult(G, u1 % R)
        T2 == ecc_ec_mult(Qp, u2 % R)
        S  == IF T1 = Hang \/ T2 = Hang THEN Hang ELSE ec_add(T1, T2)
    IN CASE s % ecc_order_m = 0 -> "hang"
         [] S = Hang            -> "hang"
         [] S[1] = r -> "ok"
         [] OTHER               -> "fail"

(***************************************************************************)
(* ecc_ecdsa_validate(x, y, e, r, s), lines 686-730, for the 8-word r and  *)
(* s.  ec_add writes its x coordinate into the 9-word u1 (line 725), whose *)
(* top word is still the one fieldModO wrote at line 711; line 728 reduces *)
(* all 9 words; isSame compares 8.                                         *)
(***************************************************************************)
ecc_ecdsa_validate(Qp, e, r, s) ==
    LET w  == fieldInvOrder(s)
        u1 == fieldModO(Digest(e) * w, 2 * L)
        u2 == fieldModO(r * w, 2 * L)
        T1 == ecc_ec_mult(G, u1 % R)
        T2 == ecc_ec_mult(Qp, u2 % R)
        S  == IF T1 = Hang \/ T2 = Hang THEN Hang ELSE ec_add(T1, T2)
    IN CASE s % ecc_order_m = 0 -> "hang"
         [] S = Hang            -> "hang"
         [] fieldModO(S[1] + (u1 \div R) * R, L + 1) % R = r -> "ok"
         [] OTHER               -> "fail"

VARIABLES d, e,     \* the private key, the digest
          nonce,    \* k (ModX's k is the Barrett word count)
          Q,        \* the public key
          r, s,     \* the signature the verifier is given
          signRet, valRet,
          forged,   \* the verifier's signature was not made by the signer
          pc

vars == <<d, e, nonce, Q, r, s, signRet, valRet, forged, pc>>

\* The return codes 0 ("ok") and -1 ("fail"), a call that never returns,
\* and no call yet.
Ret == {"ok", "fail", "hang", "none"}

Init ==
    /\ d \in Keys /\ e \in Digests
    /\ Q = Identity /\ r = 0 /\ s = 0
    /\ signRet = "none" /\ valRet = "none"
    /\ \/ forged = FALSE /\ nonce \in Nonces
       \/ forged = TRUE /\ nonce = 0
    /\ pc = "keygen"

\* ecc_gen_pub_key(d, Qx, Qy): ecc_ec_mult(G, d).
GenPubKey ==
    /\ pc = "keygen"
    /\ Q' = ecc_ec_mult(G, d)
    /\ pc' = CASE Q' = Hang -> "hang" [] forged -> "deliver" [] OTHER -> "sign"
    /\ UNCHANGED <<d, e, nonce, r, s, signRet, valRet, forged>>

\* ecc_ecdsa_sign(d, e, k, r, s), called once; out is what it returns.
Sign ==
    /\ pc = "sign"
    /\ \E out \in {ecc_ecdsa_sign(d, e, nonce, r, s)} :
          /\ signRet' = out.ret /\ r' = out.r /\ s' = out.s
          /\ pc' = CASE out.ret = "hang" -> "hang"
                     [] out.ret = "ok"   -> "deliver"
                     [] OTHER            -> "done"
    /\ UNCHANGED <<d, e, nonce, Q, valRet, forged>>

\* The verifier is given (r, s, e) with Q.
Validate(rr, ss) ==
    \E ret \in {ecc_ecdsa_validate(Q, e, rr, ss)} :
       /\ valRet' = ret
       /\ pc' = IF ret = "hang" THEN "hang" ELSE "done"

ValidateSigned ==
    /\ pc = "deliver" /\ ~forged
    /\ Validate(r % R, s % R)
    /\ UNCHANGED <<d, e, nonce, Q, r, s, signRet, forged>>

ValidateForged ==
    /\ pc = "deliver" /\ forged
    /\ \E sig \in Forgeries :
         /\ r' = sig[1] /\ s' = sig[2]
         /\ Validate(sig[1], sig[2])
    /\ UNCHANGED <<d, e, nonce, Q, signRet, forged>>

Done == pc = "done" /\ UNCHANGED vars

\* fieldInv loops forever; nothing changes.
Spin == pc = "hang" /\ UNCHANGED vars

Next == GenPubKey \/ Sign \/ ValidateSigned \/ ValidateForged \/ Done \/ Spin

Spec == Init /\ [][Next]_vars

-----------------------------------------------------------------------------
\* Spec 4.7 on exact residues and the reference group law.
InvN(x) == PowMod(x % ecc_order_m, ecc_order_m - 2, ecc_order_m)

SpecR(kk) == ScalarMul(kk, G)[1] % ecc_order_m

SpecS(dd, ee, kk) == (InvN(kk) * (Digest(ee) + SpecR(kk) * dd)) % ecc_order_m

SpecVerify(Qp, ee, rr, ss) ==
    LET w == InvN(ss)
        X == GroupAdd(ScalarMul((Digest(ee) * w) % ecc_order_m, G),
                      ScalarMul((rr * w) % ecc_order_m, Qp))
    IN X[1] % ecc_order_m = rr

(***************************************************************************)
(* Spec 4.7, Sign, up to the representation of residues: the call always  *)
(* returns, it retries only when k = 0, r = 0 or s = 0, and what it        *)
(* returns is congruent to r = x(kG) mod n and s = k^-1 (z + r d) mod n.   *)
(* It depends on the whole chain of reductions (fieldModO four times,      *)
(* fieldInv, the group law over fieldModP) and on the r = 0 test at line   *)
(* 636 catching a nonce that is a nonzero multiple of n, which the k = 0   *)
(* test at line 624 lets through, before fieldInv(k) would spin.  Being    *)
(* congruent, it accepts s = n (see SignatureVerifies).                    *)
(***************************************************************************)
SignCongruent ==
    signRet # "none" /\ valRet = "none" =>
    /\ signRet # "hang"
    /\ signRet = "fail" => nonce = 0 \/ SpecR(nonce) = 0 \/ SpecS(d, e, nonce) = 0
    /\ signRet = "ok" => /\ r % ecc_order_m = SpecR(nonce)
                         /\ s % ecc_order_m = SpecS(d, e, nonce)

(***************************************************************************)
(* Spec 8, scenario 4: a signature ecc_ecdsa_sign returned 0 for, checked *)
(* with Q = d * G, validates: ecc_ecdsa_validate returns, and returns 0.   *)
(* Sign tests isZero(s) on what fieldModO wrote; validate inverts s.       *)
(***************************************************************************)
SignatureVerifies ==
    /\ pc = "hang" => forged
    /\ pc = "done" /\ ~forged /\ signRet = "ok" => valRet = "ok"

(***************************************************************************)
(* Spec 4.7, Verify: for every signature the verifier is given, signed or  *)
(* not, with s invertible, validate accepts iff x(u1 G + u2 Q) mod n = r.  *)
(* The code reuses u1 for the x coordinate (line 725) and compares words   *)
(* with isSame.                                                            *)
(***************************************************************************)
ValidateMatchesSpec ==
    pc = "done" /\ valRet # "none" =>
      (valRet = "ok" <=> SpecVerify(Q, e, r, s))

=============================================================================
