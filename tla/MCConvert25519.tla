--------------------------- MODULE MCConvert25519 ---------------------------
(***************************************************************************)
(* The convert.c conversions on a scaled 25519 family, W = 4, L = 2        *)
(* (R = 256).  The prime 101 stands for 2^255 - 19: below R / 2, and 5 mod *)
(* 8.  The Montgomery curve y^2 = x^3 + 17 x^2 + x has, like Curve25519, a *)
(* coefficient A that is 2 mod 3 with A^2 - 4 a non-square, and          *)
(* -(A + 2) a square; its Edwards form -x^2 + y^2 = 1 + d x^2 y^2          *)
(* (d = (2 - A) / (2 + A) = 63, a non-square) has 104 = 8 * 13 points.     *)
(* The Weierstrass form y^2 = x^3 + a x + b has a = (3 - A^2) / 3 = 73 and *)
(* b = (2 A^3 - 9 A) / 27 = 59.  The tables are built as the code's are:   *)
(* A_3 is the integer A div 3 (0x279ac = 486662 div 3), delta is A/3 mod p *)
(* (0x2aaa...ad2451), minus_one is p - 1.                                  *)
(***************************************************************************)
EXTENDS Convert

MCPrime == 101
MCCurveA == 73
MCCurveB == 59
MCParamA == MCPrime - MCCurveA
MCA == 17
MCA_3 == MCA \div 3
MCdelta == (MCA * InvMod(3)) % MCPrime
MCc == 48
MCminus_one == MCPrime - 1
MCEdD == ((2 - MCA) * InvMod(2 + MCA)) % MCPrime

MCfieldModP(b) == fieldModGeneric(b)

ASSUME (MCc * MCc + MCA + 2) % MCPrime = 0

Field == 0..MCPrime-1

MCEdPoints == {q \in Field \X Field :
    (q[2] * q[2] - q[1] * q[1] - 1 - MCEdD * ((q[1] * q[1]) % MCPrime) * ((q[2] * q[2]) % MCPrime)) % MCPrime = 0}
MCWeiPoints == {q \in Field \X Field :
    (q[2] * q[2] - q[1] * q[1] * q[1] - MCCurveA * q[1] - MCCurveB) % MCPrime = 0}
MCMontPoints == {q \in Field \X Field :
    (q[2] * q[2] - q[1] * q[1] * q[1] - MCA * q[1] * q[1] - q[1]) % MCPrime = 0}

\* Every point of each form and the identity encoding (0, 0), except the
\* point of order 2 in the Edwards and Weierstrass forms, which the special
\* cases handle (and MCConvert25519_special checks).
MCEdStart == (MCEdPoints \cup {<<0, 0>>}) \ {<<0, MCminus_one>>}
MCWeiStart == (MCWeiPoints \cup {<<0, 0>>}) \ {<<MCdelta, 0>>}
MCMontStart == MCMontPoints

MCEdAll == MCEdPoints \cup {<<0, 0>>}
MCWeiAll == MCWeiPoints \cup {<<0, 0>>}

=============================================================================
