-------------------------------- MODULE ECDH --------------------------------
(***************************************************************************)
(* The curve registry of src/ecc/ecc.c (the globals of lines 115-128, set  *)
(* by init and ecc_ec_init, lines 130-167) and the key agreements that     *)
(* read it: eccdhTest of testecc.c (lines 91-114), run by two parties.     *)
(* Each party draws a secret (ecc_setRandom), computes its public key      *)
(* ecc_ec_mult(G, secret), and after the exchange its shared point         *)
(* ecc_ec_mult(peer's public key, secret).  Every ecc_ec_mult reads the    *)
(* globals as they are at that call, and ecc_ec_init may run between any  *)
(* two calls: nothing in ecc.c stops it (spec 5 leaves it to callers).    *)
(*                                                                          *)
(* The globals are the curve whose tables they point to: init assigns all *)
(* thirteen together and nothing else writes them.  Mult(c, P, k) is       *)
(* ecc_ec_mult under curve c's tables and fieldModP, BasePoint(c) its      *)
(* (ecc_g_point_x, ecc_g_point_y).                                         *)
(***************************************************************************)
EXTENDS Integers, FiniteSets

CONSTANTS Curves,          \* the ec_curve_t values ecc_ec_init accepts
          Unknown,         \* a value its switch does not list
          Default,         \* the curve of the static initializers
          Parties,         \* the two sides of a key agreement
          Secrets,         \* the 8-word values ecc_setRandom may return
          Mult(_, _, _),   \* ecc_ec_mult(px, py, secret) under a curve
          BasePoint(_),    \* ecc_g_point_x, ecc_g_point_y of a curve
          Hang             \* the result of a call that never returns

ASSUME Default \in Curves /\ Unknown \notin Curves

VARIABLES active,   \* the curve the globals point to
          secret,   \* each party's secretA / secretB
          pub,      \* each party's public key (tempx, tempBx1)
          shared,   \* each party's shared point (tempAx2, tempBx2)
          pc,
          read      \* history: the curves the agreement's calls have read

vars == <<active, secret, pub, shared, pc, read>>

None == <<-2, -2>>

Peer(p) == CHOOSE q \in Parties : q # p

Init ==
    /\ active = Default
    /\ secret = [p \in Parties |-> 0]
    /\ pub = [p \in Parties |-> None]
    /\ shared = [p \in Parties |-> None]
    /\ pc = [p \in Parties |-> "idle"]
    /\ read = {}

(***************************************************************************)
(* ecc_ec_init(curve), lines 150-167: a listed curve makes init point    *)
(* every global at that curve's tables and returns 0; any other value    *)
(* returns -1 and leaves the globals.                                      *)
(***************************************************************************)
ecc_ec_init(c) == IF c \in Curves THEN c ELSE active

EcInit ==
    /\ \E c \in Curves \cup {Unknown} : active' = ecc_ec_init(c)
    /\ UNCHANGED <<secret, pub, shared, pc, read>>

\* ecc_setRandom(secret), then ecc_ec_mult(BasePointx, BasePointy, secret).
KeyGen(p) ==
    /\ pc[p] = "idle"
    /\ \E s \in Secrets :
         /\ secret' = [secret EXCEPT ![p] = s]
         /\ \E P \in {Mult(active, BasePoint(active), s)} :
              /\ pub' = [pub EXCEPT ![p] = P]
              /\ pc' = [pc EXCEPT ![p] = IF P = Hang THEN "hang" ELSE "keyed"]
    /\ read' = read \cup {active}
    /\ UNCHANGED <<active, shared>>

\* A faulty variant of Agree that passes the party's own public key (tempx
\* for tempBx1) to ecc_ec_mult.
AgreeOwnKey(p) ==
    /\ pc[p] = "keyed" /\ pc[Peer(p)] \in {"keyed", "agreed"}
    /\ \E S \in {Mult(active, pub[p], secret[p])} :
         /\ shared' = [shared EXCEPT ![p] = S]
         /\ pc' = [pc EXCEPT ![p] = IF S = Hang THEN "hang" ELSE "agreed"]
    /\ read' = read \cup {active}
    /\ UNCHANGED <<active, secret, pub>>

\* ecc_ec_mult(peer's public key, secret), once the peer's key is known.
Agree(p) ==
    /\ pc[p] = "keyed" /\ pc[Peer(p)] \in {"keyed", "agreed"}
    /\ \E S \in {Mult(active, pub[Peer(p)], secret[p])} :
         /\ shared' = [shared EXCEPT ![p] = S]
         /\ pc' = [pc EXCEPT ![p] = IF S = Hang THEN "hang" ELSE "agreed"]
    /\ read' = read \cup {active}
    /\ UNCHANGED <<active, secret, pub>>

\* The test's assertions compare the two shared points; a new agreement
\* starts from fresh arrays.
Restart ==
    /\ \A p \in Parties : pc[p] = "agreed"
    /\ pc' = [p \in Parties |-> "idle"]
    /\ pub' = [p \in Parties |-> None]
    /\ shared' = [p \in Parties |-> None]
    /\ read' = {}
    /\ UNCHANGED <<active, secret>>

\* A fieldInv that never returns; nothing changes.
Spin == \E p \in Parties : pc[p] = "hang" /\ UNCHANGED vars

Next == EcInit \/ Restart \/ Spin \/ \E p \in Parties : KeyGen(p) \/ Agree(p)

Spec == Init /\ [][Next]_vars

-----------------------------------------------------------------------------
(***************************************************************************)
(* Spec 8, scenario 6, and the assertions of eccdhTest (testecc.c lines   *)
(* 111-112): when both parties have their shared point and all four       *)
(* ecc_ec_mult calls of the agreement read the globals of one curve, the  *)
(* two points are the same, dA (dB G) = dB (dA G).  It rests on           *)
(* ecc_ec_mult being a group action of the secret whatever the point it   *)
(* is given; an ecc_ec_init before the agreement is harmless.             *)
(***************************************************************************)
BothAgreed == \A p \in Parties : pc[p] = "agreed"

SharedEqual == \A p, q \in Parties : shared[p] = shared[q]

Agreement == \A c \in Curves : read = {c} /\ BothAgreed => SharedEqual

=============================================================================
