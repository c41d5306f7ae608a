\* ECDSA sign and validate on the scaled WEI25519 curve, every digest and
\* nonce, signatures with s invertible modulo n.
CONSTANTS
    W = 4
    L = 2
    Prime <- MCPrime
    CurveA <- MCCurveA
    ecc_param_a <- MCParamA
    fieldModP <- MCfieldModP
    ecc_order_m <- MCOrder
    ecc_prime_shift <- MCShift
    G <- MCG
    OOBReadZero = FALSE
    Keys <- MCKeys
    Digests <- MCDigests
    Nonces <- MCNonces
    Forgeries <- MCForgeries

SPECIFICATION Spec

INVARIANT SignCongruent
INVARIANT ValidateMatchesSpec
