\* A signature ecc_ecdsa_sign made validates with the signer's key.
CONSTANTS
    W = 4
    L = 2
    Prime <- MCPrime
    CurveA <- MCCurveA
    ecc_param_a <- MCParamA
    fieldModP <- MCfieldModP
    ecc_order_m <- MCOrder
    ecc_prime_shift <- MCShift
    G <- MCG
    OOBReadZero = FALSE
    Keys <- MCKeys
    Digests <- MCDigests
    Nonces <- MCNonces
    Forgeries <- MCForgeries

SPECIFICATION Spec


INVARIANT SignatureVerifies
