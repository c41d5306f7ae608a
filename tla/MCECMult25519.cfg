\* ecc_ec_mult on every point of the scaled WEI25519 curve, every secret.
CONSTANTS
    W = 4
    L = 2
    Prime <- MCPrime
    CurveA <- MCCurveA
    ecc_param_a <- MCParamA
    fieldModP <- MCfieldModP
    Points <- MCPoints
    Secrets <- MCSecrets

SPECIFICATION Spec

INVARIANT TypeOK
INVARIANT PrefixMultiple
INVARIANT HangsOnlyAtTwoTorsion
