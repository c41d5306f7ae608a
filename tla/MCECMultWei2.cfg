\* Spec 4.5: doubling uses 3x^2 + a; WEI25519_2 stores a, not p - a.
CONSTANTS
    W = 4
    L = 2
    Prime <- MCPrime
    CurveA <- MCCurveA
    ecc_param_a <- MCParamA
    fieldModP <- MCfieldModP
    Points <- MCSubgroup
    Secrets <- MCSecrets

SPECIFICATION Spec

INVARIANT PrefixMultiple
