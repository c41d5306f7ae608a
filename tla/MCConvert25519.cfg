\* Chains of four conversions from every point but the order-2 ones.
CONSTANTS
    W = 4
    L = 2
    Prime <- MCPrime
    CurveA <- MCCurveA
    ecc_param_a <- MCParamA
    fieldModP <- MCfieldModP
    A <- MCA
    A_3 <- MCA_3
    delta <- MCdelta
    c <- MCc
    minus_one <- MCminus_one
    StackWords = {0}
    EdStart <- MCEdStart
    WeiStart <- MCWeiStart
    MontStart <- MCMontStart
    MaxCalls = 4

SPECIFICATION Spec

INVARIANT TypeOK
INVARIANT RoundTrip
INVARIANT HangsOnlyAtIdentity
PROPERTY ConversionsMatchSpec
