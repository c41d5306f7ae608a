\* The special cases of spec 4.8: chains from every point, order 2 included.
CONSTANTS
    W = 4
    L = 2
    Prime <- MCPrime
    CurveA <- MCCurveA
    ecc_param_a <- MCParamA
    fieldModP <- MCfieldModP
    A <- MCA
    A_3 <- MCA_3
    delta <- MCdelta
    c <- MCc
    minus_one <- MCminus_one
    StackWords = {0}
    EdStart <- MCEdAll
    WeiStart <- MCWeiAll
    MontStart <- MCMontStart
    MaxCalls = 4

SPECIFICATION Spec

PROPERTY ConversionsMatchSpec
