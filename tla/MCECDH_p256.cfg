\* ECDH agreement (spec 8, scenario 6) on each curve, SECP256R1 included.
CONSTANTS
    Curves <- MCCurves
    Unknown = "OTHER"
    Default = "SECP256R1"
    Parties = {pa, pb}
    Secrets <- MCSecrets
    Mult <- MCMult
    BasePoint <- MCBasePoint
    Hang <- MCHang

SYMMETRY PartySymmetry

SPECIFICATION Spec

INVARIANT Agreement
