\* Key agreements on the three curves of ecc_ec_init, with ecc_ec_init
\* called at any point, between or inside agreements.
CONSTANTS
    Curves <- MCCurves
    Unknown = "OTHER"
    Default = "SECP256R1"
    Parties = {pa, pb}
    Secrets <- MCSecrets
    Mult <- MCMult
    BasePoint <- MCBasePoint
    Hang <- MCHang

SYMMETRY PartySymmetry

SPECIFICATION Spec

INVARIANT AgreementOn25519
INVARIANT HangsOnlyOnWei2OrReconfigured
