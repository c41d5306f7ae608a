CONSTANTS
    W = 4
    L = 2
    Moduli <- MCModuli
    Inputs <- MCInputs

SPECIFICATION Spec

INVARIANT TypeOK
INVARIANT BezoutInvariant
PROPERTY InverseSpecImplemented
