CONSTANTS
    W = 2
    L = 3

SPECIFICATION Spec

INVARIANT TypeOK
INVARIANT PartialProductsAccumulated
INVARIANT WordLoopsMatchIntegers
