\* When the words read at line 379 are zero, the high words of A are dropped.
CONSTANTS
    W = 4
    L = 2
    Calls <- MCCalls
    Inputs <- MCInputs
    OOBReadZero = {FALSE, TRUE}
    MaxSubtractions = 3

SPECIFICATION Spec

INVARIANT ResultCongruent
