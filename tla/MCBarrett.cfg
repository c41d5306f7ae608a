\* The final loop of fieldModX, whatever the read at line 379 finds.
CONSTANTS
    W = 4
    L = 2
    Calls <- MCCalls
    Inputs <- MCInputs
    OOBReadZero = {FALSE, TRUE}
    MaxSubtractions = 3

SPECIFICATION Spec

INVARIANT TypeOK
 
