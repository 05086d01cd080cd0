CONSTANTS
    Size = 5
    Vector = 3
    Cases <- MCWalkCases
SPECIFICATION Spec
INVARIANT CsrOnce
