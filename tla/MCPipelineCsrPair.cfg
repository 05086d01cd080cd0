CONSTANTS
    Size = 5
    Vector = 3
    Cases <- MCPairCases
SPECIFICATION Spec
INVARIANT CsrPerformed
