CONSTANTS
    Size = 5
    Vector = 3
    Cases <- MCDrainCases
SPECIFICATION Spec
PROPERTY FetchFaultDrains
