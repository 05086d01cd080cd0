CONSTANTS
    Size = 5
    Vector = 3
    Cases <- MCCases
SPECIFICATION Spec
INVARIANT TypeOK
INVARIANT OperandsCurrent
PROPERTY ProgramOrder
PROPERTY Progress
