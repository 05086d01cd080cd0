CONSTANTS
    Cpus = 2
    Shapes <- MCShapes
    MaxValue = 1
    None = None
SPECIFICATION Spec
INVARIANT TypeOK
INVARIANT Coherent
PROPERTY MemorySpec
PROPERTY RequestEnds
