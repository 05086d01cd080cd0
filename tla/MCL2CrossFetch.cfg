CONSTANTS
    Cpus = 2
    Shapes <- MCShapes
    MaxValue = 1
    None = None
SPECIFICATION Spec
PROPERTY FetchLatest
