CONSTANTS
    a = a
    none = none
    Callers <- MCCallers
    NoCaller <- MCNoCaller
    Stages <- MCStages
    Lanes = 3
    TaskWorkers = 2
    MaxCount = 4
    MaxGrain = 3
    StampMod = 5
    MaxEpoch = 4
SPECIFICATION TasksSpec
INVARIANT DisjointClaims
PROPERTY ErrorReported
INVARIANT WaitMeansCompleted
PROPERTY JobsAtReturn
PROPERTY CallReturns
PROPERTY StageReturns
CHECK_DEADLOCK FALSE
