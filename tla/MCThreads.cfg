CONSTANTS
    a = a
    b = b
    none = none
    Callers <- MCCallers
    NoCaller <- MCNoCaller
    Lanes = 3
    StampMod = 2
SPECIFICATION Spec
INVARIANT TypeOK
INVARIANT JobMetadata
INVARIANT NoLostWakeup
PROPERTY DrainBeforeReturn
PROPERTY StopEnds
PROPERTY ForkJoinSpec
