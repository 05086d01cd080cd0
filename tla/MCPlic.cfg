CONSTANTS
    Sources = 2
    Hart = {h0, h1}
    MaxPriority = 1
    MaxThreshold = 0
    Parallel = FALSE
    None = None
SPECIFICATION Spec
INVARIANT TypeOK
INVARIANT ServedOnce
PROPERTY RequestKept
PROPERTY PendsAgain
