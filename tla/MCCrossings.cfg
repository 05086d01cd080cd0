CONSTANTS
    Request = {r1, r2, r3, r4, r5, r6}
    NoRequest = NoRequest
    Beat = {0, 1, 2}
    None = None
    Modes <- MCModes
    Regions <- MCRegions
    Item = {x, y}
    NoItem = NoItem
    AddrBits = 2
SPECIFICATION CrossingSpec
INVARIANT TypeOK
INVARIANT OwnResponse
INVARIANT DataMeetsAddress
INVARIANT SynchronizersLag
PROPERTY BundleStable
PROPERTY HeldRequestEnds
PROPERTY ChannelSpec
PROPERTY PortSpec
PROPERTY JobEnds
PROPERTY BufferSpec
PROPERTY ItemArrives
PROPERTY RowReturns
