SPECIFICATION MCSpec
CONSTANTS
    Streams = {preview, jpeg}
    BlobStreams = {jpeg}
    BufferIds = {1}
    MaxFrame = 2
    NONE = NONE
    Objects = {o1, o2}
    Addresses = {n1, n2}
    Tags = {t1, t2}
    UnknownTag = unknown
    Sizes = {0, 1}
    ClientCaps = {1}
    NULL = NULL
    Free = Free
SYMMETRY Symmetry
INVARIANTS
    Serialized
    SleepIsJustified
    StreamsAreRegistered
    OneOwner
    UpdateFits
PROPERTIES
    NoThumbnailWorker
    RequestEnds
    LockedIsFrozen
    UpdateKeepsOthers
