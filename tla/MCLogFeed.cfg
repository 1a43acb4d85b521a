SPECIFICATION FairFeedSpec
CONSTANTS
    Capacity = 2
    MaxEntries = 4
    MaxStreams = 3
    None = None
INVARIANTS
    FeedTypeOK
    PageIsWindow
PROPERTY
    CatchesUp
