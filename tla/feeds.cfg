SPECIFICATION FairFeedSpec
CONSTANTS
    Order <- AllFeeds
    Chunks = 2
    MaxVersion = 2
    MaxFaults = 3
INVARIANTS
    FeedTypeOK
    WholeCopies
    NeverAheadOfTable
    IPinfoIntact
PROPERTIES
    FeedsFollow
