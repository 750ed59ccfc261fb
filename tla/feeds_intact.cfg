\* One fault is enough: an archive that cannot be extracted whole.
SPECIFICATION FeedSpec
CONSTANTS
    Order <- AllFeeds
    Chunks = 2
    MaxVersion = 2
    MaxFaults = 1
INVARIANT PreviousIndexIntact
