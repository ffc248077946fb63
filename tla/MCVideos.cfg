SPECIFICATION FairSpec
CONSTANTS
    Worker = {w1, w2}
    Video <- MCVideo
    PublishedAt <- MCPublishedAt
    Request <- MCRequest
    Foreign = {1}
    Field = {"title", "privacy"}
    Uploaded = 4
    PageSize = 3
    MaxPages = 3
    ListSize = 1
    ListPages = 2
    MaxRequests = 2
    Elsewhere = {3}
    MaxTrouble = 2
INVARIANTS
    UpdatesStay
    CacheFollowsUpdates
    SyncIsComplete
    SummaryCountsOnce
PROPERTY
    RequestsReturn
CHECK_DEADLOCK FALSE
