CONSTANTS
    Run = {r1, r2}
    Asset = {archive, sums}
    Revision <- MCRevision
    MaxVersions = 2
    MaxDispatches = 1
    MaxFailures = 2
SPECIFICATION FairSpec
INVARIANTS
    TypeOK
    PublishedIsWhole
PROPERTIES
    PublishedStays
    LatestIsPublished
CHECK_DEADLOCK FALSE
