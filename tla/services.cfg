CONSTANTS
    Loads = {l1, l2}
    MaxFeedJobs = 2
    MaxBacklog = 1
    MaxWire = 1
    LoadLimit = 1
    MaxItems = 1
    Calls = {r1, r2}
    Concurrency = 1
    Rpm = 1
    MaxRetries = 1
    oneA = oneA
    oneB = oneB
    twoA = twoA
    Clients = {c1, c2}
    ExternalIds <- MCIds
    ProviderOf <- MCProviderOf
    SourceTitle <- MCTitle
    Titles = {"A", "B"}
    Genres = {"g"}
    MaxSeries = 2
    MaxRequests = 3
    Nobody = Nobody
    Payloads <- MCPayloads
    ImageIds = {0, 1, 2}
    Unnumbered = Unnumbered
    MaxImages = 3
    MaxUploads = 3
    ChapterLimit = 2
    Uploaded <- MCUploaded
    SafeName <- MCSafeName
    CoverCalls = {g1, g2}
    Covers = {"k1", "k2"}
    Images = {"i1", "i2"}
    Accounts = {ann, bob}
    LastKey = 2
    Values = {off, on}
    Default = off
    Names = {"n1", "n2"}
    Missing = Missing
SPECIFICATION ServicesSpec
INVARIANTS FeedTypeOK ShownUnlessMissed
INVARIANTS AccessTypeOK SlotsBalance RetriesPay EmptyIsExcused
INVARIANTS CatalogTypeOK OneSeriesPerTitle GenresOfOneMerge
INVARIANTS MergeIgnoresOrder PagesKeepApart RowsHaveOwnFiles HashNamesContent SavedSettingsReturn
PROPERTIES RefreshHeals CallsEnd LockReleased ListingIsStable StartsAsSaved
CHECK_DEADLOCK FALSE
