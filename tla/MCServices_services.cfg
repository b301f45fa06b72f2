\* One request of each kind meets up to two others; one row, one or two names,
\* three wall-clock steps, one failure and one restart of each sort.
CONSTANTS
    c1 = c1
    c2 = c2
    c3 = c3
    c4 = c4
    a = a
    b = b
    k = k
    TokenCall = {c1, c2, c3}
    TokenUser = {a}
    RowKey = {k}
    NoSnapshot = NoSnapshot
    CallOps <- TokenOpSet
    MaxRestarts = 1
    MaxWriteErrors = 1
    MaxReadErrors = 1
    Visit = {c1, c2, c3}
    Counted = {a}
    NoVisit = NoVisit
    VisitOps <- StatsOpSet
    FirstVisitsOverlap = FALSE
    MaxDownloads = 3
    MaxStatsStops = 1
    Update = {c1, c2, c3}
    PackageName = {a, b}
    UpdateOps <- ListOpSet
    Boot = Boot
    Unreadable = Unreadable
    NoFile = NoFile
    MaxCrashes = 1
    MaxListErrors = 1
    Request = {c1, c2, c3}
    None = None
    Requests <- TfaOpSet
    FirstRecord <- TfaRecords
    MaxSecrets = 2
    Now = 2
    Window = 1
    RecoveryCount = 1
    MaxFailed = 2
    Lockout = 1
    StoresOverlap = FALSE
    MaxStops = 1
    Visitor = {c1, c2, c3}
    Account = {a, b}
    Password = {1, 2}
    Missing = Missing
    Nobody = Nobody
    Visits <- AccountOpSet
    FirstFiles <- UserFiles
    Limits = {2, 9}
    Closed = 9
    MaxLinks = 2
    MaxDiskErrors = 1
    MaxKills = 1
    Caller = {c1, c2, c3}
    TokenKey = {k}
    NoKey = NoKey
    Readonly = {}
    Calls <- AccessOpSet
    Ttl = 2
    MaxEntries = 1
    Passwords = 2
    End = 2
    Asking = {c1, c2, c3}
    RetryLimit = 2
    MaxFails = 2
    FailTimeout = 1
    ProxyEnd = 1
    Guest = {c1, c2, c3, c4}
    NoToken = NoToken
    GuestKinds <- GuestKind
    Asker = {c1, c2}
    Questions <- APublishAndAnother
    Chains <- NoPluginOrOne
    Upload = {c1, c2, c3}
    Sizes = {1}
    Quota = 2
    CacheTtl = 1
    NoMeasure = NoMeasure
    QuotaEnd = 2
    MaxUntold = 1
    Offers <- FilterOffers
    Configs <- FilterConfigs
    Prerelease = {3}
    Globs = {"glob"}
    Nothing = Nothing
    NoDate = NoDate
    Client = {c1, c2}
    Size = 2
    Absent = Absent
    Caching = {TRUE, FALSE}
    Framing = {"length", "chunked"}
    MaxDiskFaults = 1
    MaxRemovals = 1
    MaxDeaths = 1
    Wish = {c1, c2, c3}
    Person = {a, b}
    Readers = {a}
    Publishers = {}
    Wishes <- WishSet
    FirstAccess <- FirstManifests
    Searches <- SearchSet
    NoScore = NoScore
    UplinkPage = 2
    MaxSearches = 4
    MaxCandidates = 5
    Batch = 1
    MaxOutages = 1
    Job = {c1, c2}
    Jobs <- JobSet
    Registries <- RegistrySet
    NoAudience = NoAudience
    MaxKeyErrors = 1
    MaxRowErrors = 1
SPECIFICATION ServicesSpec
INVARIANTS
    TokensAreKept
    
    CodeSpentOnce
    FailuresAreCounted
    BearerIsCurrent
    OfflineIsEarned
    HandedIsSpent
    FallbackIsPublish
    
    ShownIsAllowed
    TarballIsWhole
    PageIsWhole
    TrustIsEarned
PROPERTIES
    ListIsKept
    KeepsRows
    AccountsAreKept
    AccessIsEarned
    EveryoneIsAnswered
CHECK_DEADLOCK FALSE
