SPECIFICATION MCSpec
CHECK_DEADLOCK FALSE
CONSTANTS
    \* TTLEventCache: entries expire alone and together, are added again in another
    \* order, and are added again by the very call that evicts them.
    Id = {a, b, c}
    TTLConfig = 0
    DefaultTTL = 2
    MaxTime = 6
    \* ServiceLifecycle
    Request = {1}
    MaxReviews = 1
    \* Backport
    Label = {"backport/v1", "backport/v2", "backport/master", "docs"}
    BaseOf <- MCBaseOf
    Bases <- MCBases
    Pulls <- MCPulls
    CommitsPage = 3
    MaxAttempts = 2
    \* Paging
    Entry = {1, 2, 3, 4}
    PageSize = 2
    \* Migrations
    Change = {1, 2, 3}
    Directories <- MCDirectories
    FilesOf <- MCFilesOf
    AtFirst <- MCAtFirst
    \* DocsRedirects
    File <- MCFile
    EndsIn <- MCEndsIn
    Edits = {0, 1, 2}
    Redirect <- MCRedirect
    \* BloatCheck
    Person = {"ann", "bob", "eve"}
    Admin = {"ann", "bob"}
    Author = "bob"
    Artifact = {"x", "y"}
    Builds <- MCBuilds
    MB = 4
    ErrorThreshold = 1
    MaxMoment = 1
    MaxPosts = 1
    \* S3Files
    Caller = {1, 2}
    Key = {1, 2}
    MaxCalls = 3
    \* PackagePublishing
    Manager = {1, 2}
    Component = {1, 2}
    Item = {1, 2}
    Matchers <- MCMatchers
    Limits = {0, 1}
    \* AppToken
    Sender = {1, 2}
    Buffer = 2
    Life = 3
    Skews <- MCSkews
    MaxClock = 5
    \* LostLogs
    Workflows <- MCWorkflows
    IncludeSelfHosted = {TRUE, FALSE}
    \* AmplifyPreview
    Apps <- MCApps
    FirstPage = 2
    MaxRetries = 2
    MaxJobs = 2
    MaxTalk = 2
    \* EnvValues
    Items <- MCItems
    Config <- MCConfig
    Token <- MCToken
    StoreKeys <- MCStoreKeys
INVARIANTS
    TypeOK
    MapListAgree
    ListSorted
    SuccessOnlyOnSignal
    CommentsTellTheTruth
    ListedInFull
    RedirectsSuffice
    BloatNeedsAnAdmin
    ReferencesCounted
    NoRemovalInUse
    SuccessMeansPublished
    FilesOutliveTasks
    ArrivesInTime
    SearchIsThorough
    PreviewIsUnique
    ValuesOfTheEnvironment
PROPERTIES
    WindowKept
    ImplementsContract
    StopsUnlessHeld
    AddedInOrder
    PublishingEnds
