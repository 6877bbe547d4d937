SPECIFICATION FairSpec
CONSTANTS
    Robot = {}
    SingleApproverAuthor = {}
    OrgMember = {}
    File = {"code", "huge"}
    DocsFile = {}
    SourceFile = {"code", "huge"}
    ReleasePRFile = {}
    GeneratedFile = {}
    SingleApproverFile = {}
    Delta <- DeltaOfFile
    Under <- UnderOfFile
    Person = {"ann", "bob", "cyd", "dan"}
    Pull = {"inner", "fork"}
    Env <- TheEnv
    Branch <- OwnBranch
    Fork = {"fork"}
    Config <- TheConfig
    FileSets = {{"code"}, {"huge"}}
    OpenSets = {{"inner"}, {"fork"}}
    Opened <- FromStart
    States = {"APPROVED", "CHANGES_REQUESTED"}
    MaxReviews = 2
    MaxRuns = 3
    MaxDismisses = 1
    MaxFaults = 1
INVARIANTS
    LatestVerdictHolds
    LatestRunKept
    StaleVerdictsGo
PROPERTIES
    RequestsOutliveDoubt
    VerdictSettles
CHECK_DEADLOCK FALSE
