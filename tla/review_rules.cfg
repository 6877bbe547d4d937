SPECIFICATION Spec
CONSTANTS
    Person = {1, 2, 3}
    outsider = outsider
    robot = robot
    code = code
    huge = huge
    page = page
    version = version
    Robot = {robot}
    SingleApproverAuthor = {robot}
    OrgMember = {}
    File = {code, huge, page, version}
    DocsFile = {page}
    SourceFile = {code, huge, version}
    ReleasePRFile = {version}
    GeneratedFile = {}
    SingleApproverFile = {}
    Delta <- DeltaOfFile
    Under <- UnderOfFile
    Configs <- AllConfigs
    Envs <- AllEnvs
    FileSets <- AllFileSets
    MaxReviews = 2
INVARIANTS
    VerdictAsDocumented
    AssignmentSuffices
PROPERTIES
    ReviewsMeanWhatTheySay
CHECK_DEADLOCK FALSE
