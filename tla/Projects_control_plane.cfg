\* The configuration with one job, and two jobs of one project that may share
\* an upload; one kill.
SPECIFICATION Spec
CONSTANTS
    None = None
    Capabilities = {asr}
    MaxProfiles = 2
    MaxSecrets = 1
    MaxCookies = 2
    MaxChanges = 3
    MaxKills = 1
    ProjectIds = {p1}
    MaxJobs = 2
INVARIANTS
    TypeOK
    OneDefaultEach
    ActiveJobsAreRunnable
    UploadsOutliveTheirJobs
    FinishedProjectIsShown
CONSTRAINT
    Apart
CHECK_DEADLOCK FALSE
