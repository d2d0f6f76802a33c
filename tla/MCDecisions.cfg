CONSTANTS
    Absent = Absent
    Confused = Confused
    Unbounded = Unbounded
    NotANumber = NotANumber
    Unset = Unset
    NotFinite = NotFinite
    Misshapen = Misshapen
    NotACount = NotACount
    Unknown = Unknown
    NoLimit = NoLimit
    MaxBytes = 3
    MaxMembers = 2
    Jobs <- MCJobs
    Hosts <- MCHosts
    Contents <- MCContents
    Tasks <- MCTasks
    Views <- MCViews
    Signals <- MCSignals
    Archives <- MCArchives
    Requests <- MCRequests
    Contributions <- MCContributions
    MaxContributions = 4

SPECIFICATION DecisionSpec

INVARIANTS
    JobRunsAsAsked
    PlacedIsRun
    WaiverBuysOnlyTheSandbox
    SystemicEvidenceStopsRetries
    ArchiveIsAllOrNothing
    RelaxingKeepsPlan
    HonestMajorityBounds

CHECK_DEADLOCK FALSE
