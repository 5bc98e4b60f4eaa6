SPECIFICATION MCSpec
CONSTANTS
    None = None
    Parts = {"usn", "security", "journal", "service", "scope", "sids", "broker", "object", "crl", "wire", "stream"}
    Objects = {o1}
    DomainSIDs = {o1, s9}
    MaxSIDs = 1
    MaxRead = 1
    MaxChanges = 2
    MaxTrims = 1
    MaxUsnFaults = 1
    MaxSpan = 2
    MaxEvents = 5
    MaxOverwrites = 2
    MaxSecFaults = 1
    Races = {}
    MaxOps = 3
    MaxClock = 2
    MaxSetBacks = 1
    MaxOpFaults = 2
    TornAppends = FALSE
    GovernedRoots <- OneRoot
    Cycles = {c1, c2}
    r1 = r1
    r2 = r2
    MaxAppendFaults = 0
    BatchSize = 3
    MaxParents = 1
    AccountSIDs = {1, 2}
    ForeignSIDs = {f1}
    SidLanes = {u1}
    DirectoryBatch = 1
    SidLimit = 2
    MaxSidFaults = 1
    BrLanes = {"lane1", "lane2"}
    ConnectAttempts = 2
    MaxMoves = 1
    MaxBrFaults = 1
    MaxKills = 0
    CollectorStops = TRUE
    MaxObChanges = 2
    MaxObFaults = 1
    CoarseClock = FALSE
    MaxBatch = 4
    RecoveryThreshold = 2
    RecoveryMaxMembers = 2
    MaxBtFaults = 2
    MaxReconfigs = 1
    SuccessInterval = 3
    RetryInterval = 1
    ExpiryLead = 2
    CrlPeriod = 4
    CrlLifetime = 6
    MaxHour = 14
    MaxCrFaults = 2
    AlterAt = {"source", "custody"}
    MaxAlterations = 2
    MaxGwBreaks = 1
    Directories <- FrozenDirectories
    ChunkBytes = 2
    MaxNameBytes = 2
    MaxReceiveArtifacts = 4
    MaxManifestBytes = 6
INVARIANTS
    ServicesTypeOK
    UsnHistoryKept
    
    
    OneOwnerPerRoot
    CompleteCoversAll
    BrokerIsHonest
    ObservationIsHonest
    CrlNeverOlderNorStale
    ReceiptsAreHonest
    StreamRecordsWholeBatches
PROPERTIES
    NothingTakenBack
CHECK_DEADLOCK FALSE
