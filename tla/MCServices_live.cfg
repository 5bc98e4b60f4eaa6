SPECIFICATION MCFairSpec
CONSTANTS
    None = None
    Parts = {"usn", "security", "journal", "service", "broker", "batches", "wire"}
    Objects = {o1}
    DomainSIDs = {o1}
    MaxSIDs = 1
    MaxRead = 1
    MaxChanges = 1
    MaxTrims = 1
    MaxUsnFaults = 1
    MaxSpan = 2
    MaxEvents = 4
    MaxOverwrites = 1
    MaxSecFaults = 1
    Races = {}
    MaxOps = 2
    MaxClock = 2
    MaxSetBacks = 1
    MaxOpFaults = 1
    TornAppends = FALSE
    GovernedRoots <- TwoRoots
    Cycles = {c1}
    r1 = r1
    r2 = r2
    MaxAppendFaults = 1
    BatchSize = 3
    MaxParents = 1
    AccountSIDs = {1, 2}
    ForeignSIDs = {f1}
    SidLanes = {u1}
    DirectoryBatch = 1
    SidLimit = 2
    MaxSidFaults = 1
    BrLanes = {"lane1", "lane2"}
    ConnectAttempts = 2
    MaxMoves = 0
    MaxBrFaults = 0
    MaxKills = 1
    CollectorStops = FALSE
    MaxObChanges = 2
    MaxObFaults = 1
    CoarseClock = FALSE
    MaxBatch = 4
    RecoveryThreshold = 2
    RecoveryMaxMembers = 2
    MaxBtFaults = 2
    MaxReconfigs = 1
    SuccessInterval = 3
    RetryInterval = 1
    ExpiryLead = 2
    CrlPeriod = 4
    CrlLifetime = 6
    MaxHour = 14
    MaxCrFaults = 2
    AlterAt = {"source", "custody"}
    MaxAlterations = 1
    MaxGwBreaks = 2
    Directories <- FrozenDirectories
    ChunkBytes = 2
    MaxNameBytes = 2
    MaxReceiveArtifacts = 4
    MaxManifestBytes = 6
INVARIANTS
    BatchesSafe

    
    
CHECK_DEADLOCK FALSE
