SPECIFICATION MCFairSpec
CONSTANTS
    None = None
    Roles = {"CollectorSender", "CRLRefresher"}
    PlanServices = {"FICRLRefresher", "FISender"}
    Deviations = 1
    MaxUnread = 1
    MaxRefusals = 1
    Identities <- TwoIdentities
    MaxA1Faults = 2
    MaxForeign = 1
    MaxCerts = 4
    RacingEnroller = FALSE
    TransientTrust = FALSE
    LocalAccounts <- TwoIdentities
    MaxA2Faults = 2
    MaxDrift = 1
    KillTorn = FALSE
    FIServices = {"FICollector", "FISender"}
    MaxIsFaults = 3
    KillAt = {"Package", "Stop", "Replace", "Move", "Restart", "Scm", "Activate", "Runtime",
              "Post", "Commit", "CommitFiles", "UndoRuntime", "UndoScm", "UndoStop", "UndoFiles",
              "Restore", "Restoring"}
INVARIANTS
    InstallerTypeOK
    RunsLeaveWhatTheyReport

    
    
