SPECIFICATION FairSpec
CONSTANTS
    Gens = {1, 2}
    Contents = {"good", "bad"}
    ReadyBatchSize = 1
    RetryBatchSize = 1
    CleanTarget = 2
    Faults = {"dbLoss", "crash"}
    MaxFaults = 1
    Manual = FALSE
    None = None
PROPERTIES
    RecordedIsIngested
