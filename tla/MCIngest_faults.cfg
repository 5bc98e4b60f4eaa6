SPECIFICATION Spec
CONSTANTS
    Gens = {1, 2}
    Contents = {"good", "bad", "miscounted", "damaged", "missing"}
    ReadyBatchSize = 1
    RetryBatchSize = 1
    CleanTarget = 2
    Faults = {"dbLoss", "dbError", "crash", "readyIO"}
    MaxFaults = 2
    Manual = FALSE
    None = None
INVARIANTS
    TypeOK
    NothingForgotten
PROPERTIES
    RetryAfterRespected
