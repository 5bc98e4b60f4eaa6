SPECIFICATION Spec
CONSTANTS
    Gens = {1, 2}
    Contents = {"good", "bad", "damaged"}
    ReadyBatchSize = 1
    RetryBatchSize = 1
    CleanTarget = 2
    Faults = {}
    MaxFaults = 0
    Manual = TRUE
    None = None
INVARIANTS
    NothingForgotten
