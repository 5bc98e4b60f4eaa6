SPECIFICATION Spec
CONSTANTS
    Gens = {1, 2}
    Contents = {"good", "missing"}
    ReadyBatchSize = 1
    RetryBatchSize = 1
    CleanTarget = 2
    Faults = {}
    MaxFaults = 0
    Manual = FALSE
    None = None
PROPERTIES
    NonAvailabilityFailsClosed
