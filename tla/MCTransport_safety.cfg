SPECIFICATION Spec
CONSTANTS
    Gens = {1, 2, 3}
    Oversize = {3}
    Faults = {"senderCrash", "sourcePowerLoss", "senderIO", "receiverCrash",
              "receiverPowerLoss", "receiverIO", "loss", "timeout", "revoke"}
    MaxFaults = 3
    None = None
INVARIANTS
    TypeOK
    NothingLost
    OnePlace
    RecordedInOrder
PROPERTIES
    NeverResealed
    DeliversGenerations
