SPECIFICATION FairSpec
CONSTANTS
    Gens = {1, 2}
    Oversize = {}
    Faults = {"senderCrash", "sourcePowerLoss", "senderIO", "receiverCrash",
              "receiverPowerLoss", "loss", "timeout"}
    MaxFaults = 2
    None = None
INVARIANTS
    ReleasedWasReady
PROPERTIES
    FrozenIsDelivered
