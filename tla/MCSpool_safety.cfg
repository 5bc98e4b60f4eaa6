SPECIFICATION Spec
CONSTANTS
    Writers = {w1, w2}
    Batches = {b1, b2, b3}
    Gens = {g1, g2}
    w1 = w1
    w2 = w2
    b1 = b1
    b2 = b2
    b3 = b3
    g1 = g1
    g2 = g2
    None = None
    Modes = {"service"}
    Faults = {"collectorCrash", "senderCrash", "collectorIO", "senderIO"}
SYMMETRY Symmetry
INVARIANT TypeOK
INVARIANT FinalizedNeverLost
INVARIANT GenerationsHoldWholePairs
INVARIANT InterruptedPublicationCompletable
PROPERTY PreparedNeverQuarantined
