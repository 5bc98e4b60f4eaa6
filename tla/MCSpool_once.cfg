SPECIFICATION Spec
CONSTANTS
    Writers = {w1, w2}
    Batches = {b1, b2}
    Gens = {g1, g2}
    w1 = w1
    w2 = w2
    b1 = b1
    b2 = b2
    g1 = g1
    g2 = g2
    None = None
    Modes = {"service", "oneshot"}
    Faults = {"collectorCrash", "senderCrash", "collectorIO"}
SYMMETRY Symmetry
INVARIANT SealedOnce
