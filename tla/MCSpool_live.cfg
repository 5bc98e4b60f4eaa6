SPECIFICATION FairSpec
CONSTANTS
    Writers = {w1}
    Batches = {b1, b2}
    Gens = {g1, g2}
    w1 = w1
    b1 = b1
    b2 = b2
    g1 = g1
    g2 = g2
    None = None
    Modes = {"service"}
    Faults = {"collectorCrash"}
PROPERTY LeftoversPublished
PROPERTY PublishedIsSealed
