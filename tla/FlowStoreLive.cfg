SPECIFICATION FairSpec
CONSTANTS
    Instances = {i1, i2}
    Handles = {h1}
    Strays = {}
    NoHandle = NoHandle
    FlowTTL = 1
    SpentKeep = 1
    MaxTime = 3
PROPERTIES
    DeadRowsAreSwept
