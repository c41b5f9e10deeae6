SPECIFICATION Spec
CONSTANTS
    Instances = {i1, i2}
    Handles = {h1, h2}
    Strays = {s1}
    NoHandle = NoHandle
    FlowTTL = 2
    SpentKeep = 2
    MaxTime = 4
SYMMETRY Symmetry
INVARIANTS
    TypeOK
    Inductive
    SingleUse
    SpentOutlivesFlow
    UnreadFlowIsKept
    ClaimantFindsFlow
PROPERTIES
    ImplementsLifecycle
