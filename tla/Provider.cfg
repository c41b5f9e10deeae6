SPECIFICATION Spec
CONSTANTS
    p1 = p1
    p2 = p2
    i1 = i1
    i2 = i2
    Instances = {i1, i2}
    Issuers <- Providers
    Published <- BothAdvertise
    Rotations <- OneRotates
    Kid <- Names
    Skipped <- OtherAlg
    Absent = Absent
SYMMETRY Symmetry
INVARIANTS
    TypeOK
    EndpointsAreTheProviders
    RefusalIsFinal
    ThreeFetchesSuffice
PROPERTY
    CachingChangesNoVerdict
