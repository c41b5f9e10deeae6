SPECIFICATION Spec
CONSTANTS
    p1 = p1
    p2 = p2
    i1 = i1
    i2 = i2
    Instances = {i1}
    Issuers <- Providers
    Published <- OneOmits
    Rotations <- NoneRotates
    Kid <- FirstNames
    Skipped = {}
    Absent = Absent
INVARIANTS
    RefusedOnlyWhenAdvertised
