SPECIFICATION Spec
CONSTANTS
    Instances = {i1}
INVARIANTS
    NoHalfSchemaAtRest
