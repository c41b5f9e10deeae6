SPECIFICATION Spec
CONSTANTS
    Instances = {i1, i2, i3}
INVARIANTS
    TypeOK
    OnlyACutHalvesTheSchema
    TablesInOrder
PROPERTIES
    RedirectedCanBeClaimed
