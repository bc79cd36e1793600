CONSTANTS
    Tables = {A}
    Kinds = {"map", "multimap"}
    Rows = {r1}
    Slots = {1, 2, 3}
    Keys = {1, 2, 3}
    Columns = {1, 2}
    UniqueColumns = {}
    Required = {1}
    Values = {1, 2}
    NoKeyValue = NoKeyValue
    NoField = NoField
    MaxEntries = 2
    Careful = FALSE
SYMMETRY Symmetry
SPECIFICATION Spec
INVARIANTS
    TypeOK
    BackPointersValid
CHECK_DEADLOCK FALSE
