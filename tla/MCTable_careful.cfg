CONSTANTS
    Tables = {A}
    Kinds = {"map", "multimap"}
    Rows = {r1, r2}
    Slots = {1, 2}
    Keys = {1, 2}
    Columns = {1, 2}
    UniqueColumns = {2}
    Required = {1}
    Values = {1, 2}
    NoKeyValue = NoKeyValue
    NoField = NoField
    MaxEntries = 2
    Careful = TRUE
SYMMETRY Symmetry
SPECIFICATION Spec
INVARIANTS
    IndexesHoldRows
    IndexesSorted
    FieldsInOrder
    NeverCorrupted
PROPERTY AcceptedRowsAreIndexed
