SPECIFICATION Spec
CONSTANTS
    Types <- AllTypes
    Slot = {a, b}
    Ints <- IntValues
    Texts <- TextLengths
    Mangled = {3}
    ForeignTags = {90, 92}
    MaxCalls = 3
INVARIANTS
    RoundTrip
    SizeExact
    ConcatIsMerge
    WholeObject
CHECK_DEADLOCK FALSE
