SPECIFICATION Spec
CONSTANTS
    Clients <- SomeClients
    MaxHeaderSize = 64
    Width = 7
    MaxDepth = 4
    LongBits = 7
    IntBits = 4
INVARIANTS
    NoAssertionFails
    CutsDoNotMatter
    LengthExact
    RequestsAsMeant
    ServedAsMeant
CHECK_DEADLOCK FALSE
