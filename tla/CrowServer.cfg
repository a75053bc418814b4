SPECIFICATION Spec
CONSTANTS
    Conn = {c1, c2}
    Contents <- SomeContents
    Timeout = 1
    Garbage = {0}
    MaxAllocs = 2
    MaxReads = 2
INVARIANTS
    TimersHaveOwners
    OutlivesHandlers
    DeadlineKept
    EveryRequestRouted
PROPERTIES
    EventuallyReleased
CHECK_DEADLOCK FALSE
