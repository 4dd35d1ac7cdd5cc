SPECIFICATION Spec
CONSTANTS
    Byte <- MCByte
    Size = 4
INVARIANTS
    DrainedIsWhole
PROPERTIES
    ImplementsQueue
