SPECIFICATION Spec
CONSTANTS
    NameLines <- MCNameLines
    TextLines <- MCTextLines
    MaxName = 3
    MAX_MSG_SIZE = 2
    MaxSent = 2
INVARIANTS
    KeptUntilShown
    ShownAsTyped
PROPERTIES
    ImplementsStore
