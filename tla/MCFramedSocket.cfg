SPECIFICATION Spec
CONSTANTS
    Packages = 2
    MaxPayload = 3
    HeaderSize = 2
    MAXIMUM_PACKAGE_BUFFER_SIZE = 2
    SocketBuffer = 3
INVARIANTS
    TypeOK
    PartsNotMixed
    CutQueryNotTaken
PROPERTIES
    ImplementsPipe
    EndsUnlessCut
