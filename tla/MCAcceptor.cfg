SPECIFICATION Spec
CONSTANTS
    c1 = c1
    c2 = c2
    Conns = {c1, c2}
    m_listen_fd = m_listen_fd
    MAX_EVENTS = 2
    MaxMsgs <- MCMaxMsgs
    Messages <- MCMessages
INVARIANTS
    NoEventBlocks
    LoggedAsSent
    LastRequestDecides
PROPERTY
    InputIsRead
CHECK_DEADLOCK FALSE
