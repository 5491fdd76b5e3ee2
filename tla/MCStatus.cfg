SPECIFICATION StatusLiveSpec
CONSTANTS
    Socket = {s1, s2}
    NULL = NULL
    Interrupts = TRUE
INVARIANTS
    StatusTypeOK
    SocketInOneHand
    NoSocketLost
    AnswerIsAboutNow
PROPERTIES
    ClientIsLetGo
    ClientIsAccepted
