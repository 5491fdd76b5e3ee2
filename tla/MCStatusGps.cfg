SPECIFICATION StatusLiveSpec
CONSTANTS
    Socket = {s1, s2}
    NULL = NULL
    Interrupts = FALSE
PROPERTY AlarmIsReported
