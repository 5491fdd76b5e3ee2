SPECIFICATION TcpLiveSpec
CONSTANTS
    Pcb = {p1}
    ListenPcb = {l1}
    NULL = NULL
    ServerPorts = {7}
    LocalPorts = {101}
    Prios = {64}
    TCP_PRIO_NORMAL = 64
    FIN_WAIT_TICKS = 1
    SYN_RCVD_TICKS = 1
    MSL2_TICKS = 1
    TCP_MAXRTX = 2
    TCP_SYNMAXRTX = 1
    TIMER_CTR = 2
    MAX_AGE = 2
    DataPcb = {p1}
    PeersMayDie = TRUE
    Liberties = {"callbacks", "late_connect"}
INVARIANTS
    HandlesAreLive
PROPERTIES
    SilentPeersAreFreed
    RefusedIsOffered
