SPECIFICATION TcpSpec
CONSTANTS
    Pcb = {p1, p2}
    ListenPcb = {l1}
    NULL = NULL
    ServerPorts = {101}
    LocalPorts = {101}
    Prios = {1, 64}
    TCP_PRIO_NORMAL = 64
    FIN_WAIT_TICKS = 0
    SYN_RCVD_TICKS = 0
    MSL2_TICKS = 0
    TCP_MAXRTX = 1
    TCP_SYNMAXRTX = 1
    TIMER_CTR = 2
    MAX_AGE = 1
    DataPcb = {}
    PeersMayDie = FALSE
    Liberties = {}
INVARIANTS
    TcpTypeOK
    ListsAgree
    LostOnlyByListen
    VictimIsUnbeaten
    PortsReserved
    SlowTimerKnowsPlace
SYMMETRY BlocksAreAlike
