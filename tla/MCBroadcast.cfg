SPECIFICATION BroadcastLiveSpec
CONSTANTS
    Client = {c1, c2}
    Watched = {c1}
    FRAME_SIZE = 3
    CHUNKS = 3
    WHOLE_CHUNKS = 2
    SND_BUF = 3
    CLIENT_CHUNKS = 2
    PBUFS = 1
    NULL = NULL
INVARIANTS
    BroadcastTypeOK
    ClientPictureIsWhole
    HeldCopyIsOneFrame
PROPERTIES
    TimersRun
