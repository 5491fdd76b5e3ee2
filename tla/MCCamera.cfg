CONSTANTS
    FRAME_SIZE = 12
    LINE_SIZE = 4
    EXTRA_PIXELS = 8
    PAUSE = 2
    ADDRESS_RANGE = 16
    AddressBits = {0, 1, 2, 3}
    CLOCK_RATIO = 2
    MAX_VSYNC_CNT = 3
    Pixel = {0, 1, 2, 3}
    BlackPixel = 0
    GarbledPixel = 3
    Bright = {1, 2}
    Scenes <- MCScenes
    object_thres = 1
    static_thres = 1
    SuspicionThresholds = {2}
    DefaultSuspicionThres = 2
    SUSPICION_RANGE = 4
    LUT_SIZE = 4
    READS = 2
    WriteAckAt <- MCWriteAckAt
    WriteEndAt = 6
    ReadAckAt <- MCReadAckAt
    ReadEndAt = 7
    MAX_REFUSALS = 2

SPECIFICATION Spec

INVARIANTS
    CameraTypeOK
    FrameIsStored
    DoneMeansAcknowledged

PROPERTIES
    TransferReadsOneFrame
    CameraComesUp
