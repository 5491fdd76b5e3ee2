SPECIFICATION LiveSpec
CONSTANTS
    dark = dark
    light = light
    FRAME_SIZE = 7
    MAX_VSYNC_CNT = 1
    Pixel = {dark, light}
    BlackPixel = dark
    Bright = {light}
    object_thres = 1
    static_thres = 0
    SuspicionThresholds = {2}
    SUSPICION_RANGE = 4
    DefaultSuspicionThres = 2
    Scenes <- MCFewScenes
PROPERTIES
    StationaryObjectRaisesAlarm
    AlarmEndsWithoutObject
