------------------------- MODULE DetectorConstants -------------------------
(***************************************************************************)
(* Parameters shared by the modules of the object detection.  The design    *)
(* fixes FRAME_SIZE = 76800 and SUSPICION_RANGE = 512 (a 9-bit register);   *)
(* the thresholds are registers the software writes.                        *)
(***************************************************************************)
EXTENDS Naturals

CONSTANTS
    FRAME_SIZE,        \* pixels in a frame
    MAX_VSYNC_CNT,     \* max_vsync_cnt: the decimation rate, shifted left by 2
    Pixel,             \* values a pixel of the camera can take
    BlackPixel,        \* the value 16'b0
    Bright,            \* pixels the black and white threshold turns into a 1
    Scenes,            \* frames the camera can deliver
    object_thres,      \* differing pixels that make an object
    static_thres,      \* differing pixels that make it a still object
    SuspicionThresholds, \* values the software gives suspicion_thres
    DefaultSuspicionThres, \* value a reset gives it (40)
    SUSPICION_RANGE    \* the suspicion level counts modulo this

Address == 0 .. FRAME_SIZE - 1

\* Of the frame sizes, those the counting is meaningful for: the latency of
\* the pipeline leaves the last five addresses of a frame unscored.
ASSUME FrameSizeAssumption == FRAME_SIZE \in Nat /\ FRAME_SIZE >= 7

ASSUME PixelAssumption == BlackPixel \in Pixel /\ Bright \subseteq Pixel

ASSUME ScenesAssumption == Scenes # {} /\ Scenes \subseteq [Address -> Pixel]

ASSUME ThresholdAssumption ==
    /\ MAX_VSYNC_CNT \in Nat
    /\ object_thres \in Nat
    /\ static_thres \in Nat
    /\ SuspicionThresholds \subseteq Nat
    /\ DefaultSuspicionThres \in SuspicionThresholds
    /\ SUSPICION_RANGE \in Nat \ {0}

=============================================================================
