--------------------------- MODULE ObjDetControl ---------------------------
(***************************************************************************)
(* obj_det_control.v: the state machine that sequences the object           *)
(* detection, and pulse_detector.v, which holds init_done once the          *)
(* reference frame is captured.  `addr' and `wren' are capture_addr and     *)
(* capture_wren; `cfg' is i2c_config_done and `start' is start_capture.     *)
(***************************************************************************)
EXTENDS DetectorConstants

VARIABLES curr_state, init_done

controlVars == <<curr_state, init_done>>

ControlStates == {"RESET", "WAIT_START", "SYNC_CAPTURE", "CAPTURE_REF",
                  "START_FRAME", "PROC_FRAME"}

ControlInit == curr_state = "RESET" /\ init_done = FALSE

-----------------------------------------------------------------------------
\* The combinational outputs.

BeforeLastPixel(addr) == addr < FRAME_SIZE - 1

Capturing(addr) == curr_state = "CAPTURE_REF" /\ BeforeLastPixel(addr)

Processing(addr) == curr_state = "PROC_FRAME" /\ BeforeLastPixel(addr)

WritesRefAlways(addr) == Capturing(addr) \/ Processing(addr)  \* faulty
WritesRef(addr) == Capturing(addr)

WritesDiff(addr) == Capturing(addr) \/ Processing(addr)

\* Both memories are enabled unless the machine says otherwise, at address 0.
ControlOutputs(cfg, start, addr, wren) ==
    LET asleep == curr_state = "WAIT_START" /\ ~start
    IN  [resetn      |-> ~(curr_state = "RESET" /\ ~cfg) /\ curr_state # "WAIT_START",
         frame_start |-> curr_state = "START_FRAME",
         ref_wren    |-> WritesRef(addr) /\ wren,
         ref_enable  |-> IF WritesRef(addr) THEN wren ELSE ~asleep,
         ref_addr    |-> IF Capturing(addr) \/ Processing(addr) THEN addr ELSE 0,
         diff_wren   |-> WritesDiff(addr) /\ wren,
         diff_enable |-> IF WritesDiff(addr) THEN wren ELSE ~asleep,
         diff_addr   |-> IF WritesDiff(addr) THEN addr ELSE 0]

-----------------------------------------------------------------------------
\* The transitions, one action per way out of a state.

CameraConfigured(cfg) ==
    /\ curr_state = "RESET" /\ cfg
    /\ curr_state' = "WAIT_START"
    /\ UNCHANGED init_done

StartRequested(start) ==
    /\ curr_state = "WAIT_START" /\ start
    /\ curr_state' = "SYNC_CAPTURE"
    /\ UNCHANGED init_done

AtAddressZero(addr, wren) == addr = 0  \* faulty: does not wait for a transfer
AtFrameStart(addr, wren) == addr = 0 /\ wren

FrameBegins(addr, wren) ==
    /\ curr_state = "SYNC_CAPTURE" /\ AtFrameStart(addr, wren)
    /\ curr_state' = IF init_done THEN "START_FRAME" ELSE "CAPTURE_REF"
    /\ UNCHANGED init_done

\* init_done_i pulses and the pulse detector latches it.
ReferenceCaptured(addr) ==
    /\ curr_state = "CAPTURE_REF" /\ ~BeforeLastPixel(addr)
    /\ curr_state' = "SYNC_CAPTURE"
    /\ init_done' = TRUE

FrameStarted ==
    /\ curr_state = "START_FRAME"
    /\ curr_state' = "PROC_FRAME"
    /\ UNCHANGED init_done

FrameProcessed(addr) ==
    /\ curr_state = "PROC_FRAME" /\ ~BeforeLastPixel(addr)
    /\ curr_state' = "SYNC_CAPTURE"
    /\ UNCHANGED init_done

HoldState(cfg, start, addr, wren) ==
    /\ \/ curr_state = "RESET" /\ ~cfg
       \/ curr_state = "WAIT_START" /\ ~start
       \/ curr_state = "SYNC_CAPTURE" /\ ~AtFrameStart(addr, wren)
       \/ Capturing(addr)
       \/ Processing(addr)
    /\ UNCHANGED controlVars

ControlStep(cfg, start, addr, wren) ==
    \/ CameraConfigured(cfg)
    \/ StartRequested(start)
    \/ FrameBegins(addr, wren)
    \/ ReferenceCaptured(addr)
    \/ FrameStarted
    \/ FrameProcessed(addr)
    \/ HoldState(cfg, start, addr, wren)

ControlReset == curr_state' = "RESET" /\ init_done' = FALSE

ControlTypeOK == curr_state \in ControlStates /\ init_done \in BOOLEAN

=============================================================================
