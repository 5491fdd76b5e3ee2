--------------------------- MODULE DetectorProofs ---------------------------
(***************************************************************************)
(* Safety of the object detection for every frame size, camera and          *)
(* threshold.  The inductive invariant is built in layers: the types, the   *)
(* shape of a transfer, the lockstep of the state machine with it, what the *)
(* two registers between camera and detection hold, and what has been       *)
(* written of the reference.                                                *)
(***************************************************************************)
EXTENDS SuspiciousObjectDetector, TLAPS

\* What the read port and the pixel register hold in clock cnt of a transfer.
ReadAhead ==
    /\ cnt >= 1 /\ cnt <= FRAME_SIZE => tdata = frame[cnt - 1]
    /\ cnt >= 2 => buffered_capture_pixel = frame[cnt - 2]

\* While the reference is captured, the addresses passed have been written.
ReferenceSoFar ==
    curr_state = "CAPTURE_REF" =>
        \A a \in 1 .. FRAME_SIZE - 2 :
            a <= cnt - 3 => ref_mem[a] = (frame[a] \in Bright)

IInv == TypeOK /\ Lockstep /\ ReadAhead /\ ReferenceSoFar

-----------------------------------------------------------------------------
\* A clock, whatever it samples, is a tick.
LEMMA ClockIsTick ==
    ASSUME Clock
    PROVE  \E cfg, start, vsync, last \in BOOLEAN : Tick(cfg, start, vsync, last)
BY DEF Clock, Sampled

\* The address shown is that of a cell, and of the cell two behind cnt.
LEMMA ShownAddress ==
    ASSUME DownsamplerTypeOK, TransferShape
    PROVE  /\ obj_det_addr \in Address
           /\ obj_det_addr = IF cnt >= 2 THEN cnt - 2 ELSE 0
           /\ obj_det_wren = transfer
BY FrameSizeAssumption
   DEF DownsamplerTypeOK, TransferShape, obj_det_addr, obj_det_wren, Address

-----------------------------------------------------------------------------
\* The downsampler on its own.
LEMMA DownsamplerTypeStep ==
    ASSUME DownsamplerTypeOK, TransferShape,
           NEW vsync \in BOOLEAN, NEW last \in BOOLEAN,
           DownsamplerStep(vsync, last)
    PROVE  DownsamplerTypeOK' /\ TransferShape'
<1> USE FrameSizeAssumption, ThresholdAssumption, ScenesAssumption, PixelAssumption
<1> USE DEF DownsamplerTypeOK, TransferShape
<1>1. tdata' \in Pixel
  BY DEF DownsamplerStep, ReadFrameBuffer
<1>2. CountVsync(vsync) => vsync_cnt' \in 0 .. MAX_VSYNC_CNT
  BY DEF CountVsync
<1>3. CASE BeginTransfer(vsync, last)
  BY <1>1, <1>2, <1>3 DEF BeginTransfer, ReadyToTransfer
<1>4. CASE ShiftPixel(vsync, last)
  <2>1. /\ cnt <= FRAME_SIZE /\ transfer /\ transfer' = transfer /\ frame' = frame
        /\ tdata_addr' = tdata_addr + 1 /\ cnt' = cnt + 1
        /\ buffered_capture_pixel' = tdata
    BY <1>4 DEF ShiftPixel, MorePixels
  <2>2. tvalid' = (cnt > 0)
    BY <1>4 DEF ShiftPixel
  <2>3. tvalid' \in BOOLEAN /\ (tvalid' <=> cnt > 0)
    BY <2>2
  <2> QED
    BY <1>1, <1>2, <1>4, <2>1, <2>3 DEF ShiftPixel
<1>5. CASE EndTransfer(vsync, last)
  <2>1. ~tvalid' /\ tvalid' \in BOOLEAN /\ ~transfer' /\ transfer' \in BOOLEAN
    BY <1>5 DEF EndTransfer
  <2> QED
    BY <1>1, <1>5, <2>1 DEF EndTransfer
<1>6. CASE AwaitFrame(vsync, last)
  BY <1>1, <1>2, <1>6 DEF AwaitFrame
<1> QED
  BY <1>3, <1>4, <1>5, <1>6 DEF DownsamplerStep

\* Pixels arrive in the registers in the order of their addresses.
LEMMA ReadAheadStep ==
    ASSUME DownsamplerTypeOK, TransferShape, ReadAhead,
           NEW vsync \in BOOLEAN, NEW last \in BOOLEAN,
           DownsamplerStep(vsync, last)
    PROVE  ReadAhead'
<1> USE FrameSizeAssumption DEF DownsamplerTypeOK, TransferShape, ReadAhead
<1>1. CASE BeginTransfer(vsync, last)
  BY <1>1 DEF BeginTransfer, ReadyToTransfer
<1>2. CASE ShiftPixel(vsync, last)
  <2>1. tdata_addr \in Address => tdata' = frame[tdata_addr]
    BY <1>2 DEF DownsamplerStep, ReadFrameBuffer, obj_det_wren, ShiftPixel, MorePixels
  <2>2. /\ cnt' = cnt + 1 /\ frame' = frame /\ cnt <= FRAME_SIZE
        /\ buffered_capture_pixel' = tdata
    BY <1>2 DEF ShiftPixel, MorePixels
  <2> QED
    BY <2>1, <2>2 DEF Address
<1>3. CASE EndTransfer(vsync, last)
  BY <1>3 DEF EndTransfer
<1>4. CASE AwaitFrame(vsync, last)
  <2>1. cnt = 0 /\ cnt' = 0
    BY <1>4 DEF AwaitFrame, MorePixels
  <2> QED
    BY <2>1
<1> QED
  BY <1>1, <1>2, <1>3, <1>4 DEF DownsamplerStep

-----------------------------------------------------------------------------
\* The state machine, in lockstep with the downsampler's next state.
LEMMA LockstepStep ==
    ASSUME DownsamplerTypeOK, ControlTypeOK, Lockstep,
           NEW cfg \in BOOLEAN, NEW start \in BOOLEAN,
           NEW vsync \in BOOLEAN, NEW last \in BOOLEAN,
           DownsamplerStep(vsync, last),
           ControlStep(cfg, start, obj_det_addr, obj_det_wren)
    PROVE  ControlTypeOK' /\ Lockstep'
<1> USE FrameSizeAssumption DEF ControlTypeOK, ControlStates, BeforeLastPixel
<1> DEFINE addr == obj_det_addr
           wren == obj_det_wren
<1>1. /\ addr = IF cnt >= 2 THEN cnt - 2 ELSE 0
      /\ wren = transfer
      /\ cnt \in 0 .. FRAME_SIZE + 1 /\ transfer \in BOOLEAN
      /\ ~transfer => cnt = 0
  BY ShownAddress DEF Lockstep, TransferShape, DownsamplerTypeOK
<1>2. TransferShape' /\ cnt' \in 0 .. FRAME_SIZE + 1 /\ transfer' \in BOOLEAN
  BY DownsamplerTypeStep DEF Lockstep, DownsamplerTypeOK
\* One clock of the transfer.
<1>3. \/ transfer /\ cnt <= FRAME_SIZE /\ transfer' /\ cnt' = cnt + 1
      \/ transfer /\ cnt = FRAME_SIZE + 1 /\ ~transfer' /\ cnt' = 0
      \/ ~transfer /\ cnt' = 0
  BY <1>1 DEF DownsamplerStep, BeginTransfer, ShiftPixel, EndTransfer, AwaitFrame,
              ReadyToTransfer, MorePixels
<1> HIDE DEF addr, wren
<1> USE <1>1, <1>2, <1>3 DEF Lockstep
<1>4. CASE CameraConfigured(cfg)
  BY <1>4 DEF CameraConfigured
<1>5. CASE StartRequested(start)
  BY <1>5 DEF StartRequested
<1>6. CASE FrameBegins(addr, wren)
  BY <1>6 DEF FrameBegins, AtFrameStart
<1>7. CASE ReferenceCaptured(addr)
  BY <1>7 DEF ReferenceCaptured
<1>8. CASE FrameStarted
  BY <1>8 DEF FrameStarted
<1>9. CASE FrameProcessed(addr)
  BY <1>9 DEF FrameProcessed
<1>10. CASE HoldState(cfg, start, addr, wren)
  BY <1>10 DEF HoldState, Capturing, Processing, AtFrameStart, controlVars
<1> QED
  BY <1>4, <1>5, <1>6, <1>7, <1>8, <1>9, <1>10 DEF ControlStep, addr, wren

-----------------------------------------------------------------------------
\* The datapath keeps its types, whatever the state machine asks of it, as long
\* as it is given addresses of cells.
Commands ==
    [resetn : BOOLEAN, frame_start : BOOLEAN,
     ref_wren : BOOLEAN, ref_enable : BOOLEAN, ref_addr : Address,
     diff_wren : BOOLEAN, diff_enable : BOOLEAN, diff_addr : Address]

\* The outputs of the state machine are a command the datapath understands.
LEMMA OutputsType ==
    ASSUME NEW cfg \in BOOLEAN, NEW start \in BOOLEAN,
           NEW addr \in Address, NEW wren \in BOOLEAN
    PROVE  ControlOutputs(cfg, start, addr, wren) \in Commands
<1>1. 0 \in Address
  BY FrameSizeAssumption DEF Address
<1> QED
  BY <1>1 DEF ControlOutputs, Commands, WritesRef, WritesDiff

\* The datapath keeps its types under every command and every pixel.
LEMMA DatapathTypeStep ==
    ASSUME DatapathTypeOK, NEW c \in Commands, NEW done \in BOOLEAN,
           NEW pixel \in BOOLEAN, DatapathStep(c, done, pixel)
    PROVE  DatapathTypeOK'
<1> USE DEF Commands
<1>1. /\ {pixel_in_d1', curr_pixel', diff_pixel_d1', diff_pixel_d2'} \subseteq BOOLEAN
  BY DEF DatapathTypeOK, DatapathStep, ClearDelays, ShiftDelays, diff_pixel
<1>2. /\ ref_mem' \in [Address -> BOOLEAN]
      /\ ref_latch' \in BOOLEAN /\ ref_pixel' \in BOOLEAN
  BY DEF DatapathTypeOK, DatapathStep, RefFrameBuffer, refVars
<1>3. /\ diff_mem' \in [Address -> BOOLEAN]
      /\ diff_latch' \in BOOLEAN /\ prev_diff_pixel' \in BOOLEAN
  BY DEF DatapathTypeOK, DatapathStep, DiffFrameBuffer, diffVars, diff_pixel
<1>4. diff_cnt' \in Nat /\ match_cnt' \in Nat
  BY DEF DatapathTypeOK, DatapathStep, Counters, ClearCounters, JudgeFrame, CountPixel
<1>5. suspicion' \in 0 .. SUSPICION_RANGE - 1
  <2>1. Raise \in 0 .. SUSPICION_RANGE - 1
    BY ThresholdAssumption DEF Raise, DatapathTypeOK
  <2>2. 0 \in 0 .. SUSPICION_RANGE - 1
    BY ThresholdAssumption
  <2> QED
    BY <2>1, <2>2
    DEF DatapathTypeOK, DatapathStep, Counters, ClearCounters, JudgeFrame, CountPixel
<1>6. suspicion_thres' \in SuspicionThresholds
  BY DEF DatapathTypeOK, DatapathStep
<1> QED
  BY <1>1, <1>2, <1>3, <1>4, <1>5, <1>6 DEF DatapathTypeOK

\* What a tick does to the reference: it is written only while it is captured,
\* at the address shown, with the pixel shown.
LEMMA ReferenceWrite ==
    ASSUME TypeOK, Lockstep,
           NEW cfg \in BOOLEAN, NEW start \in BOOLEAN,
           NEW vsync \in BOOLEAN, NEW last \in BOOLEAN,
           Tick(cfg, start, vsync, last)
    PROVE  /\ curr_state # "CAPTURE_REF" => ref_mem' = ref_mem
           /\ curr_state = "CAPTURE_REF" /\ ref_mem' # ref_mem =>
                /\ BeforeLastPixel(obj_det_addr)
                /\ ref_mem' = [ref_mem EXCEPT ![obj_det_addr] = susp_pixel_in]
           /\ curr_state = "CAPTURE_REF" /\ BeforeLastPixel(obj_det_addr) /\ obj_det_wren =>
                ref_mem' = [ref_mem EXCEPT ![obj_det_addr] = susp_pixel_in]
<1> DEFINE c == ControlOutputs(cfg, start, obj_det_addr, obj_det_wren)
<1>1. RefFrameBuffer(c, susp_pixel_in)
  BY DEF Tick, DatapathStep
<1>2. /\ c.ref_wren = (Capturing(obj_det_addr) /\ obj_det_wren)
      /\ Capturing(obj_det_addr) => c.ref_enable = obj_det_wren /\ c.ref_addr = obj_det_addr
  BY DEF ControlOutputs, WritesRef
<1> HIDE DEF c
<1>3. CASE Capturing(obj_det_addr) /\ obj_det_wren
  <2>1. ref_mem' = [ref_mem EXCEPT ![obj_det_addr] = susp_pixel_in]
    BY <1>1, <1>2, <1>3 DEF RefFrameBuffer
  <2> QED
    BY <1>3, <2>1 DEF Capturing
<1>4. CASE ~(Capturing(obj_det_addr) /\ obj_det_wren)
  <2>1. ~c.ref_wren
    BY <1>2, <1>4
  <2>2. ref_mem' = ref_mem
    BY <1>1, <2>1 DEF RefFrameBuffer, refVars
  <2> QED
    BY <1>4, <2>2 DEF Capturing
<1> QED
  BY <1>3, <1>4

\* A tick extends the part of the reference known to match the frame by the
\* address shown, and starts over when a new frame is captured.
LEMMA ReferenceSoFarStep ==
    ASSUME IInv,
           NEW cfg \in BOOLEAN, NEW start \in BOOLEAN,
           NEW vsync \in BOOLEAN, NEW last \in BOOLEAN,
           Tick(cfg, start, vsync, last)
    PROVE  ReferenceSoFar'
<1> SUFFICES ASSUME curr_state' = "CAPTURE_REF",
                    NEW a \in 1 .. FRAME_SIZE - 2, a <= cnt' - 3
             PROVE  ref_mem'[a] = (frame'[a] \in Bright)
  BY DEF ReferenceSoFar
<1> USE FrameSizeAssumption DEF IInv
<1>1. /\ cnt \in 0 .. FRAME_SIZE + 1 /\ transfer \in BOOLEAN
      /\ ~transfer => cnt = 0
      /\ obj_det_addr = IF cnt >= 2 THEN cnt - 2 ELSE 0
      /\ obj_det_wren = transfer
  BY ShownAddress DEF TypeOK, DownsamplerTypeOK, Lockstep, TransferShape
\* Some address has been passed: the transfer was running, and goes on.
<1>2. transfer /\ cnt <= FRAME_SIZE /\ cnt' = cnt + 1 /\ frame' = frame /\ cnt >= 3
  BY <1>1 DEF Tick, DownsamplerStep, BeginTransfer, ShiftPixel, EndTransfer, AwaitFrame,
              ReadyToTransfer, MorePixels
\* So the machine was capturing already.
<1>3. curr_state = "CAPTURE_REF"
  BY <1>1, <1>2 DEF Tick, ControlStep, CameraConfigured, StartRequested, FrameBegins,
     AtFrameStart, ReferenceCaptured, FrameStarted, FrameProcessed, HoldState, controlVars
<1>4. BeforeLastPixel(obj_det_addr) /\ obj_det_addr = cnt - 2
  BY <1>1, <1>2 DEF BeforeLastPixel
<1>5. ref_mem' = [ref_mem EXCEPT ![cnt - 2] = susp_pixel_in]
  BY <1>1, <1>2, <1>3, <1>4, ReferenceWrite
<1>6. susp_pixel_in = (frame[cnt - 2] \in Bright)
  <2>1. buffered_capture_pixel = frame[cnt - 2]
    BY <1>1, <1>2 DEF ReadAhead
  <2> QED
    BY <2>1, Zenon DEF susp_pixel_in, obj_det_pixel
<1>7. cnt - 2 \in Address /\ a \in Address /\ ref_mem \in [Address -> BOOLEAN]
  BY <1>1, <1>2 DEF Address, TypeOK, DatapathTypeOK
<1>8. CASE a = cnt - 2
  <2>1. ref_mem'[cnt - 2] = susp_pixel_in
    BY <1>5, <1>7
  <2>2. susp_pixel_in = (frame'[cnt - 2] \in Bright)
    BY <1>2, <1>6
  <2> QED
    BY <2>1, <2>2, <1>8
<1>9. CASE a # cnt - 2
  <2>1. a <= cnt - 3
    BY <1>1, <1>2, <1>9
  <2>2. ref_mem[a] = (frame[a] \in Bright)
    BY <2>1, <1>3 DEF ReferenceSoFar
  <2> QED
    BY <1>2, <1>5, <1>7, <1>9, <2>2
<1> QED
  BY <1>8, <1>9

-----------------------------------------------------------------------------
\* The inductive invariant holds at power-up.
LEMMA InitIInv == Init => IInv
<1> SUFFICES ASSUME Init PROVE IInv
  OBVIOUS
<1> USE FrameSizeAssumption, PixelAssumption, ScenesAssumption, ThresholdAssumption
<1> USE DEF Init, DownsamplerInit, ControlInit, DatapathInit
<1>1. Blank \in [Address -> BOOLEAN]
  BY DEF Blank
<1>2. DownsamplerTypeOK
  <2>1. tvalid \in BOOLEAN /\ transfer \in BOOLEAN
    OBVIOUS
  <2> QED
    BY <2>1 DEF DownsamplerTypeOK
<1>3. ControlTypeOK
  BY DEF ControlTypeOK, ControlStates
<1>4. DatapathTypeOK
  <2>1. {pixel_in_d1, curr_pixel, diff_pixel_d1, diff_pixel_d2} \subseteq BOOLEAN
    OBVIOUS
  <2>2. {ref_latch, ref_pixel, diff_latch, prev_diff_pixel} \subseteq BOOLEAN
    OBVIOUS
  <2> QED
    BY <1>1, <2>1, <2>2 DEF DatapathTypeOK
<1>5. TypeOK
  BY <1>1, <1>2, <1>3, <1>4 DEF TypeOK
<1>6. Lockstep
  BY DEF Lockstep, TransferShape
<1> QED
  BY <1>5, <1>6 DEF IInv, ReadAhead, ReferenceSoFar

\* One rising edge preserves all of it.
LEMMA TickIInv ==
    ASSUME IInv,
           NEW cfg \in BOOLEAN, NEW start \in BOOLEAN,
           NEW vsync \in BOOLEAN, NEW last \in BOOLEAN,
           Tick(cfg, start, vsync, last)
    PROVE  IInv'
<1> USE DEF IInv, Lockstep
<1>1. DownsamplerTypeOK' /\ ReadAhead'
  BY DownsamplerTypeStep, ReadAheadStep DEF Tick, TypeOK
<1>2. ControlTypeOK' /\ Lockstep'
  BY LockstepStep DEF Tick, TypeOK
<1>3. ReferenceSoFar'
  BY ReferenceSoFarStep
<1>4. DatapathTypeOK'
  <2>1. obj_det_addr \in Address /\ obj_det_wren \in BOOLEAN
    BY ShownAddress DEF TypeOK, DownsamplerTypeOK
  <2>2. ControlOutputs(cfg, start, obj_det_addr, obj_det_wren) \in Commands
    BY <2>1, OutputsType
  <2>3. init_done \in BOOLEAN /\ susp_pixel_in \in BOOLEAN
    BY DEF TypeOK, ControlTypeOK, susp_pixel_in
  <2> QED
    BY <2>2, <2>3, DatapathTypeStep DEF Tick, TypeOK
<1>5. before' \in [Address -> BOOLEAN] /\ now' \in [Address -> BOOLEAN] /\ compared' \in BOOLEAN
  <2>1. Blank \in [Address -> BOOLEAN]
    BY DEF Blank
  <2>2. DiffImage(ref_mem, frame) \in [Address -> BOOLEAN]
    <3>1. \A a \in Address : a - 2 \in Address \/ a < 2
      BY FrameSizeAssumption DEF Address
    <3>2. ref_mem[0] \in BOOLEAN
      BY FrameSizeAssumption DEF TypeOK, DatapathTypeOK, Address
    <3>3. \A a \in Address : (ref_mem[a - 2] # (frame[a - 2] \in Bright)) \in BOOLEAN
      BY Zenon
    <3> QED
      BY <3>1, <3>2, <3>3 DEF DiffImage
  <2> QED
    BY <2>1, <2>2 DEF Tick, RecordFrame, TypeOK, DatapathTypeOK, historyVars
<1> QED
  BY <1>1, <1>2, <1>3, <1>4, <1>5 DEF TypeOK

\* So does a reset, which leaves the memories but no captured reference.
LEMMA ResetIInv == ASSUME IInv, Reset PROVE IInv'
<1> USE FrameSizeAssumption, PixelAssumption, ThresholdAssumption
<1> USE DEF IInv, Reset, DownsamplerReset, ControlReset, DatapathReset
<1>1. DownsamplerTypeOK'
  <2>1. tvalid' \in BOOLEAN /\ transfer' \in BOOLEAN
    OBVIOUS
  <2> QED
    BY <2>1 DEF TypeOK, DownsamplerTypeOK
<1>2. ControlTypeOK'
  BY DEF ControlTypeOK, ControlStates
<1>3. DatapathTypeOK'
  <2>1. {pixel_in_d1', curr_pixel', diff_pixel_d1', diff_pixel_d2'} \subseteq BOOLEAN
    BY DEF ClearDelays
  <2> QED
    BY <2>1 DEF TypeOK, DatapathTypeOK, ClearCounters, refVars, diffVars
<1>4. Blank \in [Address -> BOOLEAN]
  BY DEF Blank
<1>5. TypeOK'
  BY <1>1, <1>2, <1>3, <1>4 DEF TypeOK
<1>6. Lockstep'
  BY DEF Lockstep, TransferShape
<1> QED
  BY <1>5, <1>6 DEF ReadAhead, ReferenceSoFar

\* Steps that leave all but the threshold register alone.
LEMMA RetuneIInv ==
    ASSUME IInv, suspicion_thres' \in SuspicionThresholds,
           UNCHANGED <<downsamplerVars, controlVars, delayVars, refVars, diffVars,
                       counterVars, historyVars>>
    PROVE  IInv'
<1> USE DEF downsamplerVars, controlVars, delayVars, refVars, diffVars, counterVars,
            historyVars, IInv
<1>1. DownsamplerTypeOK' /\ ControlTypeOK' /\ DatapathTypeOK'
  BY DEF TypeOK, DownsamplerTypeOK, ControlTypeOK, DatapathTypeOK
<1>2. TypeOK'
  BY <1>1 DEF TypeOK
<1>3. Lockstep'
  <2>1. obj_det_addr' = obj_det_addr
    BY DEF obj_det_addr
  <2> QED
    BY <2>1 DEF Lockstep, TransferShape
<1> QED
  BY <1>2, <1>3 DEF ReadAhead, ReferenceSoFar

\* Every step of the specification, stutters included, preserves it.
LEMMA NextIInv == IInv /\ [Next]_vars => IInv'
<1> SUFFICES ASSUME IInv, [Next]_vars PROVE IInv'
  OBVIOUS
<1>1. CASE Clock
  BY <1>1, ClockIsTick, TickIInv
<1>2. ASSUME NEW t \in SuspicionThresholds, WriteSuspicionThres(t)
      PROVE  IInv'
  BY <1>2, RetuneIInv DEF WriteSuspicionThres
<1>3. CASE Reset
  BY <1>3, ResetIInv
<1>4. CASE UNCHANGED vars
  <2>1. suspicion_thres' \in SuspicionThresholds
    BY <1>4 DEF vars, datapathVars, IInv, TypeOK, DatapathTypeOK
  <2> QED
    BY <1>4, <2>1, RetuneIInv DEF vars, datapathVars
<1> QED
  BY <1>1, <1>2, <1>3, <1>4 DEF Next

\* It therefore holds in every reachable state.
LEMMA SpecIInv == Spec => []IInv
BY InitIInv, NextIInv, PTL DEF Spec

-----------------------------------------------------------------------------
\* The registers of the whole detector keep the ranges the code gives them.
THEOREM TypeCorrect == Spec => []TypeOK
<1>1. IInv => TypeOK
  BY DEF IInv
<1> QED
  BY <1>1, SpecIInv, PTL

\* The state machine and the downsampler, which no signal ties together, stay
\* in step for every frame size.
THEOREM StaysInLockstep == Spec => []Lockstep
<1>1. IInv => Lockstep
  BY DEF IInv
<1> QED
  BY <1>1, SpecIInv, PTL

\* The pixel shown is the pixel at the address shown.
THEOREM PixelsMatchAddresses == Spec => []PixelMatchesAddress
<1>1. IInv => PixelMatchesAddress
  <2> SUFFICES ASSUME IInv, tvalid PROVE obj_det_addr \in Address
                                      /\ obj_det_pixel = frame[obj_det_addr]
    BY DEF PixelMatchesAddress
  <2>1. cnt >= 2
    BY DEF IInv, Lockstep, TransferShape
  <2>2. obj_det_addr \in Address /\ obj_det_addr = cnt - 2
    BY <2>1, ShownAddress DEF IInv, TypeOK, Lockstep
  <2> QED
    BY <2>1, <2>2 DEF IInv, ReadAhead, obj_det_pixel
<1> QED
  BY <1>1, SpecIInv, PTL

\* When the reference is declared captured it is the frame that was shown, but
\* for address 0 (a start that falls on the head of a transfer misses it) and
\* the last address, which is never captured.
THEOREM ReferenceIsTheFrame == Spec => []ReferenceMatchesFrame
<1>1. IInv => ReferenceMatchesFrame
  <2> SUFFICES ASSUME IInv, curr_state = "CAPTURE_REF", ~BeforeLastPixel(obj_det_addr),
                      NEW a \in 1 .. FRAME_SIZE - 2
               PROVE  ref_mem[a] = (frame[a] \in Bright)
    BY DEF ReferenceMatchesFrame
  <2>0. DownsamplerTypeOK /\ TransferShape
    BY DEF IInv, TypeOK, Lockstep
  <2>1. cnt \in Nat /\ obj_det_addr = IF cnt >= 2 THEN cnt - 2 ELSE 0
    <3>1. cnt \in Nat
      BY <2>0, FrameSizeAssumption DEF DownsamplerTypeOK
    <3> QED
      BY <2>0, <3>1, ShownAddress
  <2>2. cnt - 2 >= FRAME_SIZE - 1
    BY <2>1, FrameSizeAssumption DEF BeforeLastPixel
  <2>3. a <= cnt - 3
    BY <2>1, <2>2, FrameSizeAssumption
  <2> QED
    BY <2>3 DEF IInv, ReferenceSoFar
<1> QED
  BY <1>1, SpecIInv, PTL

\* A captured reference is never written again short of a reset.
THEOREM ReferenceNeverRewritten == Spec => ReferenceIsKept
<1>1. IInv /\ [Next]_vars => [init_done /\ init_done' => UNCHANGED ref_mem]_vars
  <2> SUFFICES ASSUME IInv, Next, init_done, init_done' PROVE ref_mem' = ref_mem
    OBVIOUS
  <2>1. CASE Clock
    <3>1. curr_state # "CAPTURE_REF"
      BY DEF IInv, Lockstep
    <3>2. PICK cfg, start, vsync, last \in BOOLEAN : Tick(cfg, start, vsync, last)
      BY <2>1, ClockIsTick
    <3> QED
      BY <3>1, <3>2, ReferenceWrite DEF IInv
  <2>2. CASE \E t \in SuspicionThresholds : WriteSuspicionThres(t)
    BY <2>2 DEF WriteSuspicionThres, refVars
  <2>3. CASE Reset
    BY <2>3 DEF Reset, DatapathReset, refVars
  <2> QED
    BY <2>1, <2>2, <2>3 DEF Next
<1> QED
  BY <1>1, SpecIInv, PTL DEF Spec, ReferenceIsKept

=============================================================================
