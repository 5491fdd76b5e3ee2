---------------------------- MODULE CounterProofs ----------------------------
(***************************************************************************)
(* The two counters a frame is judged by are those of whole difference      *)
(* images, and every run of the detector is one of the per-frame watcher.   *)
(*                                                                         *)
(* In clock cnt of a transfer each register of the pipeline holds something *)
(* of the pixel a fixed number of clocks behind; the counters hold the      *)
(* count of the addresses passed.  CountInv says so, register by register.  *)
(***************************************************************************)
EXTENDS DetectorProofs, FiniteSetTheorems

\* How many of the first n pixels of an image are up.
Ones(image, n) == Cardinality({a \in 0 .. n - 1 : image[a]})

\* The pixels up in both of two images.
Both(new, old) == [a \in Address |-> new[a] /\ old[a]]

\* The address shown n clocks ago, if the transfer has shown one; before that
\* both memories are read at address 0.
Behind(n) == IF cnt >= n THEN cnt - n ELSE 0

\* The black-and-white pixel of that clock, and the dark one before it.
LitBehind(n) == cnt >= n /\ frame[cnt - n] \in Bright

Comparing ==
    \/ curr_state = "SYNC_CAPTURE" /\ init_done /\ transfer
    \/ curr_state \in {"START_FRAME", "PROC_FRAME"}

\* Between two transfers the pixel line runs empty and both memories are read
\* at address 0.
LinesAtRest ==
    curr_state = "SYNC_CAPTURE" /\ init_done /\ ~transfer =>
        ~pixel_in_d1 /\ ref_latch = ref_mem[0]

PixelLine ==
    Comparing =>
        /\ pixel_in_d1 = LitBehind(3)
        /\ curr_pixel = LitBehind(4)
        /\ ref_latch = ref_mem[Behind(3)]
        /\ ref_pixel = ref_mem[Behind(4)]

DiffLine ==
    /\ curr_state = "START_FRAME" =>
         /\ diff_pixel_d1 = DiffImage(ref_mem, frame)[0]
         /\ diff_latch = diff_mem[0]
    /\ curr_state = "PROC_FRAME" =>
         /\ now = DiffImage(ref_mem, frame)
         /\ diff_pixel_d1 = now[Behind(3)]
         /\ diff_pixel_d2 = now[Behind(4)]
         /\ diff_latch = before[Behind(3)]
         /\ prev_diff_pixel = before[Behind(4)]

\* The difference memory holds the image of the last frame, overwritten by that
\* of the frame being compared up to the address shown.
DiffMemory ==
    /\ ~diff_mem[FRAME_SIZE - 1] /\ ~now[FRAME_SIZE - 1] /\ ~before[FRAME_SIZE - 1]
    /\ curr_state = "CAPTURE_REF" =>
         \A a \in 1 .. FRAME_SIZE - 2 : a <= cnt - 3 => ~diff_mem[a]
    /\ curr_state \in {"SYNC_CAPTURE", "START_FRAME"} /\ init_done =>
         diff_mem = IF compared THEN now ELSE before
    /\ curr_state = "PROC_FRAME" =>
         \A a \in Address : diff_mem[a] = IF a <= cnt - 3 THEN now[a] ELSE before[a]

\* What the history variables say outside a comparison.
HistoryShape ==
    /\ curr_state = "PROC_FRAME" => compared
    /\ ~compared => now = Blank
    /\ init_done /\ ~compared => \A a \in 1 .. FRAME_SIZE - 1 : ~before[a]
    /\ ~init_done => ~compared /\ before = Blank /\ suspicion = 0

CountsSoFar ==
    /\ curr_state \in {"SYNC_CAPTURE", "START_FRAME"} /\ init_done =>
         diff_cnt = DiffScore(now) /\ match_cnt = MatchScore(now, before)
    /\ curr_state = "PROC_FRAME" =>
         /\ diff_cnt = Ones(now, cnt - 2)
         /\ match_cnt = Ones(Both(now, before), Behind(4))
                        + IF now[0] /\ before[0] THEN (IF cnt >= 4 THEN 2 ELSE cnt - 2)
                                                 ELSE 0

CountInv ==
    /\ LinesAtRest
    /\ PixelLine
    /\ DiffLine
    /\ DiffMemory
    /\ HistoryShape
    /\ CountsSoFar

-----------------------------------------------------------------------------
\* Counting the pixels up one address at a time.
LEMMA OnesStep ==
    ASSUME NEW image \in [Address -> BOOLEAN], NEW n \in Address
    PROVE  /\ Ones(image, n) \in Nat
           /\ Ones(image, n + 1) \in Nat
           /\ Ones(image, n + 1) = Ones(image, n) + IF image[n] THEN 1 ELSE 0
<1> DEFINE S == {a \in 0 .. n - 1 : image[a]}
           T == {a \in 0 .. (n + 1) - 1 : image[a]}
<1>1. n \in Nat
  BY FrameSizeAssumption DEF Address
<1>2. IsFiniteSet(S) /\ Cardinality(S) \in Nat
  <2>1. IsFiniteSet(0 .. n - 1)
    BY <1>1, FS_Interval
  <2>2. S \in SUBSET (0 .. n - 1)
    OBVIOUS
  <2>3. IsFiniteSet(S)
    BY <2>1, <2>2, FS_Subset
  <2> QED
    BY <2>3, FS_CardinalityType
<1>3. CASE image[n]
  <2>1. T = S \cup {n} /\ n \notin S
    BY <1>1, <1>3
  <2>2. Cardinality(T) = Cardinality(S) + 1
    BY <1>2, <2>1, FS_AddElement
  <2> QED
    BY <1>2, <1>3, <2>2 DEF Ones
<1>4. CASE ~image[n]
  <2>1. T = S
    BY <1>1, <1>4
  <2> QED
    BY <1>2, <1>4, <2>1 DEF Ones
<1> QED
  BY <1>3, <1>4

\* Of no pixels, none are up.
LEMMA OnesOfNone == ASSUME NEW image PROVE Ones(image, 0) = 0
<1>1. {a \in 0 .. 0 - 1 : image[a]} = {}
  OBVIOUS
<1> QED
  BY <1>1, FS_EmptySet DEF Ones

\* The scores of whole images are counts of their first pixels.
LEMMA ScoresAreCounts ==
    ASSUME NEW new \in [Address -> BOOLEAN], NEW old \in [Address -> BOOLEAN],
           ~new[FRAME_SIZE - 1]
    PROVE  /\ DiffScore(new) = Ones(new, FRAME_SIZE - 1)
           /\ MatchScore(new, old) = Ones(Both(new, old), FRAME_SIZE - 3)
                                       + IF new[0] /\ old[0] THEN 2 ELSE 0
           /\ Both(new, old) \in [Address -> BOOLEAN]
<1> USE FrameSizeAssumption DEF Address
<1>1. {a \in Address : new[a]} = {a \in 0 .. (FRAME_SIZE - 1) - 1 : new[a]}
  OBVIOUS
<1>2. {a \in 0 .. FRAME_SIZE - 4 : new[a] /\ old[a]}
        = {a \in 0 .. (FRAME_SIZE - 3) - 1 : Both(new, old)[a]}
  <2>1. 0 .. FRAME_SIZE - 4 = 0 .. (FRAME_SIZE - 3) - 1
    OBVIOUS
  <2>2. \A a \in 0 .. FRAME_SIZE - 4 : Both(new, old)[a] = (new[a] /\ old[a])
    BY DEF Both
  <2> QED
    BY <2>1, <2>2
<1>3. Both(new, old) \in [Address -> BOOLEAN]
  BY DEF Both
<1> QED
  BY <1>1, <1>2, <1>3 DEF DiffScore, MatchScore, Ones

\* A blank image scores nothing.
LEMMA BlankScores ==
    ASSUME NEW old
    PROVE  DiffScore(Blank) = 0 /\ MatchScore(Blank, old) = 0
<1>1. {a \in Address : Blank[a]} = {}
  BY DEF Blank
<1>2. {a \in 0 .. FRAME_SIZE - 4 : Blank[a] /\ old[a]} = {} /\ ~Blank[0]
  BY FrameSizeAssumption DEF Blank, Address
<1>3. (IF Blank[0] /\ old[0] THEN 2 ELSE 0) = 0
  BY <1>2
<1>4. DiffScore(Blank) = 0
  BY <1>1, FS_EmptySet DEF DiffScore
<1>5. MatchScore(Blank, old) = 0 + 0
  BY <1>2, <1>3, FS_EmptySet DEF MatchScore
<1> QED
  BY <1>4, <1>5

-----------------------------------------------------------------------------
\* One rising edge, seen from the transfer: it moves on by a clock, ends, or
\* there is none.
LEMMA TransferClock ==
    ASSUME IInv,
           NEW cfg \in BOOLEAN, NEW start \in BOOLEAN,
           NEW vsync \in BOOLEAN, NEW last \in BOOLEAN,
           Tick(cfg, start, vsync, last)
    PROVE  /\ cnt \in 0 .. FRAME_SIZE + 1 /\ transfer \in BOOLEAN /\ transfer' \in BOOLEAN
           /\ obj_det_addr = IF cnt >= 2 THEN cnt - 2 ELSE 0
           /\ obj_det_addr \in Address
           /\ obj_det_wren = transfer
           /\ \/ transfer /\ cnt <= FRAME_SIZE /\ transfer' /\ cnt' = cnt + 1 /\ frame' = frame
              \/ transfer /\ cnt = FRAME_SIZE + 1 /\ ~transfer' /\ cnt' = 0 /\ frame' = frame
              \/ ~transfer /\ cnt = 0 /\ cnt' = 0
<1>1. DownsamplerTypeOK /\ TransferShape /\ DownsamplerStep(vsync, last)
  BY DEF IInv, TypeOK, Lockstep, Tick
<1>2. DownsamplerTypeOK'
  BY <1>1, DownsamplerTypeStep
<1>3. /\ cnt \in 0 .. FRAME_SIZE + 1 /\ transfer \in BOOLEAN /\ transfer' \in BOOLEAN
      /\ ~transfer => cnt = 0
  BY <1>1, <1>2 DEF DownsamplerTypeOK, TransferShape
<1>4. \/ transfer /\ cnt <= FRAME_SIZE /\ transfer' /\ cnt' = cnt + 1 /\ frame' = frame
      \/ transfer /\ cnt = FRAME_SIZE + 1 /\ ~transfer' /\ cnt' = 0 /\ frame' = frame
      \/ ~transfer /\ cnt = 0 /\ cnt' = 0
  BY <1>1, <1>3, FrameSizeAssumption
     DEF DownsamplerStep, BeginTransfer, ShiftPixel, EndTransfer, AwaitFrame,
         ReadyToTransfer, MorePixels
<1> QED
  BY <1>1, <1>3, <1>4, ShownAddress

\* The same edge, seen from the state machine.
LEMMA PhaseClock ==
    ASSUME IInv,
           NEW cfg \in BOOLEAN, NEW start \in BOOLEAN,
           NEW vsync \in BOOLEAN, NEW last \in BOOLEAN,
           Tick(cfg, start, vsync, last)
    PROVE  /\ init_done /\ curr_state = "SYNC_CAPTURE" /\ ~transfer =>
                curr_state' = "SYNC_CAPTURE" /\ init_done'
           /\ init_done /\ curr_state = "SYNC_CAPTURE" /\ transfer =>
                cnt = 0 /\ curr_state' = "START_FRAME" /\ init_done'
           /\ curr_state = "START_FRAME" =>
                init_done /\ transfer /\ cnt = 1 /\ curr_state' = "PROC_FRAME" /\ init_done'
           /\ curr_state = "PROC_FRAME" =>
                /\ init_done /\ transfer /\ cnt >= 2 /\ init_done'
                /\ curr_state' = IF cnt <= FRAME_SIZE THEN "PROC_FRAME" ELSE "SYNC_CAPTURE"
           /\ curr_state = "CAPTURE_REF" =>
                /\ ~init_done /\ transfer /\ cnt >= 1
                /\ init_done' <=> cnt = FRAME_SIZE + 1
                /\ curr_state' = IF cnt <= FRAME_SIZE THEN "CAPTURE_REF" ELSE "SYNC_CAPTURE"
           /\ ~init_done /\ curr_state # "CAPTURE_REF" =>
                /\ ~init_done'
                /\ curr_state' \in {"RESET", "WAIT_START", "SYNC_CAPTURE", "CAPTURE_REF"}
                /\ curr_state' = "CAPTURE_REF" => transfer /\ cnt <= 2
           /\ init_done => curr_state \in {"SYNC_CAPTURE", "START_FRAME", "PROC_FRAME"}
<1> DEFINE addr == obj_det_addr
           wren == obj_det_wren
<1>1. /\ cnt \in 0 .. FRAME_SIZE + 1
      /\ addr = IF cnt >= 2 THEN cnt - 2 ELSE 0
      /\ wren = transfer
  BY TransferClock
<1>2. BeforeLastPixel(addr) <=> cnt <= FRAME_SIZE
  BY <1>1, FrameSizeAssumption DEF BeforeLastPixel
<1>3. addr = 0 <=> cnt <= 2
  BY <1>1, FrameSizeAssumption
<1>4. ControlTypeOK /\ Lockstep /\ ControlStep(cfg, start, addr, wren)
  BY DEF IInv, TypeOK, Tick
<1> HIDE DEF addr, wren
<1> USE FrameSizeAssumption, <1>1, <1>2, <1>3, <1>4 DEF ControlTypeOK, ControlStates, Lockstep
<1>5. CASE CameraConfigured(cfg)
  BY <1>5 DEF CameraConfigured
<1>6. CASE StartRequested(start)
  BY <1>6 DEF StartRequested
<1>7. CASE FrameBegins(addr, wren)
  BY <1>7 DEF FrameBegins, AtFrameStart
<1>8. CASE ReferenceCaptured(addr)
  BY <1>8 DEF ReferenceCaptured
<1>9. CASE FrameStarted
  BY <1>9 DEF FrameStarted
<1>10. CASE FrameProcessed(addr)
  BY <1>10 DEF FrameProcessed
<1>11. CASE HoldState(cfg, start, addr, wren)
  BY <1>11 DEF HoldState, Capturing, Processing, AtFrameStart, controlVars
<1> QED
  BY <1>5, <1>6, <1>7, <1>8, <1>9, <1>10, <1>11 DEF ControlStep

\* What an edge does to the datapath once the reference is captured.  While a
\* frame is compared both memories are read, and the difference memory written,
\* at the address shown; otherwise they are read at address 0.
ProcessingNow == curr_state = "PROC_FRAME" /\ cnt <= FRAME_SIZE

LEMMA CompareClock ==
    ASSUME IInv, init_done,
           NEW cfg \in BOOLEAN, NEW start \in BOOLEAN,
           NEW vsync \in BOOLEAN, NEW last \in BOOLEAN,
           Tick(cfg, start, vsync, last),
           NEW addr, addr = IF ProcessingNow THEN cnt - 2 ELSE 0
    PROVE  /\ pixel_in_d1' = (susp_pixel_in /\ ProcessingNow)
           /\ curr_pixel' = (pixel_in_d1 /\ ProcessingNow)
           /\ diff_pixel_d1' = (ref_pixel # curr_pixel)
           /\ diff_pixel_d2' = diff_pixel_d1
           /\ ref_mem' = ref_mem /\ ref_latch' = ref_mem[addr] /\ ref_pixel' = ref_latch
           /\ diff_mem' = IF ProcessingNow
                            THEN [diff_mem EXCEPT ![addr] = (ref_pixel # curr_pixel)]
                            ELSE diff_mem
           /\ diff_latch' = diff_mem[addr] /\ prev_diff_pixel' = diff_latch
           /\ curr_state = "START_FRAME" => JudgeFrame
           /\ curr_state # "START_FRAME" =>
                /\ diff_cnt' = diff_cnt
                     + IF ProcessingNow /\ ref_pixel # curr_pixel THEN 1 ELSE 0
                /\ match_cnt' = match_cnt
                     + IF ProcessingNow /\ diff_pixel_d2 /\ prev_diff_pixel THEN 1 ELSE 0
                /\ suspicion' = suspicion
<1> DEFINE c == ControlOutputs(cfg, start, obj_det_addr, obj_det_wren)
<1>1. /\ cnt \in 0 .. FRAME_SIZE + 1
      /\ obj_det_addr = IF cnt >= 2 THEN cnt - 2 ELSE 0
      /\ obj_det_wren = transfer
  BY TransferClock
<1>2. /\ curr_state \in {"SYNC_CAPTURE", "START_FRAME", "PROC_FRAME"}
      /\ curr_state = "PROC_FRAME" => transfer /\ cnt >= 2
  BY PhaseClock
<1>3. /\ Processing(obj_det_addr) <=> ProcessingNow
      /\ Processing(obj_det_addr) \in BOOLEAN /\ ProcessingNow \in BOOLEAN
  BY <1>1, <1>2, FrameSizeAssumption DEF Processing, BeforeLastPixel, ProcessingNow
<1>4. ~Capturing(obj_det_addr) /\ Capturing(obj_det_addr) \in BOOLEAN
  BY <1>2 DEF Capturing
<1>5. /\ c.resetn /\ c.ref_enable /\ c.diff_enable /\ ~c.ref_wren
      /\ c.ref_addr = addr /\ c.diff_addr = addr
      /\ c.diff_wren <=> ProcessingNow
      /\ c.ref_wren \in BOOLEAN /\ c.diff_wren \in BOOLEAN
      /\ c.frame_start <=> curr_state = "START_FRAME"
  <2>1. ProcessingNow => obj_det_wren /\ obj_det_addr = addr
    BY <1>1, <1>2 DEF ProcessingNow
  <2>2. c.ref_wren = FALSE /\ c.ref_enable = TRUE
    BY <1>2, <1>4 DEF ControlOutputs, WritesRef
  <2>3. c.diff_wren = ProcessingNow /\ c.diff_enable = TRUE
    <3>1. CASE ProcessingNow
      BY <1>1, <1>2, <1>3, <1>4, <2>1, <3>1 DEF ControlOutputs, WritesDiff
    <3>2. CASE ~ProcessingNow
      BY <1>2, <1>3, <1>4, <3>2 DEF ControlOutputs, WritesDiff
    <3> QED
      BY <3>1, <3>2
  <2>4. c.ref_addr = addr /\ c.diff_addr = addr
    BY <1>3, <1>4, <2>1 DEF ControlOutputs, WritesDiff
  <2>5. c.resetn = TRUE /\ c.frame_start = (curr_state = "START_FRAME")
    BY <1>2 DEF ControlOutputs
  <2> QED
    BY <1>3, <2>2, <2>3, <2>4, <2>5
<1>6. DatapathStep(c, init_done, susp_pixel_in)
  BY DEF Tick
<1>7. /\ diff_pixel(init_done) = (ref_pixel # curr_pixel)
      /\ match_pixel(init_done) = (diff_pixel_d2 /\ prev_diff_pixel)
  BY DEF diff_pixel, match_pixel
<1> HIDE DEF c
<1>8. /\ pixel_in_d1' = (susp_pixel_in /\ ProcessingNow)
      /\ curr_pixel' = (pixel_in_d1 /\ ProcessingNow)
      /\ diff_pixel_d1' = (ref_pixel # curr_pixel)
      /\ diff_pixel_d2' = diff_pixel_d1
  BY <1>5, <1>6, <1>7, Zenon DEF DatapathStep, ShiftDelays
<1>9. ref_mem' = ref_mem /\ ref_latch' = ref_mem[addr] /\ ref_pixel' = ref_latch
  BY <1>5, <1>6 DEF DatapathStep, RefFrameBuffer
<1>10. /\ diff_mem' = IF ProcessingNow
                        THEN [diff_mem EXCEPT ![addr] = (ref_pixel # curr_pixel)]
                        ELSE diff_mem
       /\ diff_latch' = diff_mem[addr] /\ prev_diff_pixel' = diff_latch
  BY <1>5, <1>6, <1>7 DEF DatapathStep, DiffFrameBuffer
<1>11. Counters(c, init_done)
  BY <1>6 DEF DatapathStep
<1>12. curr_state = "START_FRAME" => JudgeFrame
  BY <1>5, <1>11 DEF Counters
<1>13. curr_state # "START_FRAME" => CountPixel(c, init_done)
  BY <1>5, <1>11 DEF Counters
<1>14. curr_state # "START_FRAME" =>
         /\ diff_cnt' = diff_cnt + IF ProcessingNow /\ ref_pixel # curr_pixel THEN 1 ELSE 0
         /\ match_cnt' = match_cnt
              + IF ProcessingNow /\ diff_pixel_d2 /\ prev_diff_pixel THEN 1 ELSE 0
         /\ suspicion' = suspicion
  BY <1>5, <1>7, <1>13 DEF CountPixel
<1> QED
  BY <1>8, <1>9, <1>10, <1>12, <1>14

\* What an edge does before the reference is captured: the counters stay clear,
\* and capturing clears the difference memory on its way.
LEMMA CaptureClock ==
    ASSUME IInv, ~init_done,
           NEW cfg \in BOOLEAN, NEW start \in BOOLEAN,
           NEW vsync \in BOOLEAN, NEW last \in BOOLEAN,
           Tick(cfg, start, vsync, last)
    PROVE  /\ ClearCounters
           /\ diff_mem' = IF curr_state = "CAPTURE_REF" /\ cnt <= FRAME_SIZE
                            THEN [diff_mem EXCEPT ![obj_det_addr] = FALSE]
                            ELSE diff_mem
           /\ curr_state = "CAPTURE_REF" /\ cnt = FRAME_SIZE + 1 =>
                ~pixel_in_d1' /\ ref_mem' = ref_mem /\ ref_latch' = ref_mem[0]
<1> DEFINE c == ControlOutputs(cfg, start, obj_det_addr, obj_det_wren)
<1>1. /\ cnt \in 0 .. FRAME_SIZE + 1
      /\ obj_det_addr = IF cnt >= 2 THEN cnt - 2 ELSE 0
      /\ obj_det_wren = transfer
  BY TransferClock
<1>2. /\ curr_state # "PROC_FRAME"
      /\ curr_state = "CAPTURE_REF" => transfer /\ cnt >= 1
  BY PhaseClock
<1>3. /\ ~Processing(obj_det_addr)
      /\ Capturing(obj_det_addr) <=> curr_state = "CAPTURE_REF" /\ cnt <= FRAME_SIZE
  BY <1>1, <1>2, FrameSizeAssumption DEF Processing, Capturing, BeforeLastPixel
<1>4. /\ c.diff_wren <=> Capturing(obj_det_addr) /\ obj_det_wren
      /\ Capturing(obj_det_addr) => c.diff_enable = obj_det_wren /\ c.diff_addr = obj_det_addr
  BY <1>2, <1>3 DEF ControlOutputs, WritesDiff
<1>5. curr_state = "CAPTURE_REF" /\ cnt = FRAME_SIZE + 1 =>
        ~c.ref_wren /\ ~c.diff_wren /\ c.ref_enable /\ c.ref_addr = 0 /\ c.resetn
  <2> SUFFICES ASSUME curr_state = "CAPTURE_REF", cnt = FRAME_SIZE + 1
               PROVE  ~c.ref_wren /\ ~c.diff_wren /\ c.ref_enable /\ c.ref_addr = 0 /\ c.resetn
    OBVIOUS
  <2>1. Capturing(obj_det_addr) = FALSE /\ Processing(obj_det_addr) = FALSE
    BY <1>3, FrameSizeAssumption DEF Capturing, Processing
  <2>2. WritesRef(obj_det_addr) = FALSE /\ WritesDiff(obj_det_addr) = FALSE
    BY <2>1 DEF WritesRef, WritesDiff
  <2>3. c.ref_wren = FALSE /\ c.diff_wren = FALSE
    BY <2>2 DEF ControlOutputs
  <2>4. c.ref_enable = TRUE /\ c.ref_addr = 0 /\ c.resetn = TRUE
    BY <2>1, <2>2 DEF ControlOutputs
  <2> QED
    BY <2>3, <2>4
<1>6. DatapathStep(c, init_done, susp_pixel_in)
  BY DEF Tick
<1>7. diff_pixel(init_done) = FALSE
  BY DEF diff_pixel
<1> HIDE DEF c
<1>8. ClearCounters
  BY <1>6 DEF DatapathStep, Counters
<1>9. diff_mem' = IF curr_state = "CAPTURE_REF" /\ cnt <= FRAME_SIZE
                    THEN [diff_mem EXCEPT ![obj_det_addr] = FALSE]
                    ELSE diff_mem
  <2>1. CASE curr_state = "CAPTURE_REF" /\ cnt <= FRAME_SIZE
    BY <1>1, <1>2, <1>3, <1>4, <1>6, <1>7, <2>1 DEF DatapathStep, DiffFrameBuffer
  <2>2. CASE ~(curr_state = "CAPTURE_REF" /\ cnt <= FRAME_SIZE)
    <3>1. ~c.diff_wren
      BY <1>3, <1>4, <2>2
    <3> QED
      BY <1>6, <2>2, <3>1 DEF DatapathStep, DiffFrameBuffer, diffVars
  <2> QED
    BY <2>1, <2>2
<1>10. curr_state = "CAPTURE_REF" /\ cnt = FRAME_SIZE + 1 =>
         ~pixel_in_d1' /\ ref_mem' = ref_mem /\ ref_latch' = ref_mem[0]
  <2> SUFFICES ASSUME curr_state = "CAPTURE_REF", cnt = FRAME_SIZE + 1
               PROVE  ~pixel_in_d1' /\ ref_mem' = ref_mem /\ ref_latch' = ref_mem[0]
    OBVIOUS
  <2>1. ~pixel_in_d1'
    BY <1>5, <1>6 DEF DatapathStep, ShiftDelays
  <2> QED
    BY <1>5, <1>6, <2>1 DEF DatapathStep, RefFrameBuffer
<1> QED
  BY <1>8, <1>9, <1>10

\* While a frame is compared, what the datapath finds different is the pixel of
\* the difference image at the address shown.
LEMMA DifferenceFound ==
    ASSUME IInv, PixelLine, Comparing, cnt <= FRAME_SIZE
    PROVE  (ref_pixel # curr_pixel) = DiffImage(ref_mem, frame)[Behind(2)]
<1>1. cnt \in 0 .. FRAME_SIZE + 1
  BY DEF IInv, TypeOK, DownsamplerTypeOK
<1>2. curr_pixel = LitBehind(4) /\ ref_pixel = ref_mem[Behind(4)]
  BY DEF PixelLine
<1>3. Behind(2) \in Address /\ Behind(2) # FRAME_SIZE - 1 /\ 0 \in Address
  BY <1>1, FrameSizeAssumption DEF Behind, Address
<1>4. ref_mem[0] \in BOOLEAN
  BY <1>3 DEF IInv, TypeOK, DatapathTypeOK
<1>5. CASE cnt >= 4
  <2>1. Behind(2) = cnt - 2 /\ Behind(2) - 2 = cnt - 4 /\ Behind(4) = cnt - 4
    BY <1>1, <1>5 DEF Behind
  <2>2. DiffImage(ref_mem, frame)[Behind(2)]
          = (ref_mem[Behind(2) - 2] # (frame[Behind(2) - 2] \in Bright))
    BY <1>1, <1>3, <1>5, <2>1 DEF DiffImage
  <2>3. curr_pixel = (frame[cnt - 4] \in Bright)
    BY <1>2, <1>5 DEF LitBehind
  <2> QED
    BY <1>2, <2>1, <2>2, <2>3
<1>6. CASE ~(cnt >= 4)
  <2>1. Behind(2) < 2 /\ Behind(4) = 0
    BY <1>1, <1>6 DEF Behind
  <2>2. DiffImage(ref_mem, frame)[Behind(2)] = ref_mem[0]
    BY <1>3, <2>1 DEF DiffImage
  <2>3. curr_pixel = FALSE
    BY <1>2, <1>6 DEF LitBehind
  <2>4. (ref_mem[0] # FALSE) = ref_mem[0]
    BY <1>4
  <2> QED
    BY <1>2, <2>1, <2>2, <2>3, <2>4
<1> QED
  BY <1>5, <1>6

-----------------------------------------------------------------------------
\* CountInv, one state of the machine after the other.

\* Until the reference is captured.
LEMMA BeforeCapture ==
    ASSUME IInv, CountInv, ~init_done, ~init_done',
           NEW cfg \in BOOLEAN, NEW start \in BOOLEAN,
           NEW vsync \in BOOLEAN, NEW last \in BOOLEAN,
           Tick(cfg, start, vsync, last)
    PROVE  CountInv'
<1> USE FrameSizeAssumption
<1>1. /\ cnt \in 0 .. FRAME_SIZE + 1 /\ obj_det_addr \in Address
      /\ obj_det_addr = IF cnt >= 2 THEN cnt - 2 ELSE 0
      /\ cnt <= FRAME_SIZE => cnt' = cnt + 1 \/ cnt' = 0
  BY TransferClock
<1>2. before' = Blank /\ now' = Blank /\ compared' = FALSE
  BY DEF Tick, RecordFrame
<1>3. /\ curr_state' \in {"RESET", "WAIT_START", "SYNC_CAPTURE", "CAPTURE_REF"}
      /\ curr_state = "CAPTURE_REF" => cnt <= FRAME_SIZE
      /\ curr_state' = "CAPTURE_REF" => curr_state = "CAPTURE_REF" \/ cnt <= 2
  BY PhaseClock, TransferClock
<1>4. LinesAtRest' /\ PixelLine' /\ DiffLine'
  BY <1>3 DEF LinesAtRest, PixelLine, Comparing, DiffLine
<1>5. ~before'[FRAME_SIZE - 1] /\ ~now'[FRAME_SIZE - 1]
  BY <1>2 DEF Blank, Address
<1>6. diff_mem \in [Address -> BOOLEAN] /\ ~diff_mem[FRAME_SIZE - 1]
  BY DEF IInv, TypeOK, DatapathTypeOK, CountInv, DiffMemory
<1>7. diff_mem' = IF curr_state = "CAPTURE_REF" /\ cnt <= FRAME_SIZE
                    THEN [diff_mem EXCEPT ![obj_det_addr] = FALSE]
                    ELSE diff_mem
  BY CaptureClock
<1>8. \A a \in Address : ~diff_mem[a] => ~diff_mem'[a]
  BY <1>6, <1>7
<1>9. ~diff_mem'[FRAME_SIZE - 1]
  BY <1>6, <1>8 DEF Address
<1>10. ASSUME curr_state' = "CAPTURE_REF", NEW a \in 1 .. FRAME_SIZE - 2, a <= cnt' - 3
       PROVE  ~diff_mem'[a]
  <2>1. a \in Address /\ cnt' = cnt + 1 /\ curr_state = "CAPTURE_REF" /\ cnt <= FRAME_SIZE
    BY <1>1, <1>3, <1>10, TransferClock DEF Address
  <2>2. CASE a <= cnt - 3
    <3>1. ~diff_mem[a]
      BY <2>1, <2>2 DEF CountInv, DiffMemory
    <3> QED
      BY <1>8, <2>1, <3>1
  <2>3. CASE ~(a <= cnt - 3)
    <3>1. a = obj_det_addr
      BY <1>1, <1>10, <2>1, <2>3
    <3> QED
      BY <1>6, <1>7, <2>1, <3>1
  <2> QED
    BY <2>2, <2>3
<1>11. DiffMemory'
  BY <1>3, <1>5, <1>9, <1>10 DEF DiffMemory
<1>12. HistoryShape'
  BY <1>2, <1>3, CaptureClock DEF HistoryShape, ClearCounters
<1>13. CountsSoFar'
  BY <1>3 DEF CountsSoFar
<1> QED
  BY <1>4, <1>11, <1>12, <1>13 DEF CountInv

\* In the clock that declares the reference captured.
LEMMA AtCapture ==
    ASSUME IInv, CountInv, ~init_done, init_done',
           NEW cfg \in BOOLEAN, NEW start \in BOOLEAN,
           NEW vsync \in BOOLEAN, NEW last \in BOOLEAN,
           Tick(cfg, start, vsync, last)
    PROVE  CountInv'
<1> USE FrameSizeAssumption
<1>1. /\ curr_state = "CAPTURE_REF" /\ cnt = FRAME_SIZE + 1
      /\ curr_state' = "SYNC_CAPTURE" /\ ~transfer'
  <2>1. curr_state = "CAPTURE_REF" /\ cnt = FRAME_SIZE + 1
    BY PhaseClock
  <2>2. ~transfer'
    BY <2>1, TransferClock
  <2> QED
    BY <2>1, <2>2, PhaseClock
<1>2. /\ before' = diff_mem /\ now' = Blank /\ compared' = FALSE
  BY DEF Tick, RecordFrame
<1>3. /\ diff_mem' = diff_mem /\ ref_mem' = ref_mem
      /\ ~pixel_in_d1' /\ ref_latch' = ref_mem[0]
      /\ diff_cnt' = 0 /\ match_cnt' = 0 /\ suspicion' = 0
  BY <1>1, CaptureClock DEF ClearCounters
<1>4. LinesAtRest' /\ PixelLine' /\ DiffLine'
  BY <1>1, <1>3 DEF LinesAtRest, PixelLine, Comparing, DiffLine
<1>5. ~now'[FRAME_SIZE - 1]
  BY <1>2 DEF Blank, Address
<1>6. \A a \in 1 .. FRAME_SIZE - 1 : ~diff_mem[a]
  BY <1>1 DEF CountInv, DiffMemory
<1>7. DiffMemory'
  BY <1>1, <1>2, <1>3, <1>5, <1>6 DEF DiffMemory
<1>8. HistoryShape'
  BY <1>1, <1>2, <1>6 DEF HistoryShape
<1>9. CountsSoFar'
  BY <1>1, <1>2, <1>3, BlankScores DEF CountsSoFar
<1> QED
  BY <1>4, <1>7, <1>8, <1>9 DEF CountInv

\* Between two transfers the lines run empty and nothing is counted.
LEMMA WhileWaiting ==
    ASSUME IInv, CountInv, init_done, curr_state = "SYNC_CAPTURE", ~transfer,
           NEW cfg \in BOOLEAN, NEW start \in BOOLEAN,
           NEW vsync \in BOOLEAN, NEW last \in BOOLEAN,
           Tick(cfg, start, vsync, last)
    PROVE  CountInv'
<1>1. curr_state' = "SYNC_CAPTURE" /\ init_done' /\ cnt' = 0
  BY PhaseClock, TransferClock
<1>2. ~ProcessingNow
  BY DEF ProcessingNow
<1>3. /\ pixel_in_d1' = FALSE /\ curr_pixel' = FALSE
      /\ ref_mem' = ref_mem /\ ref_latch' = ref_mem[0] /\ ref_pixel' = ref_latch
      /\ diff_mem' = diff_mem
  BY <1>2, CompareClock DEF CountInv, LinesAtRest
<1>4. /\ diff_cnt' = diff_cnt + 0 /\ match_cnt' = match_cnt + 0
      /\ suspicion' = suspicion
  BY <1>2, CompareClock
<1>5. diff_cnt' = diff_cnt /\ match_cnt' = match_cnt
  BY <1>4 DEF IInv, TypeOK, DatapathTypeOK
<1>6. UNCHANGED <<before, now, compared>>
  BY DEF Tick, RecordFrame, historyVars
<1> USE <1>1, <1>3, <1>4, <1>5, <1>6 DEF CountInv
<1>7. LinesAtRest'
  BY DEF LinesAtRest
<1>8. PixelLine'
  <2>1. LitBehind(3)' = FALSE /\ LitBehind(4)' = FALSE
    BY DEF LitBehind
  <2>2. Behind(3)' = 0 /\ Behind(4)' = 0
    BY DEF Behind
  <2> QED
    BY <2>1, <2>2 DEF PixelLine, LinesAtRest
<1>9. DiffLine'
  BY DEF DiffLine
<1>10. DiffMemory'
  BY DEF DiffMemory
<1>11. HistoryShape'
  BY DEF HistoryShape
<1>12. CountsSoFar'
  BY DEF CountsSoFar
<1> QED
  BY <1>7, <1>8, <1>9, <1>10, <1>11, <1>12

\* In the first clock of a transfer the state machine sees the frame begin.
LEMMA AtFrameHead ==
    ASSUME IInv, CountInv, init_done, curr_state = "SYNC_CAPTURE", transfer,
           NEW cfg \in BOOLEAN, NEW start \in BOOLEAN,
           NEW vsync \in BOOLEAN, NEW last \in BOOLEAN,
           Tick(cfg, start, vsync, last)
    PROVE  CountInv'
<1>1. /\ cnt = 0 /\ cnt' = 1 /\ transfer' /\ frame' = frame
      /\ curr_state' = "START_FRAME" /\ init_done'
  <2>1. cnt = 0 /\ curr_state' = "START_FRAME" /\ init_done'
    BY PhaseClock
  <2>2. \/ cnt' = cnt + 1 /\ transfer' /\ frame' = frame
        \/ cnt = FRAME_SIZE + 1
    BY TransferClock
  <2> QED
    BY <2>1, <2>2, FrameSizeAssumption
<1>2. ~ProcessingNow
  BY DEF ProcessingNow
<1>3. /\ ~pixel_in_d1' /\ ~curr_pixel' /\ pixel_in_d1' \in BOOLEAN /\ curr_pixel' \in BOOLEAN
      /\ ref_mem' = ref_mem /\ ref_latch' = ref_mem[0] /\ ref_pixel' = ref_latch
      /\ diff_mem' = diff_mem /\ diff_latch' = diff_mem[0]
      /\ diff_pixel_d1' = (ref_pixel # curr_pixel)
  BY <1>2, CompareClock
<1>4. /\ diff_cnt' = diff_cnt + 0 /\ match_cnt' = match_cnt + 0
      /\ suspicion' = suspicion
  BY <1>2, CompareClock
<1>5. diff_cnt' = diff_cnt /\ match_cnt' = match_cnt
  BY <1>4 DEF IInv, TypeOK, DatapathTypeOK
<1>6. UNCHANGED <<before, now, compared>>
  BY DEF Tick, RecordFrame, historyVars
<1>7. Comparing /\ Behind(2) = 0 /\ Behind(3) = 0
  BY <1>1 DEF Comparing, Behind
<1>8. diff_pixel_d1' = DiffImage(ref_mem, frame)[0]
  BY <1>1, <1>3, <1>7, DifferenceFound, FrameSizeAssumption DEF CountInv
<1>9. DiffImage(ref_mem, frame)' = DiffImage(ref_mem, frame)
  BY <1>1, <1>3
<1>10. ref_latch = ref_mem[0]
  BY <1>7 DEF CountInv, PixelLine
<1>11. LinesAtRest'
  BY <1>1 DEF LinesAtRest
<1>12. PixelLine'
  BY <1>1, <1>3, <1>10 DEF PixelLine, LitBehind, Behind
<1>13. DiffLine'
  BY <1>1, <1>3, <1>8, <1>9 DEF DiffLine
<1>14. DiffMemory'
  BY <1>1, <1>3, <1>6 DEF CountInv, DiffMemory
<1>15. HistoryShape'
  BY <1>1, <1>4, <1>6 DEF CountInv, HistoryShape
<1>16. CountsSoFar'
  BY <1>1, <1>5, <1>6 DEF CountInv, CountsSoFar
<1> QED
  BY <1>11, <1>12, <1>13, <1>14, <1>15, <1>16 DEF CountInv

\* In the second the frame before is judged and the counters are cleared.
LEMMA AtJudgement ==
    ASSUME IInv, CountInv, curr_state = "START_FRAME",
           NEW cfg \in BOOLEAN, NEW start \in BOOLEAN,
           NEW vsync \in BOOLEAN, NEW last \in BOOLEAN,
           Tick(cfg, start, vsync, last)
    PROVE  CountInv'
<1> USE FrameSizeAssumption
<1>1. /\ cnt = 1 /\ cnt' = 2 /\ transfer' /\ frame' = frame /\ init_done
      /\ curr_state' = "PROC_FRAME" /\ init_done'
  BY PhaseClock, TransferClock
<1>2. ~ProcessingNow
  BY DEF ProcessingNow
<1>3. /\ ~pixel_in_d1' /\ ~curr_pixel' /\ pixel_in_d1' \in BOOLEAN /\ curr_pixel' \in BOOLEAN
      /\ ref_mem' = ref_mem /\ ref_latch' = ref_mem[0] /\ ref_pixel' = ref_latch
      /\ diff_mem' = diff_mem /\ diff_latch' = diff_mem[0] /\ prev_diff_pixel' = diff_latch
      /\ diff_pixel_d1' = (ref_pixel # curr_pixel) /\ diff_pixel_d2' = diff_pixel_d1
  BY <1>1, <1>2, CompareClock
<1>4. diff_cnt' = 0 /\ match_cnt' = 0
  BY <1>1, CompareClock DEF JudgeFrame
<1>5. /\ before' = diff_mem /\ now' = DiffImage(ref_mem, frame) /\ compared'
  BY <1>1 DEF Tick, RecordFrame, CountInv, DiffMemory
<1>6. Comparing /\ Behind(2) = 0 /\ Behind(3) = 0
  BY <1>1 DEF Comparing, Behind
<1>7. diff_pixel_d1' = now'[0] /\ diff_pixel_d2' = now'[0]
  BY <1>1, <1>3, <1>5, <1>6, DifferenceFound DEF CountInv, DiffLine
<1>8. diff_latch' = before'[0] /\ prev_diff_pixel' = before'[0]
  BY <1>3, <1>5 DEF CountInv, DiffLine
<1>9. DiffImage(ref_mem, frame)' = DiffImage(ref_mem, frame)
  BY <1>1, <1>3
<1>10. LinesAtRest'
  BY <1>1 DEF LinesAtRest
<1>11. PixelLine'
  <2>1. ref_latch = ref_mem[0]
    BY <1>6 DEF CountInv, PixelLine
  <2> QED
    BY <1>1, <1>3, <2>1 DEF PixelLine, LitBehind, Behind
<1>12. DiffLine'
  BY <1>1, <1>5, <1>7, <1>8, <1>9 DEF DiffLine, Behind
<1>13. DiffMemory'
  <2>1. ~now'[FRAME_SIZE - 1]
    BY <1>5 DEF DiffImage, Address
  <2>2. \A a \in Address : ~(a <= cnt' - 3)
    BY <1>1 DEF Address
  <2> QED
    BY <1>1, <1>3, <1>5, <2>1, <2>2 DEF CountInv, DiffMemory
<1>14. HistoryShape'
  BY <1>1, <1>5 DEF HistoryShape
<1>15. CountsSoFar'
  <2>1. Ones(now', cnt' - 2) = 0 /\ Ones(Both(now', before'), 0) = 0
    BY <1>1, OnesOfNone
  <2>2. Behind(4)' = 0
    BY <1>1 DEF Behind
  <2> QED
    BY <1>1, <1>4, <2>1, <2>2 DEF CountsSoFar
<1> QED
  BY <1>10, <1>11, <1>12, <1>13, <1>14, <1>15 DEF CountInv

\* From then on every clock compares one address.
LEMMA WhileComparing ==
    ASSUME IInv, CountInv, ProcessingNow,
           NEW cfg \in BOOLEAN, NEW start \in BOOLEAN,
           NEW vsync \in BOOLEAN, NEW last \in BOOLEAN,
           Tick(cfg, start, vsync, last)
    PROVE  CountInv'
<1> USE FrameSizeAssumption
<1>1. /\ cnt \in 2 .. FRAME_SIZE /\ cnt' = cnt + 1 /\ transfer' /\ frame' = frame /\ init_done
      /\ curr_state = "PROC_FRAME" /\ curr_state' = "PROC_FRAME" /\ init_done'
  BY PhaseClock, TransferClock DEF ProcessingNow
<1> DEFINE addr == cnt - 2
<1>2. /\ pixel_in_d1' = susp_pixel_in /\ curr_pixel' = pixel_in_d1
      /\ ref_mem' = ref_mem /\ ref_latch' = ref_mem[addr] /\ ref_pixel' = ref_latch
      /\ diff_mem' = [diff_mem EXCEPT ![addr] = (ref_pixel # curr_pixel)]
      /\ diff_latch' = diff_mem[addr] /\ prev_diff_pixel' = diff_latch
      /\ diff_pixel_d1' = (ref_pixel # curr_pixel) /\ diff_pixel_d2' = diff_pixel_d1
  <2>1. /\ pixel_in_d1' = (susp_pixel_in /\ TRUE) /\ curr_pixel' = (pixel_in_d1 /\ TRUE)
        /\ ref_mem' = ref_mem /\ ref_latch' = ref_mem[addr] /\ ref_pixel' = ref_latch
        /\ diff_mem' = [diff_mem EXCEPT ![addr] = (ref_pixel # curr_pixel)]
        /\ diff_latch' = diff_mem[addr] /\ prev_diff_pixel' = diff_latch
        /\ diff_pixel_d1' = (ref_pixel # curr_pixel) /\ diff_pixel_d2' = diff_pixel_d1
    BY <1>1, CompareClock
  <2>2. pixel_in_d1 \in BOOLEAN /\ susp_pixel_in \in BOOLEAN
    BY DEF IInv, TypeOK, DatapathTypeOK, susp_pixel_in
  <2> QED
    BY <2>1, <2>2
<1>3. /\ diff_cnt' = diff_cnt + IF ref_pixel # curr_pixel THEN 1 ELSE 0
      /\ match_cnt' = match_cnt + IF diff_pixel_d2 /\ prev_diff_pixel THEN 1 ELSE 0
      /\ suspicion' = suspicion
  BY <1>1, CompareClock
<1>4. UNCHANGED <<before, now, compared>>
  BY <1>1 DEF Tick, RecordFrame, historyVars
<1>5. /\ now \in [Address -> BOOLEAN] /\ before \in [Address -> BOOLEAN]
      /\ diff_mem \in [Address -> BOOLEAN] /\ diff_cnt \in Nat /\ match_cnt \in Nat
  BY DEF IInv, TypeOK, DatapathTypeOK
<1>6. /\ Comparing /\ Behind(2) = addr /\ addr \in Address
      /\ Behind(3)' = addr /\ Behind(4)' = Behind(3)
  BY <1>1 DEF Comparing, Behind, Address
<1>7. now = DiffImage(ref_mem, frame) /\ now' = DiffImage(ref_mem, frame)'
  BY <1>1, <1>2, <1>4 DEF CountInv, DiffLine
<1>8. (ref_pixel # curr_pixel) = now[addr]
  BY <1>1, <1>6, <1>7, DifferenceFound DEF CountInv
<1>9. LinesAtRest'
  BY <1>1 DEF LinesAtRest
<1>10. PixelLine'
  <2>1. susp_pixel_in = (frame[addr] \in Bright)
    <3>1. buffered_capture_pixel = frame[addr]
      BY <1>1 DEF IInv, ReadAhead
    <3> QED
      BY <3>1, Zenon DEF susp_pixel_in, obj_det_pixel
  <2>2. LitBehind(3)' = (frame[addr] \in Bright)
    BY <1>1 DEF LitBehind
  <2>3. LitBehind(4)' = LitBehind(3)
    BY <1>1 DEF LitBehind
  <2>4. pixel_in_d1 = LitBehind(3) /\ ref_latch = ref_mem[Behind(3)]
    BY <1>6 DEF CountInv, PixelLine
  <2>5. pixel_in_d1' = LitBehind(3)' /\ curr_pixel' = LitBehind(4)'
    BY <1>2, <2>1, <2>2, <2>3, <2>4
  <2> QED
    BY <1>2, <1>6, <2>4, <2>5 DEF PixelLine
<1>11. DiffLine'
  <2>1. diff_pixel_d1' = now[addr] /\ diff_pixel_d2' = now[Behind(3)]
    BY <1>1, <1>2, <1>8 DEF CountInv, DiffLine
  <2>2. diff_latch' = before[addr] /\ prev_diff_pixel' = before[Behind(3)]
    BY <1>1, <1>2, <1>6 DEF CountInv, DiffLine, DiffMemory
  <2> QED
    BY <1>1, <1>4, <1>6, <1>7, <2>1, <2>2 DEF DiffLine
<1>12. DiffMemory'
  <2>1. ~diff_mem'[FRAME_SIZE - 1]
    BY <1>1, <1>2, <1>5 DEF CountInv, DiffMemory, Address
  <2>2. ASSUME NEW a \in Address
        PROVE  diff_mem'[a] = IF a <= cnt' - 3 THEN now[a] ELSE before[a]
    <3>1. CASE a = addr
      BY <1>1, <1>2, <1>5, <1>8, <3>1
    <3>2. CASE a # addr
      <4>1. diff_mem'[a] = diff_mem[a]
        BY <1>2, <1>5, <3>2
      <4>2. diff_mem[a] = IF a <= cnt - 3 THEN now[a] ELSE before[a]
        BY <1>1 DEF CountInv, DiffMemory
      <4>3. a <= cnt' - 3 <=> a <= cnt - 3
        BY <1>1, <3>2 DEF Address
      <4> QED
        BY <4>1, <4>2, <4>3
    <3> QED
      BY <3>1, <3>2
  <2> QED
    BY <1>1, <1>4, <2>1, <2>2 DEF CountInv, DiffMemory
<1>13. HistoryShape'
  BY <1>1, <1>3, <1>4 DEF CountInv, HistoryShape
<1>14. CountsSoFar'
  <2>1. diff_cnt' = Ones(now, cnt' - 2)
    <3>1. diff_cnt = Ones(now, addr)
      BY <1>1 DEF CountInv, CountsSoFar
    <3>2. cnt' - 2 = addr + 1
      BY <1>1
    <3> QED
      BY <1>3, <1>5, <1>6, <1>8, <3>1, <3>2, OnesStep
  <2> DEFINE both == Both(now, before)
             weight(n) == IF now[0] /\ before[0] THEN (IF n >= 4 THEN 2 ELSE n - 2) ELSE 0
  <2>2. both \in [Address -> BOOLEAN]
    BY <1>5 DEF Both
  <2>3. match_cnt = Ones(both, Behind(4)) + weight(cnt)
    BY <1>1 DEF CountInv, CountsSoFar
  <2>4. (diff_pixel_d2 /\ prev_diff_pixel) = both[Behind(4)] /\ Behind(4) \in Address
    <3>1. Behind(4) \in Address
      BY <1>1 DEF Behind, Address
    <3> QED
      BY <1>1, <1>5, <3>1 DEF CountInv, DiffLine, Both
  <2>5. match_cnt' = match_cnt + IF both[Behind(4)] THEN 1 ELSE 0
    BY <1>3, <2>4
  <2>6. match_cnt' = Ones(both, Behind(4)') + weight(cnt')
    <3>1. CASE cnt >= 4
      <4>1. Behind(4) = cnt - 4 /\ Behind(4)' = Behind(4) + 1 /\ weight(cnt') = weight(cnt)
        BY <1>1, <3>1 DEF Behind
      <4>2. /\ Ones(both, Behind(4) + 1)
                 = Ones(both, Behind(4)) + IF both[Behind(4)] THEN 1 ELSE 0
            /\ Ones(both, Behind(4)) \in Nat
        BY <2>2, <2>4, OnesStep
      <4>3. weight(cnt) \in Nat
        BY <1>1, <3>1
      <4> HIDE DEF weight, both
      <4> QED
        BY <2>3, <2>5, <4>1, <4>2, <4>3
    <3>2. CASE ~(cnt >= 4)
      <4>1. Behind(4) = 0 /\ Behind(4)' = 0 /\ 0 \in Address
        BY <1>1, <3>2 DEF Behind, Address
      <4>2. Ones(both, 0) = 0
        BY OnesOfNone
      <4>3. both[0] = (now[0] /\ before[0])
        BY <4>1 DEF Both
      <4>4. weight(cnt') = weight(cnt) + (IF now[0] /\ before[0] THEN 1 ELSE 0)
            /\ weight(cnt) \in Nat
        BY <1>1, <3>2
      <4>5. (IF both[0] THEN 1 ELSE 0) = (IF now[0] /\ before[0] THEN 1 ELSE 0)
        BY <4>3
      <4> HIDE DEF weight, both
      <4>6. match_cnt = weight(cnt)
        BY <2>3, <4>1, <4>2, <4>4
      <4>7. match_cnt' = weight(cnt')
        BY <2>5, <4>1, <4>4, <4>5, <4>6
      <4>8. weight(cnt') \in Nat
        BY <4>4
      <4> QED
        BY <4>1, <4>2, <4>7, <4>8
    <3> QED
      BY <3>1, <3>2
  <2> QED
    BY <1>1, <1>4, <2>1, <2>6 DEF CountsSoFar
<1> QED
  BY <1>9, <1>10, <1>11, <1>12, <1>13, <1>14 DEF CountInv

\* The last clock of a transfer leaves the image of the frame in the memory, and
\* its scores in the counters.
LEMMA AtFrameEnd ==
    ASSUME IInv, CountInv, curr_state = "PROC_FRAME", ~ProcessingNow,
           NEW cfg \in BOOLEAN, NEW start \in BOOLEAN,
           NEW vsync \in BOOLEAN, NEW last \in BOOLEAN,
           Tick(cfg, start, vsync, last)
    PROVE  CountInv'
<1> USE FrameSizeAssumption
<1>1. /\ cnt = FRAME_SIZE + 1 /\ cnt' = 0 /\ ~transfer' /\ init_done
      /\ curr_state' = "SYNC_CAPTURE" /\ init_done'
  BY PhaseClock, TransferClock DEF ProcessingNow
<1>2. /\ ~pixel_in_d1'
      /\ ref_mem' = ref_mem /\ ref_latch' = ref_mem[0]
      /\ diff_mem' = diff_mem
  BY <1>1, CompareClock
<1>3. /\ diff_cnt' = diff_cnt + 0 /\ match_cnt' = match_cnt + 0
      /\ suspicion' = suspicion
  BY <1>1, CompareClock
<1>4. UNCHANGED <<before, now, compared>>
  BY <1>1 DEF Tick, RecordFrame, historyVars
<1>5. /\ now \in [Address -> BOOLEAN] /\ before \in [Address -> BOOLEAN]
      /\ diff_mem \in [Address -> BOOLEAN] /\ diff_cnt \in Nat /\ match_cnt \in Nat
  BY DEF IInv, TypeOK, DatapathTypeOK
<1>6. LinesAtRest' /\ PixelLine' /\ DiffLine'
  BY <1>1, <1>2 DEF LinesAtRest, PixelLine, Comparing, DiffLine
<1>7. diff_mem = now /\ compared
  <2>1. ~now[FRAME_SIZE - 1] /\ ~diff_mem[FRAME_SIZE - 1] /\ FRAME_SIZE - 1 \in Address
    BY DEF CountInv, DiffMemory, Address
  <2>2. ASSUME NEW a \in Address PROVE diff_mem[a] = now[a]
    <3>1. CASE a = FRAME_SIZE - 1
      BY <1>5, <2>1, <3>1
    <3>2. CASE a # FRAME_SIZE - 1
      <4>1. a <= cnt - 3
        BY <1>1, <3>2 DEF Address
      <4> QED
        BY <1>1, <4>1 DEF CountInv, DiffMemory
    <3> QED
      BY <3>1, <3>2
  <2> QED
    BY <1>5, <2>2 DEF CountInv, HistoryShape
<1>8. DiffMemory'
  BY <1>1, <1>2, <1>4, <1>7 DEF CountInv, DiffMemory
<1>9. HistoryShape'
  BY <1>1, <1>3, <1>4, <1>7 DEF CountInv, HistoryShape
<1>10. diff_cnt = DiffScore(now) /\ match_cnt = MatchScore(now, before)
  <2>1. cnt - 2 = FRAME_SIZE - 1 /\ Behind(4) = FRAME_SIZE - 3 /\ cnt >= 4
    BY <1>1 DEF Behind
  <2>2. /\ diff_cnt = Ones(now, FRAME_SIZE - 1)
        /\ match_cnt = Ones(Both(now, before), FRAME_SIZE - 3)
                         + IF now[0] /\ before[0] THEN 2 ELSE 0
    BY <2>1 DEF CountInv, CountsSoFar
  <2> QED
    BY <1>5, <2>2, ScoresAreCounts DEF CountInv, DiffMemory
<1>11. CountsSoFar'
  BY <1>1, <1>3, <1>4, <1>5, <1>10 DEF CountsSoFar
<1> QED
  BY <1>6, <1>8, <1>9, <1>11 DEF CountInv

-----------------------------------------------------------------------------
\* The invariant at power-up, under every step, and in every reachable state.
LEMMA InitCountInv == Init => CountInv
<1> SUFFICES ASSUME Init PROVE CountInv
  OBVIOUS
<1> USE FrameSizeAssumption DEF Init, ControlInit, DatapathInit
<1>1. ~Blank[FRAME_SIZE - 1]
  BY DEF Blank, Address
<1> QED
  BY <1>1 DEF CountInv, LinesAtRest, PixelLine, Comparing, DiffLine, DiffMemory,
              HistoryShape, CountsSoFar

LEMMA TickCountInv ==
    ASSUME IInv, CountInv,
           NEW cfg \in BOOLEAN, NEW start \in BOOLEAN,
           NEW vsync \in BOOLEAN, NEW last \in BOOLEAN,
           Tick(cfg, start, vsync, last)
    PROVE  CountInv'
<1>1. CASE ~init_done
  BY <1>1, BeforeCapture, AtCapture
<1>2. CASE init_done /\ curr_state = "SYNC_CAPTURE"
  BY <1>2, WhileWaiting, AtFrameHead
<1>3. CASE curr_state = "START_FRAME"
  BY <1>3, AtJudgement
<1>4. CASE curr_state = "PROC_FRAME"
  BY <1>4, WhileComparing, AtFrameEnd
<1> QED
  BY <1>1, <1>2, <1>3, <1>4, PhaseClock

\* A reset forgets the frames, and leaves the last address of the memory alone.
LEMMA ResetCountInv == ASSUME IInv, CountInv, Reset PROVE CountInv'
<1> USE FrameSizeAssumption DEF Reset, ControlReset, DatapathReset
<1>1. ~Blank[FRAME_SIZE - 1]
  BY DEF Blank, Address
<1> QED
  BY <1>1 DEF CountInv, LinesAtRest, PixelLine, Comparing, DiffLine, DiffMemory,
              HistoryShape, CountsSoFar, diffVars, ClearCounters

\* The threshold plays no part in it.
LEMMA RetuneCountInv ==
    ASSUME CountInv,
           UNCHANGED <<downsamplerVars, controlVars, delayVars, refVars, diffVars,
                       counterVars, historyVars>>
    PROVE  CountInv'
<1> USE DEF downsamplerVars, controlVars, delayVars, refVars, diffVars, counterVars,
            historyVars
<1>1. LinesAtRest' /\ PixelLine' /\ DiffLine' /\ DiffMemory' /\ HistoryShape' /\ CountsSoFar'
  <2>1. LinesAtRest'
    BY DEF CountInv, LinesAtRest
  <2>2. PixelLine'
    BY DEF CountInv, PixelLine, Comparing, LitBehind, Behind
  <2>3. DiffLine'
    BY DEF CountInv, DiffLine, Behind
  <2>4. DiffMemory' /\ HistoryShape'
    BY DEF CountInv, DiffMemory, HistoryShape
  <2>5. CountsSoFar'
    BY DEF CountInv, CountsSoFar, Behind
  <2> QED
    BY <2>1, <2>2, <2>3, <2>4, <2>5
<1> QED
  BY <1>1 DEF CountInv

LEMMA NextCountInv == IInv /\ CountInv /\ [Next]_vars => CountInv'
<1> SUFFICES ASSUME IInv, CountInv, [Next]_vars PROVE CountInv'
  OBVIOUS
<1>1. CASE Clock
  BY <1>1, ClockIsTick, TickCountInv
<1>2. ASSUME NEW t \in SuspicionThresholds, WriteSuspicionThres(t)
      PROVE  CountInv'
  BY <1>2, RetuneCountInv DEF WriteSuspicionThres
<1>3. CASE Reset
  BY <1>3, ResetCountInv
<1>4. CASE UNCHANGED vars
  BY <1>4, RetuneCountInv DEF vars, datapathVars
<1> QED
  BY <1>1, <1>2, <1>3, <1>4 DEF Next

LEMMA SpecCountInv == Spec => []CountInv
BY InitCountInv, NextCountInv, SpecIInv, PTL DEF Spec

\* A frame is judged by the counters of whole difference images: the delays of
\* the pipeline, the gating by the write enables and the order in which the
\* difference memory is read and overwritten cancel out for every frame size.
THEOREM CountersAreOfWholeFrames == Spec => []CountersMatchFrames
<1>1. IInv /\ CountInv => CountersMatchFrames
  BY DEF IInv, Lockstep, CountInv, CountsSoFar, CountersMatchFrames
<1> QED
  BY <1>1, SpecIInv, SpecCountInv, PTL

-----------------------------------------------------------------------------
\* The refinement.  A clock is a judgement of the watcher when the machine
\* starts a frame, learning when the reference is declared captured, and
\* nothing otherwise.

\* The level has SUSPICION_RANGE values; it can only reach a smaller threshold.
ThresholdsInRange == \A t \in SuspicionThresholds : t < SUSPICION_RANGE

\* The reference as the watcher knows it.
Learned == IF init_done THEN ref_mem ELSE Blank

\* The detector's image of a frame is the watcher's, when both have the same
\* reference.
LEMMA SameImage ==
    ASSUME IInv, init_done
    PROVE  DiffImage(ref_mem, frame) = Watcher!Image(frame)
<1>1. ref_mem[0] \in BOOLEAN
  BY FrameSizeAssumption DEF IInv, TypeOK, DatapathTypeOK, Address
<1>2. ASSUME NEW a \in Address
      PROVE  DiffImage(ref_mem, frame)[a] = Watcher!Image(frame)[a]
  <2>1. CASE a = FRAME_SIZE - 1
    BY <2>1 DEF DiffImage, Watcher!Image, Watcher!Address, Address
  <2>2. CASE a # FRAME_SIZE - 1 /\ a < 2
    <3>1. DiffImage(ref_mem, frame)[a] = ref_mem[0]
      BY <2>2 DEF DiffImage
    <3>2. ~(a >= 2)
      BY <2>2 DEF Address
    <3>3. Watcher!Image(frame)[a] = (ref_mem[0] # FALSE)
      BY <2>2, <3>2 DEF Watcher!Image, Watcher!Address, Address
    <3> QED
      BY <1>1, <3>1, <3>3
  <2>3. CASE a # FRAME_SIZE - 1 /\ a >= 2
    <3>1. ~(a < 2)
      BY <2>3 DEF Address
    <3> QED
      BY <2>3, <3>1 DEF DiffImage, Watcher!Image, Watcher!Address, Address
  <2> QED
    BY <2>1, <2>2, <2>3 DEF Address
<1> QED
  BY <1>2 DEF DiffImage, Watcher!Image, Watcher!Address, Address

\* The watcher counts a set as the detector does.
LEMMA SameCount == ASSUME NEW S PROVE Watcher!Cardinality(S) = Cardinality(S)
BY DEF Watcher!Cardinality, Cardinality

\* The detector judges a frame as the watcher does, by the same scores.
LEMMA SameJudgement ==
    ASSUME IInv, CountInv, curr_state = "START_FRAME"
    PROVE  /\ object_detected <=> Watcher!Object(now)
           /\ frame_match <=> Watcher!Object(now) /\ Watcher!Still(now, before)
<1> DEFINE same == {a \in 0 .. FRAME_SIZE - 4 : now[a] /\ before[a]}
<1>1. init_done
  BY DEF IInv, Lockstep
<1>2. diff_cnt = DiffScore(now) /\ match_cnt = MatchScore(now, before)
  BY <1>1 DEF CountInv, CountsSoFar
<1>3. object_detected <=> Watcher!Object(now)
  BY <1>2, SameCount
     DEF object_detected, DiffScore, Watcher!Object, Watcher!Address, Address
<1>4. 0 \in same <=> now[0] /\ before[0]
  BY FrameSizeAssumption
<1>5. MatchScore(now, before) = Cardinality(same) + IF 0 \in same THEN 2 ELSE 0
  BY <1>4 DEF MatchScore
<1>6. match_cnt > static_thres <=> Watcher!Still(now, before)
  BY <1>2, <1>5, SameCount DEF Watcher!Still
<1> QED
  BY <1>3, <1>6 DEF frame_match

\* A frame shown is one the camera can see.
LEMMA FrameIsScene == Spec => [](frame \in Scenes)
<1>1. Init => frame \in Scenes
  BY DEF Init, DownsamplerInit
<1>2. (frame \in Scenes) /\ [Next]_vars => (frame \in Scenes)'
  <2> SUFFICES ASSUME frame \in Scenes, [Next]_vars PROVE frame' \in Scenes
    OBVIOUS
  <2>1. CASE Clock
    BY <2>1, ClockIsTick DEF Tick, DownsamplerStep, BeginTransfer, ShiftPixel,
                             EndTransfer, AwaitFrame
  <2>2. CASE \E t \in SuspicionThresholds : WriteSuspicionThres(t)
    BY <2>2 DEF WriteSuspicionThres, downsamplerVars
  <2>3. CASE Reset
    BY <2>3 DEF Reset, DownsamplerReset
  <2>4. CASE UNCHANGED vars
    BY <2>4 DEF vars, downsamplerVars
  <2> QED
    BY <2>1, <2>2, <2>3, <2>4 DEF Next
<1> QED
  BY <1>1, <1>2, PTL DEF Spec

\* Where the watcher starts, the detector does.
LEMMA InitWatches == Init => Watcher!WatchInit
BY DEF Init, ControlInit, DatapathInit, Blank, Address,
       Watcher!WatchInit, Watcher!Nothing, Watcher!Address

\* A tick is a step of the watcher or a stutter.
LEMMA TickWatches ==
    ASSUME IInv, CountInv, frame \in Scenes, ThresholdsInRange,
           NEW cfg \in BOOLEAN, NEW start \in BOOLEAN,
           NEW vsync \in BOOLEAN, NEW last \in BOOLEAN,
           Tick(cfg, start, vsync, last)
    PROVE  \/ Watcher!Learn
           \/ Watcher!Watch
           \/ UNCHANGED Watcher!watchVars
<1> USE FrameSizeAssumption
<1>1. suspicion_thres' = suspicion_thres
  BY DEF Tick, DatapathStep
<1>2. Watcher!Nothing = Blank /\ Watcher!Address = Address
  BY DEF Watcher!Nothing, Watcher!Address, Blank, Address
<1>3. CASE ~init_done /\ ~init_done'
  <2>1. before' = Blank /\ now' = Blank /\ compared' = FALSE /\ suspicion' = 0
    BY <1>3, CaptureClock DEF Tick, RecordFrame, ClearCounters
  <2>2. before = Blank /\ now = Blank /\ compared = FALSE /\ suspicion = 0
    BY <1>3 DEF CountInv, HistoryShape, IInv, TypeOK
  <2>3. init_done' = init_done
    BY <1>3, PhaseClock DEF IInv, TypeOK, ControlTypeOK, Tick, ControlStep, CameraConfigured,
       StartRequested, FrameBegins, ReferenceCaptured, FrameStarted, FrameProcessed,
       HoldState, controlVars
  <2> QED
    BY <1>1, <1>3, <2>1, <2>2, <2>3 DEF Watcher!watchVars
<1>4. CASE ~init_done /\ init_done'
  <2>1. before' = diff_mem /\ now' = Blank /\ compared' = FALSE /\ suspicion' = 0
    BY <1>4, CaptureClock DEF Tick, RecordFrame, ClearCounters
  <2>2. now = Blank /\ compared = FALSE /\ suspicion = 0
    BY <1>4 DEF CountInv, HistoryShape, IInv, TypeOK
  <2>3. curr_state = "CAPTURE_REF" /\ cnt = FRAME_SIZE + 1
    BY <1>4, PhaseClock
  <2>4. diff_mem \in [Address -> BOOLEAN] /\ ref_mem' \in [Address -> BOOLEAN]
    BY <1>4, <2>3, CaptureClock DEF IInv, TypeOK, DatapathTypeOK
  <2>5. \A a \in 1 .. FRAME_SIZE - 1 : ~diff_mem[a]
    BY <2>3 DEF CountInv, DiffMemory
  <2>6. diff_mem = [Blank EXCEPT ![0] = diff_mem[0]] /\ diff_mem[0] \in BOOLEAN
    <3>1. \A a \in Address : a = 0 \/ a \in 1 .. FRAME_SIZE - 1
      BY DEF Address
    <3>2. \A a \in Address : diff_mem[a] = IF a = 0 THEN diff_mem[0] ELSE FALSE
      BY <2>4, <2>5, <3>1
    <3>3. 0 \in Address
      BY DEF Address
    <3> QED
      BY <2>4, <3>2, <3>3 DEF Blank
  <2>7. init_done' = TRUE /\ init_done = FALSE
    BY <1>4, <2>3, TickIInv DEF IInv, TypeOK, ControlTypeOK
  <2> QED
    BY <1>1, <1>2, <2>1, <2>2, <2>4, <2>6, <2>7 DEF Watcher!Learn
<1>5. CASE curr_state = "START_FRAME"
  <2>1. init_done /\ init_done' /\ ref_mem' = ref_mem
    BY <1>5, PhaseClock, CompareClock
  <2>2. /\ before' = IF compared THEN now ELSE before
        /\ now' = DiffImage(ref_mem, frame)
        /\ compared' = TRUE
    BY <1>5, <2>1 DEF Tick, RecordFrame
  <2>3. now' \in {Watcher!Image(f) : f \in Scenes}
    BY <2>1, <2>2, SameImage
  <2>4. suspicion' = IF frame_match THEN Raise ELSE 0
    BY <1>5, <2>1, CompareClock DEF JudgeFrame
  <2>5. Raise = IF suspicion < suspicion_thres THEN suspicion + 1 ELSE suspicion
    <3>1. suspicion \in Nat /\ suspicion_thres \in Nat /\ suspicion_thres < SUSPICION_RANGE
          /\ SUSPICION_RANGE \in Nat
      BY ThresholdAssumption DEF IInv, TypeOK, DatapathTypeOK, ThresholdsInRange
    <3> QED
      BY <3>1 DEF Raise
  <2>6. init_done' = init_done
    BY <2>1, TickIInv DEF IInv, TypeOK, ControlTypeOK
  <2>7. suspicion' = IF Watcher!Object(now) /\ Watcher!Still(now, before)
                       THEN IF suspicion < suspicion_thres THEN suspicion + 1 ELSE suspicion
                       ELSE 0
    BY <1>5, <2>4, <2>5, SameJudgement
  <2> QED
    BY <1>1, <2>1, <2>2, <2>3, <2>6, <2>7 DEF Watcher!Watch
<1>6. CASE init_done /\ curr_state # "START_FRAME"
  <2>1. suspicion' = suspicion /\ ref_mem' = ref_mem
    BY <1>6, CompareClock
  <2>2. UNCHANGED <<before, now, compared>>
    BY <1>6 DEF Tick, RecordFrame, historyVars
  <2>3. init_done' = init_done
    BY <1>6, PhaseClock, TickIInv DEF IInv, TypeOK, ControlTypeOK
  <2> QED
    BY <1>1, <2>1, <2>2, <2>3 DEF Watcher!watchVars
<1> QED
  BY <1>3, <1>4, <1>5, <1>6

\* So is every step: writing the threshold retunes the watcher, and a reset
\* makes it forget.
LEMMA NextWatches ==
    ASSUME IInv, CountInv, frame \in Scenes, ThresholdsInRange, [Next]_vars
    PROVE  [Watcher!WatchNext]_Watcher!watchVars
<1>1. CASE Clock
  BY <1>1, ClockIsTick, TickWatches DEF Watcher!WatchNext
<1>2. ASSUME NEW t \in SuspicionThresholds, WriteSuspicionThres(t)
      PROVE  Watcher!Retune
  BY <1>2 DEF WriteSuspicionThres, Watcher!Retune, controlVars, refVars, counterVars,
              historyVars
<1>3. CASE Reset
  BY <1>3 DEF Reset, ControlReset, DatapathReset, ClearCounters, Blank, Address,
              Watcher!WatchNext, Watcher!Forget, Watcher!Nothing, Watcher!Address
<1>4. CASE UNCHANGED vars
  BY <1>4 DEF vars, controlVars, datapathVars, refVars, counterVars, historyVars,
              Watcher!watchVars
<1> QED
  BY <1>1, <1>2, <1>3, <1>4 DEF Next, Watcher!WatchNext

\* The hardware, clock by clock, implements the watcher that judges one frame a
\* step: every run of it, resets and retuning included, is one of the watcher's,
\* as long as the thresholds are ones the level can reach.
THEOREM DetectorIsAWatcher == ThresholdsInRange => (Spec => ImplementsWatcher)
<1> SUFFICES ASSUME ThresholdsInRange PROVE Spec => ImplementsWatcher
  OBVIOUS
<1>1. Init => Watcher!WatchInit
  BY InitWatches
<1>2. IInv /\ CountInv /\ (frame \in Scenes) /\ [Next]_vars
        => [Watcher!WatchNext]_Watcher!watchVars
  BY NextWatches
<1> QED
  BY <1>1, <1>2, SpecIInv, SpecCountInv, FrameIsScene, PTL
     DEF Spec, ImplementsWatcher, Watcher!WatchSpec

=============================================================================
