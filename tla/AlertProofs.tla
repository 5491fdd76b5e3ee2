----------------------------- MODULE AlertProofs -----------------------------
(***************************************************************************)
(* An alarm freezes one whole frame, and that frame shows the object.       *)
(*                                                                         *)
(* The alarm rises and falls only in the second clock of a transfer, when   *)
(* the buffer has been written at address 0 alone; in any other clock the   *)
(* buffer holds the frame being transferred up to the address shown, and    *)
(* the last complete frame beyond it.  Both claims are for a threshold that *)
(* is left alone and is not zero: a write to it, or a zero, moves the alarm *)
(* to any clock.                                                            *)
(***************************************************************************)
EXTENDS AlertFrameBuffer, CounterProofs

ThresholdLeftAlone ==
    SuspicionThresholds = {DefaultSuspicionThres} /\ DefaultSuspicionThres > 0

BufferTypeOK ==
    downsampled \in [Address -> Pixel] /\ complete \in [Address -> Pixel]

\* Before the reference is captured there is no alarm.
QuietUntilCaptured ==
    ~init_done => ~suspicion_detected

\* The buffer behind the transfer, ahead of it, and frozen.
BufferFollowsTransfer ==
    /\ curr_state = "CAPTURE_REF" =>
         \A a \in 1 .. FRAME_SIZE - 1 : a <= cnt - 3 => downsampled[a] = frame[a]
    /\ init_done /\ ~suspicion_detected =>
         \A a \in 1 .. FRAME_SIZE - 1 :
            downsampled[a] = IF a <= cnt - 3 THEN frame[a] ELSE complete[a]
    /\ FrozenFrameIsWhole

\* The frame to be judged next is the last one the buffer received, and the one
\* an alarm is about is the one frozen.
JudgesCompleteFrame ==
    /\ /\ init_done /\ compared /\ ~suspicion_detected
       /\ curr_state \in {"SYNC_CAPTURE", "START_FRAME"}
       => now = DiffImage(ref_mem, complete)
    /\ FrozenFrameShowsObject

AlertInv ==
    /\ BufferTypeOK
    /\ QuietUntilCaptured
    /\ BufferFollowsTransfer
    /\ JudgesCompleteFrame

-----------------------------------------------------------------------------
\* A transfer under way keeps its frame, and its clock moves on or ends.
LEMMA TransferMoves ==
    ASSUME IInv, transfer,
           NEW cfg \in BOOLEAN, NEW start \in BOOLEAN,
           NEW vsync \in BOOLEAN, NEW last \in BOOLEAN,
           Tick(cfg, start, vsync, last)
    PROVE  /\ cnt' = IF cnt <= FRAME_SIZE THEN cnt + 1 ELSE 0
           /\ frame' = frame
<1>1. \/ cnt <= FRAME_SIZE /\ cnt' = cnt + 1 /\ frame' = frame
      \/ cnt = FRAME_SIZE + 1 /\ cnt' = 0 /\ frame' = frame
  BY TransferClock
<1> QED
  BY <1>1, FrameSizeAssumption

\* What an edge does to the buffer: beyond address 0 it writes the pixel two
\* behind cnt, unless the alarm is on.
LEMMA BufferClock ==
    ASSUME IInv, BufferTypeOK,
           NEW cfg \in BOOLEAN, NEW start \in BOOLEAN,
           NEW vsync \in BOOLEAN, NEW last \in BOOLEAN,
           Tick(cfg, start, vsync, last), StoreDownsampled, RecordComplete
    PROVE  /\ BufferTypeOK'
           /\ \A a \in 1 .. FRAME_SIZE - 1 :
                downsampled'[a] = IF transfer /\ ~suspicion_detected /\ a = cnt - 2
                                    THEN frame[a] ELSE downsampled[a]
<1> USE FrameSizeAssumption
<1>1. /\ cnt \in 0 .. FRAME_SIZE + 1
      /\ obj_det_addr = IF cnt >= 2 THEN cnt - 2 ELSE 0
      /\ obj_det_addr \in Address
      /\ obj_det_wren = transfer
  BY TransferClock
<1>2. /\ frame \in [Address -> Pixel] /\ obj_det_pixel \in Pixel
      /\ cnt >= 2 => obj_det_pixel = frame[cnt - 2]
  <2>1. frame \in [Address -> Pixel] /\ obj_det_pixel \in Pixel
    BY DEF IInv, TypeOK, DownsamplerTypeOK, obj_det_pixel
  <2>2. cnt >= 2 => obj_det_pixel = frame[cnt - 2]
    BY DEF IInv, ReadAhead, obj_det_pixel
  <2> QED
    BY <2>1, <2>2
<1>3. BufferTypeOK'
  BY <1>1, <1>2 DEF BufferTypeOK, StoreDownsampled, RecordComplete
<1>4. ASSUME NEW a \in 1 .. FRAME_SIZE - 1
      PROVE  downsampled'[a] = IF transfer /\ ~suspicion_detected /\ a = cnt - 2
                                 THEN frame[a] ELSE downsampled[a]
  <2>1. a \in Address
    BY DEF Address
  <2>2. obj_det_addr = a <=> a = cnt - 2
    BY <1>1
  <2>3. CASE transfer /\ ~suspicion_detected
    <3>1. downsampled' = [downsampled EXCEPT ![obj_det_addr] = obj_det_pixel]
      BY <1>1, <2>3 DEF StoreDownsampled, frame_bram_wren
    <3> QED
      BY <1>1, <1>2, <2>1, <2>2, <2>3, <3>1 DEF BufferTypeOK
  <2>4. CASE ~(transfer /\ ~suspicion_detected)
    BY <1>1, <2>4 DEF StoreDownsampled, frame_bram_wren
  <2> QED
    BY <2>3, <2>4
<1> QED
  BY <1>3, <1>4

\* What it does to the alarm: nothing before the reference is captured, nothing
\* short of a judgement after it, and a judgement that leaves the alarm on has
\* found an object in the frame it was about.
LEMMA AlarmClock ==
    ASSUME IInv, CountInv, ThresholdLeftAlone,
           NEW cfg \in BOOLEAN, NEW start \in BOOLEAN,
           NEW vsync \in BOOLEAN, NEW last \in BOOLEAN,
           Tick(cfg, start, vsync, last)
    PROVE  /\ ~init_done => ~suspicion_detected'
           /\ init_done /\ curr_state # "START_FRAME" =>
                suspicion_detected' = suspicion_detected
           /\ curr_state = "START_FRAME" /\ suspicion_detected' =>
                compared /\ DiffScore(now) > object_thres
<1>1. /\ suspicion_thres' = suspicion_thres
      /\ suspicion_thres \in Nat /\ suspicion_thres > 0
  BY ThresholdAssumption
     DEF IInv, TypeOK, DatapathTypeOK, ThresholdLeftAlone, Tick, DatapathStep
<1>2. ~init_done => ~suspicion_detected'
  BY <1>1, CaptureClock DEF ClearCounters, suspicion_detected
<1>3. init_done /\ curr_state # "START_FRAME" => suspicion_detected' = suspicion_detected
  <2> SUFFICES ASSUME init_done, curr_state # "START_FRAME"
               PROVE  suspicion_detected' = suspicion_detected
    OBVIOUS
  <2>1. suspicion' = suspicion
    BY CompareClock
  <2> QED
    BY <1>1, <2>1 DEF suspicion_detected
<1>4. ASSUME curr_state = "START_FRAME", suspicion_detected'
      PROVE  compared /\ DiffScore(now) > object_thres
  <2>1. init_done
    BY <1>4, PhaseClock
  <2>2. JudgeFrame
    BY <1>4, <2>1, CompareClock
  <2>3. frame_match
    BY <1>1, <1>4, <2>2 DEF JudgeFrame, suspicion_detected
  <2>4. diff_cnt = DiffScore(now)
    BY <1>4, <2>1 DEF CountInv, CountsSoFar
  <2>5. DiffScore(now) > object_thres
    BY <2>3, <2>4 DEF frame_match, object_detected
  <2>6. compared
    <3>1. ~compared => DiffScore(now) = 0
      BY BlankScores DEF CountInv, HistoryShape
    <3> QED
      BY <2>5, <3>1, ThresholdAssumption
  <2> QED
    BY <2>5, <2>6
<1> QED
  BY <1>2, <1>3, <1>4

-----------------------------------------------------------------------------
\* One edge, phase by phase.  Before the reference is captured only capturing
\* matters: its end makes the transferred frame the complete one.
LEMMA CapturingAlert ==
    ASSUME IInv, CountInv, AlertInv, ThresholdLeftAlone, ~init_done,
           NEW cfg \in BOOLEAN, NEW start \in BOOLEAN,
           NEW vsync \in BOOLEAN, NEW last \in BOOLEAN,
           Tick(cfg, start, vsync, last), StoreDownsampled, RecordComplete
    PROVE  AlertInv'
<1> USE FrameSizeAssumption
<1>1. ~suspicion_detected /\ ~suspicion_detected'
  BY AlarmClock DEF AlertInv, QuietUntilCaptured
<1>2. /\ BufferTypeOK'
      /\ \A a \in 1 .. FRAME_SIZE - 1 :
           downsampled'[a] = IF transfer /\ a = cnt - 2 THEN frame[a] ELSE downsampled[a]
  BY <1>1, BufferClock DEF AlertInv
<1>3. cnt \in 0 .. FRAME_SIZE + 1
  BY TransferClock
<1>4. curr_state' = "CAPTURE_REF" =>
        \A a \in 1 .. FRAME_SIZE - 1 : a <= cnt' - 3 => downsampled'[a] = frame'[a]
  <2> SUFFICES ASSUME curr_state' = "CAPTURE_REF",
                      NEW a \in 1 .. FRAME_SIZE - 1, a <= cnt' - 3
               PROVE  downsampled'[a] = frame'[a]
    OBVIOUS
  <2>1. CASE curr_state = "CAPTURE_REF"
    <3>1. transfer /\ cnt <= FRAME_SIZE
      BY <1>3, <2>1, PhaseClock
    <3>2. cnt' = cnt + 1 /\ frame' = frame
      BY <3>1, <1>3, TransferMoves
    <3>3. a < cnt - 2 => downsampled[a] = frame[a]
      BY <1>3, <2>1 DEF AlertInv, BufferFollowsTransfer
    <3> QED
      BY <1>2, <1>3, <3>1, <3>2, <3>3
  <2>2. CASE curr_state # "CAPTURE_REF"
    <3>1. transfer /\ cnt <= 2
      BY <2>2, PhaseClock
    <3>2. cnt' = cnt + 1
      BY <1>3, <3>1, TransferMoves
    <3> QED
      BY <1>3, <3>1, <3>2
  <2> QED
    BY <2>1, <2>2
<1>5. init_done' =>
        /\ cnt' = 0 /\ complete' = frame
        /\ \A a \in 1 .. FRAME_SIZE - 1 : downsampled'[a] = complete'[a]
  <2> SUFFICES ASSUME init_done'
               PROVE  /\ cnt' = 0 /\ complete' = frame
                      /\ \A a \in 1 .. FRAME_SIZE - 1 : downsampled'[a] = complete'[a]
    OBVIOUS
  <2>1. curr_state = "CAPTURE_REF" /\ cnt = FRAME_SIZE + 1 /\ transfer
    BY PhaseClock
  <2>2. cnt' = 0 /\ complete' = frame
    BY <1>1, <2>1, TransferMoves DEF RecordComplete
  <2>3. \A a \in 1 .. FRAME_SIZE - 1 : a <= cnt - 3 => downsampled[a] = frame[a]
    BY <2>1 DEF AlertInv, BufferFollowsTransfer
  <2> QED
    BY <1>2, <2>1, <2>2, <2>3
<1>6. BufferFollowsTransfer'
  <2>1. init_done' =>
          \A a \in 1 .. FRAME_SIZE - 1 :
            downsampled'[a] = IF a <= cnt' - 3 THEN frame'[a] ELSE complete'[a]
    BY <1>5
  <2> QED
    BY <1>1, <1>4, <2>1 DEF BufferFollowsTransfer, FrozenFrameIsWhole
<1>7. init_done' => ~compared'
  BY DEF Tick, RecordFrame
<1> QED
  BY <1>1, <1>2, <1>6, <1>7
     DEF AlertInv, QuietUntilCaptured, JudgesCompleteFrame, FrozenFrameShowsObject

\* Between two frames, and in the clock a transfer begins, nothing of the
\* buffer but address 0 is written.
LEMMA WaitingAlert ==
    ASSUME IInv, CountInv, AlertInv, ThresholdLeftAlone,
           init_done, curr_state = "SYNC_CAPTURE",
           NEW cfg \in BOOLEAN, NEW start \in BOOLEAN,
           NEW vsync \in BOOLEAN, NEW last \in BOOLEAN,
           Tick(cfg, start, vsync, last), StoreDownsampled, RecordComplete
    PROVE  AlertInv'
<1> USE FrameSizeAssumption
<1>1. suspicion_detected' = suspicion_detected
  BY AlarmClock
<1>2. cnt = 0 /\ cnt' \in {0, 1} /\ init_done'
      /\ curr_state' \in {"SYNC_CAPTURE", "START_FRAME"}
  BY TransferClock, PhaseClock
<1>3. /\ BufferTypeOK'
      /\ \A a \in 1 .. FRAME_SIZE - 1 : downsampled'[a] = downsampled[a]
      /\ complete' = complete
  BY <1>2, BufferClock DEF AlertInv, RecordComplete
<1>4. ref_mem' = ref_mem
  BY CompareClock
<1>5. now' = now /\ compared' = compared
  BY DEF Tick, RecordFrame, historyVars
<1>6. BufferFollowsTransfer'
  <2>1. \A a \in 1 .. FRAME_SIZE - 1 : downsampled[a] = complete[a]
    <3>1. CASE suspicion_detected
      BY <3>1 DEF AlertInv, BufferFollowsTransfer, FrozenFrameIsWhole
    <3>2. CASE ~suspicion_detected
      BY <1>2, <3>2 DEF AlertInv, BufferFollowsTransfer
    <3> QED
      BY <3>1, <3>2
  <2>2. \A a \in 1 .. FRAME_SIZE - 1 : downsampled'[a] = complete'[a]
    BY <1>3, <2>1
  <2>3. \A a \in 1 .. FRAME_SIZE - 1 : ~(a <= cnt' - 3)
    <3>1. cnt' = 0 \/ cnt' = 1
      BY <1>2
    <3> QED
      BY <3>1
  <2> QED
    BY <1>2, <2>2, <2>3 DEF BufferFollowsTransfer, FrozenFrameIsWhole
<1>7. JudgesCompleteFrame'
  BY <1>1, <1>2, <1>3, <1>4, <1>5
     DEF AlertInv, JudgesCompleteFrame, FrozenFrameShowsObject, DiffImage
<1> QED
  BY <1>2, <1>3, <1>6, <1>7 DEF AlertInv, QuietUntilCaptured

\* The judgement: an alarm it raises or keeps is about the complete frame, all
\* of which the buffer still holds.
LEMMA JudgementAlert ==
    ASSUME IInv, CountInv, AlertInv, ThresholdLeftAlone, curr_state = "START_FRAME",
           NEW cfg \in BOOLEAN, NEW start \in BOOLEAN,
           NEW vsync \in BOOLEAN, NEW last \in BOOLEAN,
           Tick(cfg, start, vsync, last), StoreDownsampled, RecordComplete
    PROVE  AlertInv'
<1> USE FrameSizeAssumption
<1>1. init_done /\ transfer /\ cnt = 1 /\ curr_state' = "PROC_FRAME" /\ init_done'
  BY PhaseClock
<1>2. cnt' = 2
  BY <1>1, TransferMoves
<1>3. /\ BufferTypeOK'
      /\ \A a \in 1 .. FRAME_SIZE - 1 : downsampled'[a] = downsampled[a]
      /\ complete' = complete
  BY <1>1, BufferClock DEF AlertInv, RecordComplete
<1>4. ref_mem' = ref_mem
  BY <1>1, CompareClock
<1>5. \A a \in 1 .. FRAME_SIZE - 1 : downsampled'[a] = complete'[a]
  BY <1>1, <1>3 DEF AlertInv, BufferFollowsTransfer, FrozenFrameIsWhole
<1>6. BufferFollowsTransfer'
  BY <1>1, <1>2, <1>5 DEF BufferFollowsTransfer, FrozenFrameIsWhole
<1>7. suspicion_detected' => DiffScore(DiffImage(ref_mem, complete)) > object_thres
  <2>1. suspicion_detected' => compared /\ DiffScore(now) > object_thres
    BY AlarmClock
  <2>2. compared /\ ~suspicion_detected => now = DiffImage(ref_mem, complete)
    BY <1>1 DEF AlertInv, JudgesCompleteFrame
  <2> QED
    BY <2>1, <2>2 DEF AlertInv, JudgesCompleteFrame, FrozenFrameShowsObject
<1>8. JudgesCompleteFrame'
  BY <1>1, <1>3, <1>4, <1>7
     DEF JudgesCompleteFrame, FrozenFrameShowsObject, DiffImage
<1> QED
  BY <1>1, <1>3, <1>6, <1>8 DEF AlertInv, QuietUntilCaptured

\* Comparing: the buffer takes the pixel two behind cnt, and the last of them
\* completes the frame whose difference image is at hand.
LEMMA ComparingAlert ==
    ASSUME IInv, CountInv, AlertInv, ThresholdLeftAlone, curr_state = "PROC_FRAME",
           NEW cfg \in BOOLEAN, NEW start \in BOOLEAN,
           NEW vsync \in BOOLEAN, NEW last \in BOOLEAN,
           Tick(cfg, start, vsync, last), StoreDownsampled, RecordComplete
    PROVE  AlertInv'
<1> USE FrameSizeAssumption
<1>1. /\ init_done /\ transfer /\ init_done' /\ cnt \in 2 .. FRAME_SIZE + 1
      /\ curr_state' = IF cnt <= FRAME_SIZE THEN "PROC_FRAME" ELSE "SYNC_CAPTURE"
  <2>1. cnt \in 0 .. FRAME_SIZE + 1
    BY TransferClock
  <2> QED
    BY <2>1, PhaseClock
<1>2. /\ cnt' = IF cnt <= FRAME_SIZE THEN cnt + 1 ELSE 0
      /\ frame' = frame
  BY <1>1, TransferMoves
<1>3. suspicion_detected' = suspicion_detected
  BY <1>1, AlarmClock
<1>4. /\ BufferTypeOK'
      /\ \A a \in 1 .. FRAME_SIZE - 1 :
           downsampled'[a] = IF ~suspicion_detected /\ a = cnt - 2
                               THEN frame[a] ELSE downsampled[a]
  BY <1>1, BufferClock DEF AlertInv
<1>5. complete' = IF cnt = FRAME_SIZE + 1 /\ ~suspicion_detected THEN frame ELSE complete
  BY DEF RecordComplete
<1>6. ref_mem' = ref_mem
  BY <1>1, CompareClock
<1>7. now' = now /\ compared' = compared
  BY <1>1 DEF Tick, RecordFrame, historyVars
<1>8. CASE suspicion_detected
  <2>1. complete' = complete /\ \A a \in 1 .. FRAME_SIZE - 1 : downsampled'[a] = downsampled[a]
    BY <1>4, <1>5, <1>8
  <2>2. BufferFollowsTransfer'
    BY <1>1, <1>3, <1>8, <2>1 DEF AlertInv, BufferFollowsTransfer, FrozenFrameIsWhole
  <2>3. JudgesCompleteFrame'
    BY <1>3, <1>6, <1>8, <2>1
       DEF AlertInv, JudgesCompleteFrame, FrozenFrameShowsObject, DiffImage
  <2> QED
    BY <1>1, <1>4, <2>2, <2>3 DEF AlertInv, QuietUntilCaptured
<1>9. CASE ~suspicion_detected
  <2>1. \A a \in 1 .. FRAME_SIZE - 1 :
          downsampled[a] = IF a <= cnt - 3 THEN frame[a] ELSE complete[a]
    BY <1>1, <1>9 DEF AlertInv, BufferFollowsTransfer
  <2>2. ASSUME NEW a \in 1 .. FRAME_SIZE - 1
        PROVE  downsampled'[a] = IF a <= cnt' - 3 THEN frame'[a] ELSE complete'[a]
    <3>1. downsampled'[a] = IF a <= cnt - 2 THEN frame[a] ELSE complete[a]
      BY <1>1, <1>4, <1>9, <2>1
    <3>2. CASE cnt <= FRAME_SIZE
      BY <1>1, <1>2, <1>5, <3>1, <3>2
    <3>3. CASE cnt = FRAME_SIZE + 1
      BY <1>1, <1>2, <1>5, <1>9, <3>1, <3>3
    <3> QED
      BY <1>1, <3>2, <3>3
  <2>3. BufferFollowsTransfer'
    BY <1>1, <1>3, <1>9, <2>2 DEF BufferFollowsTransfer, FrozenFrameIsWhole
  <2>4. curr_state' = "SYNC_CAPTURE" => now' = DiffImage(ref_mem, complete)'
    <3> SUFFICES ASSUME curr_state' = "SYNC_CAPTURE"
                 PROVE  now' = DiffImage(ref_mem', complete')
      BY DEF DiffImage
    <3>1. complete' = frame
      BY <1>1, <1>5, <1>9
    <3>2. now = DiffImage(ref_mem, frame)
      BY DEF CountInv, DiffLine
    <3> QED
      BY <1>6, <1>7, <3>1, <3>2
  <2>5. JudgesCompleteFrame'
    BY <1>1, <1>3, <1>9, <2>4 DEF JudgesCompleteFrame, FrozenFrameShowsObject
  <2> QED
    BY <1>1, <1>4, <2>3, <2>5 DEF AlertInv, QuietUntilCaptured
<1> QED
  BY <1>8, <1>9

-----------------------------------------------------------------------------
\* The invariant at power-up, under every step, and in every reachable state.
LEMMA InitAlert == ASSUME ThresholdLeftAlone, AlertInit PROVE AlertInv
<1> USE FrameSizeAssumption, PixelAssumption, ThresholdAssumption
<1> USE DEF AlertInit, Init, ControlInit, DatapathInit
<1>1. ~suspicion_detected /\ BufferTypeOK
  BY DEF suspicion_detected, ThresholdLeftAlone, BufferTypeOK
<1> QED
  BY <1>1 DEF AlertInv, QuietUntilCaptured, BufferFollowsTransfer, JudgesCompleteFrame,
              FrozenFrameIsWhole, FrozenFrameShowsObject

\* A step that leaves every register alone leaves the invariant true.
LEMMA AlertUnchanged == ASSUME AlertInv, UNCHANGED alertVars PROVE AlertInv'
<1>1. /\ downsampled' = downsampled /\ complete' = complete /\ frame' = frame
      /\ cnt' = cnt /\ curr_state' = curr_state /\ init_done' = init_done
      /\ ref_mem' = ref_mem /\ now' = now /\ compared' = compared
      /\ suspicion_detected' = suspicion_detected
  BY DEF alertVars, vars, downsamplerVars, controlVars, datapathVars, refVars,
         counterVars, historyVars, suspicion_detected
<1>2. BufferTypeOK' /\ QuietUntilCaptured' /\ BufferFollowsTransfer'
  BY <1>1 DEF AlertInv, BufferTypeOK, QuietUntilCaptured, BufferFollowsTransfer,
              FrozenFrameIsWhole
<1>3. JudgesCompleteFrame'
  BY <1>1 DEF AlertInv, JudgesCompleteFrame, FrozenFrameShowsObject, DiffImage
<1> QED
  BY <1>2, <1>3 DEF AlertInv

LEMMA NextAlert ==
    ASSUME ThresholdLeftAlone, IInv, CountInv, AlertInv, [AlertNext]_alertVars
    PROVE  AlertInv'
<1>1. ASSUME Clock, StoreDownsampled, RecordComplete PROVE AlertInv'
  <2>1. PICK cfg, start, vsync, last \in BOOLEAN : Tick(cfg, start, vsync, last)
    BY <1>1, ClockIsTick
  <2>2. ~init_done \/ curr_state \in {"SYNC_CAPTURE", "START_FRAME", "PROC_FRAME"}
    BY <2>1, PhaseClock
  <2>3. CASE ~init_done
    BY <1>1, <2>1, <2>3, CapturingAlert
  <2>4. CASE init_done /\ curr_state = "SYNC_CAPTURE"
    BY <1>1, <2>1, <2>4, WaitingAlert
  <2>5. CASE curr_state = "START_FRAME"
    BY <1>1, <2>1, <2>5, JudgementAlert
  <2>6. CASE curr_state = "PROC_FRAME"
    BY <1>1, <2>1, <2>6, ComparingAlert
  <2> QED
    BY <2>2, <2>3, <2>4, <2>5, <2>6
<1>2. ASSUME NEW t \in SuspicionThresholds, WriteSuspicionThres(t),
             UNCHANGED <<downsampled, complete>>
      PROVE  AlertInv'
  <2>1. suspicion_thres' = suspicion_thres
    BY <1>2 DEF WriteSuspicionThres, ThresholdLeftAlone, IInv, TypeOK, DatapathTypeOK
  <2>2. UNCHANGED vars
    BY <1>2, <2>1 DEF WriteSuspicionThres, vars, datapathVars
  <2> QED
    BY <1>2, <2>2, AlertUnchanged DEF alertVars
<1>3. ASSUME Reset, UNCHANGED <<downsampled, complete>> PROVE AlertInv'
  <2>1. ~suspicion_detected' /\ ~init_done' /\ curr_state' = "RESET"
    BY <1>3, ThresholdAssumption
       DEF Reset, ControlReset, DatapathReset, ClearCounters, suspicion_detected,
           ThresholdLeftAlone
  <2> QED
    BY <1>3, <2>1
       DEF AlertInv, BufferTypeOK, QuietUntilCaptured, BufferFollowsTransfer,
           JudgesCompleteFrame, FrozenFrameIsWhole, FrozenFrameShowsObject
<1>4. CASE UNCHANGED alertVars
  BY <1>4, AlertUnchanged
<1> QED
  BY <1>1, <1>2, <1>3, <1>4 DEF AlertNext

\* The detector behind the buffer is the detector.
LEMMA AlertIsDetector == AlertSpec => Spec
<1>1. AlertInit => Init
  BY DEF AlertInit
<1>2. [AlertNext]_alertVars => [Next]_vars
  BY DEF AlertNext, Next, alertVars
<1> QED
  BY <1>1, <1>2, PTL DEF AlertSpec, Spec

LEMMA SpecAlert == ASSUME ThresholdLeftAlone PROVE AlertSpec => []AlertInv
<1>1. AlertInit => AlertInv
  BY InitAlert
<1>2. IInv /\ CountInv /\ AlertInv /\ [AlertNext]_alertVars => AlertInv'
  BY NextAlert
<1> QED
  BY <1>1, <1>2, AlertIsDetector, SpecIInv, SpecCountInv, PTL DEF AlertSpec

\* The picture the software reads during an alarm is one whole frame, address 0
\* apart, for every frame size: no pixel of an earlier or a later frame is in it.
THEOREM AlarmFreezesOneFrame == ThresholdLeftAlone => (AlertSpec => []FrozenFrameIsWhole)
<1> SUFFICES ASSUME ThresholdLeftAlone PROVE AlertSpec => []FrozenFrameIsWhole
  OBVIOUS
<1>1. AlertInv => FrozenFrameIsWhole
  BY DEF AlertInv, BufferFollowsTransfer
<1> QED
  BY <1>1, SpecAlert, PTL

\* And that frame is the one the alarm is about: it differs from the reference
\* by more than the detection threshold.
THEOREM AlarmShowsItsObject == ThresholdLeftAlone => (AlertSpec => []FrozenFrameShowsObject)
<1> SUFFICES ASSUME ThresholdLeftAlone PROVE AlertSpec => []FrozenFrameShowsObject
  OBVIOUS
<1>1. AlertInv => FrozenFrameShowsObject
  BY DEF AlertInv, JudgesCompleteFrame
<1> QED
  BY <1>1, SpecAlert, PTL

=============================================================================
