---------------------- MODULE SuspiciousObjectDetector ----------------------
(***************************************************************************)
(* suspicious_object_detector.v with the downsampler that feeds it: the     *)
(* three components on one clock.  Every rising edge steps all of them at   *)
(* once, each from the wires the others drive before the edge.  Between     *)
(* edges the software may write the suspicion threshold, and the reset line *)
(* may be pulled.                                                           *)
(*                                                                         *)
(* Three history variables, which no code depends on, remember what frames  *)
(* looked like to the datapath: `now' is the difference image of the last   *)
(* frame taken up for comparison, `before' the image it is matched with,    *)
(* and `compared' is true once a frame has been taken up.                   *)
(***************************************************************************)
EXTENDS FrameDownsampler, ObjDetControl, ObjDetDatapath, FiniteSets

VARIABLES before, now, compared

historyVars == <<before, now, compared>>
vars == <<downsamplerVars, controlVars, datapathVars, historyVars>>

susp_pixel_in == obj_det_pixel \in Bright

\* The image the difference memory holds after a frame f has been compared:
\* the two clocks the pipeline needs to fill see the reference's first pixel
\* against a dark pixel, and shift the rest by two addresses.
DiffImage(ref, f) ==
    [a \in Address |->
        IF a = FRAME_SIZE - 1 THEN FALSE
        ELSE IF a < 2 THEN ref[0]
        ELSE ref[a - 2] # (f[a - 2] \in Bright)]

\* What the two counters hold when a frame with image `new' has been compared
\* after one with image `old'.  The match counter runs two clocks behind the
\* difference; the two clocks before that compare address 0 with itself.
DiffScore(new) == Cardinality({a \in Address : new[a]})

MatchScore(new, old) ==
    Cardinality({a \in 0 .. FRAME_SIZE - 4 : new[a] /\ old[a]})
      + IF new[0] /\ old[0] THEN 2 ELSE 0

Init ==
    /\ DownsamplerInit
    /\ ControlInit
    /\ DatapathInit
    /\ before = Blank
    /\ now = Blank
    /\ compared = FALSE

-----------------------------------------------------------------------------
\* The first frame is compared with what capturing the reference left in the
\* difference memory.
RecordFrame ==
    IF ~init_done
      THEN /\ before' = IF init_done' THEN diff_mem ELSE Blank
           /\ now' = Blank
           /\ compared' = FALSE
    ELSE IF curr_state = "START_FRAME"
      THEN /\ before' = IF compared THEN now ELSE before
           /\ now' = DiffImage(ref_mem, frame)
           /\ compared' = TRUE
    ELSE UNCHANGED historyVars

\* One rising edge: configuration done, start bit, vsync and camera at its
\* last pixel are the inputs sampled by it.
Tick(cfg, start, vsync, last) ==
    /\ DownsamplerStep(vsync, last)
    /\ ControlStep(cfg, start, obj_det_addr, obj_det_wren)
    /\ DatapathStep(ControlOutputs(cfg, start, obj_det_addr, obj_det_wren),
                    init_done, susp_pixel_in)
    /\ RecordFrame

\* An input takes either value where a register depends on it; elsewhere the
\* edge is the same for both and one of them stands for it.
Sampled(depends) == IF depends THEN BOOLEAN ELSE {FALSE}

Clock ==
    \E cfg \in Sampled(curr_state = "RESET"),
       start \in Sampled(curr_state = "WAIT_START"),
       vsync \in Sampled(vsync_cnt < MAX_VSYNC_CNT),
       last \in Sampled(~transfer) :
        Tick(cfg, start, vsync, last)

\* A write to register 4 of the AXI slave.
WriteSuspicionThres(t) ==
    /\ suspicion_thres' = t
    /\ UNCHANGED <<downsamplerVars, controlVars, delayVars, refVars, diffVars,
                   counterVars, historyVars>>

Reset ==
    /\ DownsamplerReset
    /\ ControlReset
    /\ DatapathReset
    /\ before' = Blank
    /\ now' = Blank
    /\ compared' = FALSE

Next ==
    \/ Clock
    \/ \E t \in SuspicionThresholds : WriteSuspicionThres(t)
    \/ Reset

Spec == Init /\ [][Next]_vars

\* The system left alone after its last reset, with a working camera: the
\* clock runs, the configuration finishes, the software sets the start bit,
\* vsync keeps pulsing, and the camera keeps reaching the last pixel of a
\* frame while the downsampler waits for it.
Fairness ==
    /\ WF_vars(Clock)
    /\ WF_vars(\E s, v, l \in BOOLEAN : curr_state = "RESET" /\ Tick(TRUE, s, v, l))
    /\ WF_vars(\E c, v, l \in BOOLEAN : curr_state = "WAIT_START" /\ Tick(c, TRUE, v, l))
    /\ WF_vars(\E c, s, l \in BOOLEAN :
                 ~transfer /\ vsync_cnt < MAX_VSYNC_CNT /\ Tick(c, s, TRUE, l))
    /\ WF_vars(\E c, s, v \in BOOLEAN :
                 ~transfer /\ vsync_cnt >= MAX_VSYNC_CNT /\ Tick(c, s, v, TRUE))

LiveSpec == Init /\ [][Clock]_vars /\ Fairness

-----------------------------------------------------------------------------
\* The type invariant.
TypeOK ==
    /\ DownsamplerTypeOK
    /\ ControlTypeOK
    /\ DatapathTypeOK
    /\ before \in [Address -> BOOLEAN]
    /\ now \in [Address -> BOOLEAN]
    /\ compared \in BOOLEAN

\* The state machine never loses the frame: it compares or captures only while
\* a transfer runs, starts a frame in exactly its second clock, and after the
\* reference is captured waits for the next frame only between transfers or in
\* the first clock of one.  (No signal ties the two machines together; each
\* counts on its own.)
Lockstep ==
    /\ TransferShape
    /\ curr_state = "CAPTURE_REF" => transfer /\ cnt >= 1 /\ ~init_done
    /\ curr_state = "START_FRAME" => transfer /\ cnt = 1 /\ init_done
    /\ curr_state = "PROC_FRAME" => transfer /\ cnt >= 2 /\ init_done
    /\ curr_state = "SYNC_CAPTURE" /\ init_done => ~transfer \/ cnt = 0
    /\ curr_state \in {"RESET", "WAIT_START"} => ~init_done

\* When the reference is declared captured, every address but 0 holds the
\* black-and-white pixel of the frame that was transferred.
ReferenceMatchesFrame ==
    curr_state = "CAPTURE_REF" /\ ~BeforeLastPixel(obj_det_addr) =>
        \A a \in 1 .. FRAME_SIZE - 2 : ref_mem[a] = (frame[a] \in Bright)

\* obj_det_control.v:126, "Wait until current frame elapses before starting
\* capture": the captured reference is a whole frame, address 0 included.
ReferenceIsWholeFrame ==
    curr_state = "CAPTURE_REF" /\ ~BeforeLastPixel(obj_det_addr) =>
        \A a \in 0 .. FRAME_SIZE - 2 : ref_mem[a] = (frame[a] \in Bright)

\* The counters a frame is judged by are those of whole difference images:
\* pipeline delays, the gating by the write enables, and the order in which
\* the difference memory is read and overwritten all cancel out.
CountersMatchFrames ==
    curr_state = "START_FRAME" =>
        /\ diff_cnt = DiffScore(now)
        /\ match_cnt = MatchScore(now, before)

\* Once captured, the reference is never written again short of a reset.
ReferenceIsKept == [][init_done /\ init_done' => UNCHANGED ref_mem]_vars

-----------------------------------------------------------------------------
\* The reference is visible to the abstract specification once it is captured.
Watcher == INSTANCE StationaryObject WITH
    watching  <- init_done,
    reference <- IF init_done THEN ref_mem ELSE Blank,
    level     <- suspicion,
    threshold <- suspicion_thres

\* Every step of the hardware is a step of the abstract watcher or a stutter.
ImplementsWatcher == Watcher!WatchSpec

-----------------------------------------------------------------------------
\* An object stands in scene s: enough of it differs from the reference, and
\* the same pixels differ when the scene is compared with itself.
ObjectStands(s) ==
    LET image == DiffImage(ref_mem, s)
    IN  /\ init_done
        /\ frame = s
        /\ DiffScore(image) > object_thres
        /\ MatchScore(image, image) > static_thres

\* A scene with an object in it that stays the same raises the alarm for good.
StationaryObjectRaisesAlarm ==
    \A s \in Scenes : <>[]ObjectStands(s) => <>[]suspicion_detected

\* And when the scene stays one without an object, the alarm ends for good.
SceneAsLearned(s) == init_done /\ frame = s /\ ~ObjectStands(s)

AlarmEndsWithoutObject ==
    \A s \in Scenes : <>[]SceneAsLearned(s) => <>[](suspicion = 0)

=============================================================================
