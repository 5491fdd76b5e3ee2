--------------------------- MODULE ObjDetDatapath ---------------------------
(***************************************************************************)
(* obj_det_datapath.v: compares each pixel with the reference frame and the *)
(* difference with that of the previous frame, counts both, and once per    *)
(* frame raises or drops the suspicion level.  `c' is the record of outputs *)
(* of the control state machine.  Pixels are single bits here: the colour   *)
(* has been reduced to black and white before.  frame_cnt, which nothing    *)
(* reads, is left out; diff_cnt and match_cnt cannot overflow their 17 bits *)
(* (a frame has 76800 pixels) and are natural numbers.                      *)
(***************************************************************************)
EXTENDS DetectorConstants

VARIABLES
    pixel_in_d1, curr_pixel,           \* delay line of the incoming pixel
    diff_pixel_d1, diff_pixel_d2,      \* delay line of the difference
    ref_mem, ref_latch, ref_pixel,     \* reference memory, read in two clocks
    diff_mem, diff_latch, prev_diff_pixel,  \* difference memory, likewise
    diff_cnt, match_cnt, suspicion,
    suspicion_thres                    \* a register of the AXI slave

delayVars == <<pixel_in_d1, curr_pixel, diff_pixel_d1, diff_pixel_d2>>
refVars == <<ref_mem, ref_latch, ref_pixel>>
diffVars == <<diff_mem, diff_latch, prev_diff_pixel>>
counterVars == <<diff_cnt, match_cnt, suspicion>>
datapathVars == <<delayVars, refVars, diffVars, counterVars, suspicion_thres>>

diff_pixel(done) == done /\ ref_pixel # curr_pixel

match_pixel_early(done) == done /\ diff_pixel_d1 /\ prev_diff_pixel  \* faulty
match_pixel(done) == done /\ diff_pixel_d2 /\ prev_diff_pixel

object_detected == diff_cnt > object_thres

frame_match_moving == object_detected  \* faulty: a moving object matches too
frame_match == object_detected /\ match_cnt > static_thres

suspicion_detected == suspicion = suspicion_thres

Blank == [a \in Address |-> FALSE]

\* The memories power up blank; no reset clears them.
DatapathInit ==
    /\ pixel_in_d1 = FALSE /\ curr_pixel = FALSE
    /\ diff_pixel_d1 = FALSE /\ diff_pixel_d2 = FALSE
    /\ ref_mem = Blank /\ ref_latch = FALSE /\ ref_pixel = FALSE
    /\ diff_mem = Blank /\ diff_latch = FALSE /\ prev_diff_pixel = FALSE
    /\ diff_cnt = 0 /\ match_cnt = 0 /\ suspicion = 0
    /\ suspicion_thres = DefaultSuspicionThres

-----------------------------------------------------------------------------
ClearDelays ==
    /\ pixel_in_d1' = FALSE /\ curr_pixel' = FALSE
    /\ diff_pixel_d1' = FALSE /\ diff_pixel_d2' = FALSE

ShiftDelays(c, done, pixel_in) ==
    LET valid == c.ref_wren \/ c.diff_wren
    IN  /\ pixel_in_d1' = (pixel_in /\ valid)
        /\ curr_pixel' = (pixel_in_d1 /\ valid)
        /\ diff_pixel_d1' = diff_pixel(done)
        /\ diff_pixel_d2' = diff_pixel_d1

\* Block memory, write first, with the output register of the primitive: the
\* enable stops the write, the read and the output register alike.
RefFrameBuffer(c, pixel_in) ==
    \/ /\ c.ref_enable
       /\ ref_mem' = IF c.ref_wren THEN [ref_mem EXCEPT ![c.ref_addr] = pixel_in]
                                   ELSE ref_mem
       /\ ref_latch' = ref_mem'[c.ref_addr]
       /\ ref_pixel' = ref_latch
    \/ ~c.ref_enable /\ UNCHANGED refVars

\* The same memory, read first: the previous frame's difference is read in
\* the clock in which this frame's replaces it.
DiffFrameBuffer(c, done) ==
    \/ /\ c.diff_enable
       /\ diff_mem' = IF c.diff_wren THEN [diff_mem EXCEPT ![c.diff_addr] = diff_pixel(done)]
                                     ELSE diff_mem
       /\ diff_latch' = diff_mem[c.diff_addr]
       /\ prev_diff_pixel' = diff_latch
    \/ ~c.diff_enable /\ UNCHANGED diffVars

ClearCounters == diff_cnt' = 0 /\ match_cnt' = 0 /\ suspicion' = 0

RaiseFromAny == (suspicion + 1) % SUSPICION_RANGE  \* faulty: no rail at the maximum
Raise == IF suspicion < suspicion_thres THEN (suspicion + 1) % SUSPICION_RANGE
                                        ELSE suspicion

JudgeFrameSticky ==  \* faulty: the level survives a frame without a match
    /\ suspicion' = IF frame_match THEN Raise ELSE suspicion
    /\ diff_cnt' = 0
    /\ match_cnt' = 0

JudgeFrameKeepingCounts ==  \* faulty: the counts run on into the next frame
    /\ suspicion' = IF frame_match THEN Raise ELSE 0
    /\ UNCHANGED <<diff_cnt, match_cnt>>

JudgeFrame ==
    /\ suspicion' = IF frame_match THEN Raise ELSE 0
    /\ diff_cnt' = 0
    /\ match_cnt' = 0

CountPixel(c, done) ==
    /\ diff_cnt' = diff_cnt + IF c.diff_wren /\ diff_pixel(done) THEN 1 ELSE 0
    /\ match_cnt' = match_cnt + IF c.diff_wren /\ match_pixel(done) THEN 1 ELSE 0
    /\ UNCHANGED suspicion

Counters(c, done) ==
    \/ (~c.resetn \/ ~done) /\ ClearCounters
    \/ c.resetn /\ done /\ c.frame_start /\ JudgeFrame
    \/ c.resetn /\ done /\ ~c.frame_start /\ CountPixel(c, done)

DatapathStep(c, done, pixel_in) ==
    /\ \/ ~c.resetn /\ ClearDelays
       \/ c.resetn /\ ShiftDelays(c, done, pixel_in)
    /\ RefFrameBuffer(c, pixel_in)
    /\ DiffFrameBuffer(c, done)
    /\ Counters(c, done)
    /\ UNCHANGED suspicion_thres

\* Global reset: the state machine goes to RESET and keeps the datapath reset;
\* the threshold register, on the same reset line, takes its default.
DatapathReset ==
    /\ ClearDelays
    /\ ClearCounters
    /\ suspicion_thres' = DefaultSuspicionThres
    /\ UNCHANGED <<refVars, diffVars>>

DatapathTypeOK ==
    /\ {pixel_in_d1, curr_pixel, diff_pixel_d1, diff_pixel_d2} \subseteq BOOLEAN
    /\ {ref_latch, ref_pixel, diff_latch, prev_diff_pixel} \subseteq BOOLEAN
    /\ ref_mem \in [Address -> BOOLEAN]
    /\ diff_mem \in [Address -> BOOLEAN]
    /\ diff_cnt \in Nat
    /\ match_cnt \in Nat
    /\ suspicion \in 0 .. SUSPICION_RANGE - 1
    /\ suspicion_thres \in SuspicionThresholds

=============================================================================
