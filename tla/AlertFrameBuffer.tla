-------------------------- MODULE AlertFrameBuffer --------------------------
(***************************************************************************)
(* downsampled_frame_buffer of ov7670_top.v, the memory the software reads  *)
(* the picture of an alarm from.  It takes every pixel shown to the object  *)
(* detection unless a suspicious object is detected, so that an alarm       *)
(* freezes the picture.  The history variable `complete' is the last frame  *)
(* the buffer received to its end.                                          *)
(***************************************************************************)
EXTENDS SuspiciousObjectDetector

VARIABLES downsampled, complete

alertVars == <<vars, downsampled, complete>>

frame_bram_wren_ungated == obj_det_wren  \* faulty: nothing freezes the buffer
frame_bram_wren == obj_det_wren /\ ~suspicion_detected

AlertInit ==
    /\ Init
    /\ downsampled = [a \in Address |-> BlackPixel]
    /\ complete = downsampled

StoreDownsampled ==
    downsampled' = IF frame_bram_wren
                     THEN [downsampled EXCEPT ![obj_det_addr] = obj_det_pixel]
                     ELSE downsampled

RecordComplete ==
    complete' = IF cnt = FRAME_SIZE + 1 /\ ~suspicion_detected THEN frame ELSE complete

AlertNext ==
    \/ Clock /\ StoreDownsampled /\ RecordComplete
    \/ /\ \E t \in SuspicionThresholds : WriteSuspicionThres(t)
       /\ UNCHANGED <<downsampled, complete>>
    \/ Reset /\ UNCHANGED <<downsampled, complete>>

AlertSpec == AlertInit /\ [][AlertNext]_alertVars

-----------------------------------------------------------------------------
\* An alarm freezes one whole frame: address 0 apart, which the two stale
\* pixels at the head of the next transfer have reached before the alarm rises,
\* the buffer holds the last frame it received, and that frame is the one the
\* judgement that raised the alarm was about.  The claim is for a threshold
\* that is left alone and not zero.
FrozenFrameIsWhole ==
    suspicion_detected => \A a \in 1 .. FRAME_SIZE - 1 : downsampled[a] = complete[a]

\* The frozen frame shows the object: it differs from the reference by more
\* than the detection threshold.
FrozenFrameShowsObject ==
    suspicion_detected => DiffScore(DiffImage(ref_mem, complete)) > object_thres

=============================================================================
