--------------------------- MODULE PictureMemory ---------------------------
(***************************************************************************)
(* What the software sees of the alarm picture buffer (AlertFrameBuffer):    *)
(* a memory that is overwritten frame after frame, pixel by pixel, except    *)
(* while there is an alarm.  An alarm comes and goes at the head of a frame, *)
(* when address 0 has been written: FrozenFrameIsWhole of the detailed model *)
(* says the same.                                                           *)
(***************************************************************************)
EXTENDS Naturals

CONSTANT FRAME_SIZE
ASSUME FrameSizeAssumption == FRAME_SIZE \in Nat \ {0, 1}
PixelAddress == 0 .. FRAME_SIZE - 1

VARIABLES
    picture,      \* for each address, which of two alternating frames its pixel is of
    wr,           \* address of the next pixel
    frameNo,      \* the frame being written
    suspicious    \* suspicion_detected

pictureVars == <<picture, wr, frameNo, suspicious>>

PictureInit ==
    /\ picture = [a \in PixelAddress |-> 0]
    /\ wr = 0 /\ frameNo = 1 /\ suspicious = FALSE

\* faulty: nothing holds the picture
StorePixel_ungated ==
    /\ picture' = [picture EXCEPT ![wr] = frameNo]
    /\ wr' = (wr + 1) % FRAME_SIZE
    /\ frameNo' = IF wr' = 0 THEN 1 - frameNo ELSE frameNo
    /\ UNCHANGED suspicious

StorePixel ==
    /\ ~suspicious
    /\ picture' = [picture EXCEPT ![wr] = frameNo]
    /\ wr' = (wr + 1) % FRAME_SIZE
    /\ frameNo' = IF wr' = 0 THEN 1 - frameNo ELSE frameNo
    /\ UNCHANGED suspicious

AlarmChanges ==
    /\ wr = 1 /\ suspicious' = ~suspicious
    /\ UNCHANGED <<picture, wr, frameNo>>
=============================================================================
