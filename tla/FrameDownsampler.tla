-------------------------- MODULE FrameDownsampler --------------------------
(***************************************************************************)
(* frame_downsampler.v: once enough clock cycles with the camera's vsync    *)
(* have gone by, copies the immediate frame buffer, one pixel per clock, to *)
(* the object detection.  One step of this module is one rising edge of the *)
(* 100 MHz clock; the wires of the code are state functions.                *)
(*                                                                         *)
(* `frame' is the content of the immediate frame buffer (u_frame_buffer of  *)
(* ov7670_top.v) while a transfer reads it.  Here it does not change under  *)
(* the transfer; CameraFrames!TransferReadsOneFrame shows that the camera   *)
(* and its capture keep to that.                                            *)
(***************************************************************************)
EXTENDS DetectorConstants

VARIABLES
    frame,                    \* immediate frame buffer
    tdata,                    \* its read port, one clock of latency
    buffered_capture_pixel,
    tdata_addr,
    cnt,
    tvalid,
    transfer,
    vsync_cnt                 \* saturates at MAX_VSYNC_CNT: only >= is asked

downsamplerVars == <<frame, tdata, buffered_capture_pixel, tdata_addr, cnt,
                     tvalid, transfer, vsync_cnt>>

obj_det_addr_lagging == IF tdata_addr >= 1 THEN tdata_addr - 1 ELSE 0  \* faulty
obj_det_addr == IF tdata_addr >= 2 THEN tdata_addr - 2 ELSE 0

obj_det_pixel == buffered_capture_pixel

obj_det_wren == tvalid \/ transfer

DownsamplerInit ==
    /\ frame \in Scenes
    /\ tdata = BlackPixel
    /\ buffered_capture_pixel = BlackPixel
    /\ tdata_addr = 0
    /\ cnt = 0
    /\ tvalid = FALSE
    /\ transfer = FALSE
    /\ vsync_cnt = 0

-----------------------------------------------------------------------------
\* Read port of the immediate frame buffer, enabled by obj_det_wren.  Past the
\* last pixel the memory has no cell and the value read is arbitrary.
ReadFrameBuffer ==
    tdata' \in IF ~obj_det_wren THEN {tdata}
               ELSE IF tdata_addr \in Address THEN {frame[tdata_addr]}
               ELSE Pixel

CountVsync(vsync) ==
    vsync_cnt' = IF vsync /\ vsync_cnt < MAX_VSYNC_CNT
                   THEN vsync_cnt + 1
                   ELSE vsync_cnt

\* `last' stands for ov7670_capture_addr == FRAME_SIZE - 1.
ReadyToTransfer(last) == vsync_cnt >= MAX_VSYNC_CNT /\ ~transfer /\ last

BeginTransfer(vsync, last) ==
    /\ ReadyToTransfer(last)
    /\ transfer' = TRUE
    /\ frame' \in Scenes
    /\ CountVsync(vsync)
    /\ UNCHANGED <<buffered_capture_pixel, tdata_addr, cnt, tvalid>>

MorePixelsOver == transfer /\ cnt <= FRAME_SIZE + 1  \* faulty: one too many
MorePixels == transfer /\ cnt <= FRAME_SIZE

ShiftPixel(vsync, last) ==
    /\ ~ReadyToTransfer(last) /\ MorePixels
    /\ tvalid' = (cnt > 0)
    /\ tdata_addr' = tdata_addr + 1
    /\ buffered_capture_pixel' = tdata
    /\ cnt' = cnt + 1
    /\ CountVsync(vsync)
    /\ UNCHANGED <<frame, transfer>>

\* The last branch resets vsync_cnt, whatever vsync counted in this clock.
EndTransfer(vsync, last) ==
    /\ ~ReadyToTransfer(last) /\ ~MorePixels /\ cnt = FRAME_SIZE + 1
    /\ cnt' = 0
    /\ tvalid' = FALSE
    /\ tdata_addr' = 0
    /\ transfer' = FALSE
    /\ vsync_cnt' = 0
    /\ UNCHANGED <<frame, buffered_capture_pixel>>

AwaitFrame(vsync, last) ==
    /\ ~ReadyToTransfer(last) /\ ~MorePixels /\ cnt # FRAME_SIZE + 1
    /\ CountVsync(vsync)
    /\ UNCHANGED <<frame, buffered_capture_pixel, tdata_addr, cnt, tvalid, transfer>>

DownsamplerStep(vsync, last) ==
    /\ ReadFrameBuffer
    /\ \/ BeginTransfer(vsync, last)
       \/ ShiftPixel(vsync, last)
       \/ EndTransfer(vsync, last)
       \/ AwaitFrame(vsync, last)

\* resetn low clears the registers, not the buffer nor its read port.
DownsamplerReset ==
    /\ buffered_capture_pixel' = BlackPixel
    /\ tdata_addr' = 0
    /\ cnt' = 0
    /\ tvalid' = FALSE
    /\ transfer' = FALSE
    /\ vsync_cnt' = 0
    /\ UNCHANGED <<frame, tdata>>

-----------------------------------------------------------------------------
\* tdata_addr and cnt run past the last address of the frame.
DownsamplerTypeOK ==
    /\ frame \in [Address -> Pixel]
    /\ tdata \in Pixel
    /\ buffered_capture_pixel \in Pixel
    /\ tdata_addr \in 0 .. FRAME_SIZE + 1
    /\ cnt \in 0 .. FRAME_SIZE + 1
    /\ tvalid \in BOOLEAN
    /\ transfer \in BOOLEAN
    /\ vsync_cnt \in 0 .. MAX_VSYNC_CNT

\* How the registers move together: the address counts with cnt, tvalid lags
\* it by two, and between transfers all of them rest at zero.
TransferShape ==
    /\ tdata_addr = cnt
    /\ tvalid <=> cnt >= 2
    /\ ~transfer => cnt = 0

\* The address and the pixel shown to the object detection belong together:
\* from the third clock of a transfer on, the pixel is the one the camera put
\* at obj_det_addr.  Two latencies (the read port, buffered_capture_pixel) and
\* the subtraction of 2 in obj_det_addr have to cancel out.
PixelMatchesAddress ==
    tvalid => /\ obj_det_addr \in Address
              /\ obj_det_pixel = frame[obj_det_addr]

=============================================================================
