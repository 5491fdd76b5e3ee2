---------------------------- MODULE CameraFrames ----------------------------
(***************************************************************************)
(* The camera's side of ov7670_top.v: the capture on the camera's clock     *)
(* fills the immediate frame buffer, the downsampler reads it on the 100    *)
(* MHz clock of the detection.  Nothing tells the reader that the writer    *)
(* is done but the address it sees, 17 lines from the other clock without a *)
(* synchroniser: a sample taken while they change may take each bit from    *)
(* before or after the change.                                              *)
(*                                                                         *)
(* Tick is one edge of the 100 MHz clock; every CLOCK_RATIO of them the     *)
(* camera's clock ticks as well.  Meanwhile the camera is configured, and   *)
(* its frames may be longer until it is.  The configuration shares nothing  *)
(* with the frames but the length of the next one, so its steps commute     *)
(* with theirs; of all the orders, the one checked takes the steps of a     *)
(* configuration together, at the end of the last frame before it is done.  *)
(***************************************************************************)
EXTENDS CameraCapture, FrameDownsampler, I2cConfig

CONSTANTS
    CLOCK_RATIO,       \* 100 MHz to 25 MHz: 4
    AddressBits        \* bits of an address, numbered from 0 (0 .. 16)

ASSUME ClockAssumption ==
    /\ CLOCK_RATIO \in Nat \ {0}
    /\ AddressBits \subseteq Nat

VARIABLES
    phase,             \* edges since the camera's clock ticked
    early              \* history: the transfer began on an address never reached

vars == <<cameraVars, captureVars, cells, downsamplerVars, configVars,
          phase, early>>

Init ==
    /\ CaptureInit
    /\ DownsamplerInit
    /\ ConfigInit
    /\ phase = 0
    /\ early = FALSE

CameraTicks == phase = CLOCK_RATIO - 1

Bit(n, b) == (n \div 2^b) % 2

\* What a register clocked at 100 MHz may see of an address that changes.
Mixture(old, new) ==
    {n \in 0 .. ADDRESS_RANGE - 1 :
        \A b \in AddressBits : Bit(n, b) \in {Bit(old, b), Bit(new, b)}}

SampledAddress == IF CameraTicks THEN Mixture(address, address') ELSE {address}

BeginsAtFirst(seen) == seen = 0               \* faulty: as the frame begins
BeginsAt(seen) == seen = FRAME_SIZE - 1

\* The clock of the write port has its edge somewhere in a period of pclk.
WriteBuffer == cells' \in IF CameraTicks THEN {Written} ELSE {cells, Written}

\* ReadFrameBuffer of the downsampler, from the buffer as it is: a cell that
\* is being written reads as anything.
ReadCells ==
    tdata' \in IF ~obj_det_wren THEN {tdata}
               ELSE IF tdata_addr \notin Address \/ (we /\ address = tdata_addr) THEN Pixel
               ELSE {cells[tdata_addr]}

\* `frame' becomes the frame the camera is sending: what the transfer should read.
Transfer(sampledVsync, last) ==
    \/ BeginTransfer(sampledVsync, last) /\ frame' = scene
    \/ ShiftPixel(sampledVsync, last)
    \/ EndTransfer(sampledVsync, last)
    \/ AwaitFrame(sampledVsync, last)

\* No configuration is under way: it has not begun, or it is done.
BetweenConfigurations == ConfigInit \/ Config_Done

Tick ==
    /\ BetweenConfigurations
    /\ phase' = (phase + 1) % CLOCK_RATIO
    /\ IF CameraTicks THEN CaptureClock(Config_Done)
                       ELSE UNCHANGED <<cameraVars, captureVars>>
    /\ WriteBuffer
    /\ ReadCells
    /\ \E sampledVsync \in {vsync, vsync'}, seen \in SampledAddress :
        LET last == BeginsAt(seen) IN
        /\ Transfer(sampledVsync, last)
        /\ early' = IF ReadyToTransfer(last) THEN seen \notin {address, address'}
                                             ELSE early
    /\ UNCHANGED configVars

AtVsync ==
    /\ vsync /\ CameraTicks
    /\ ConfigTick
    /\ UNCHANGED <<cameraVars, captureVars, cells, downsamplerVars, phase, early>>

Next == Tick \/ AtVsync

Spec ==
    /\ Init /\ [][Next]_vars
    /\ WF_vars(Tick)
    /\ SF_vars(AtVsync)

-----------------------------------------------------------------------------
CameraTypeOK ==
    /\ CaptureTypeOK
    /\ DownsamplerTypeOK
    /\ ConfigTypeOK
    /\ phase \in 0 .. CLOCK_RATIO - 1
    /\ early \in BOOLEAN

\* The downsampler gets the frame it is promised: a transfer is a transfer of
\* FrameDownsampler, which reads one frame that does not change, although it
\* begins before the last pixel has been stored and the camera goes on with
\* the next frame while it lasts.  The exception is a transfer begun on a
\* sample the address never was: it may overtake the camera.
TransferReadsOneFrame ==
    [][\/ early
       \/ \E sampledVsync, last \in BOOLEAN : DownsamplerStep(sampledVsync, last)
      ]_downsamplerVars

\* The camera comes up: whatever it refuses, the configuration ends, and does
\* not begin again.  And frames keep coming: the address that starts a transfer
\* is reached in every frame, long or short, and is shown long enough to be
\* seen; a transfer ends.
CameraComesUp ==
    /\ <>[]Config_Done
    /\ []<>transfer /\ []<>~transfer

=============================================================================
