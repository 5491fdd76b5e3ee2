--------------------------- MODULE CameraCapture ----------------------------
(***************************************************************************)
(* ov7670_capture.v: pairs the bytes of the camera into pixels and gives    *)
(* each its address in the immediate frame buffer, which ov7670_top.v       *)
(* writes on the clock it sends the camera.  CaptureClock is one rising     *)
(* edge of the camera's pclk.                                               *)
(*                                                                         *)
(* The camera is external: after a vsync it sends the bytes of a frame, two *)
(* for a pixel, a line at a time with a pause after each.  Until it is      *)
(* configured its frames are longer (640 x 480): `length' pixels.           *)
(***************************************************************************)
EXTENDS DetectorConstants

CONSTANTS
    LINE_SIZE,         \* pixels of a line (320)
    EXTRA_PIXELS,      \* by how many a frame can be longer than FRAME_SIZE
    PAUSE,             \* clocks without a byte after a line, and before a frame
    ADDRESS_RANGE,     \* address_next counts modulo this (2^17)
    GarbledPixel       \* a word made of bytes that do not belong together

\* A pause gives the capture the two clocks it lags behind the camera.
ASSUME CameraAssumption ==
    /\ LINE_SIZE \in Nat \ {0}
    /\ FRAME_SIZE % LINE_SIZE = 0
    /\ EXTRA_PIXELS \in Nat /\ (FRAME_SIZE + EXTRA_PIXELS) % LINE_SIZE = 0
    /\ PAUSE \in Nat /\ PAUSE >= 2
    /\ ADDRESS_RANGE \in Nat /\ ADDRESS_RANGE > FRAME_SIZE
    /\ GarbledPixel \in Pixel

VARIABLES
    scene, length,                     \* the camera's frame,
    sent, half,                        \* pixels sent, and half of the next,
    rest, vsync,                       \* clocks to pause
    address, address_next,
    wr_hold,                           \* bits 0 and 1: low and high
    d_latch,                           \* the last two bytes
    dout, we,
    cells                              \* the immediate frame buffer

cameraVars == <<scene, length, sent, half, rest, vsync>>
captureVars == <<address, address_next, wr_hold, d_latch, dout, we>>

Byte == Pixel \X {"first", "second"}

href == ~vsync /\ rest = 0

\* What a longer frame shows past FRAME_SIZE pixels does not matter, nor what
\* the data lines hold between the lines.
d == <<IF ~href THEN GarbledPixel
       ELSE IF sent \in Address THEN scene[sent] ELSE BlackPixel,
       IF half THEN "second" ELSE "first">>

\* The 16 bits of the latch as one pixel.
Word(bytes) ==
    IF bytes[1][1] = bytes[2][1] /\ bytes[1][2] = "first" /\ bytes[2][2] = "second"
    THEN bytes[1][1] ELSE GarbledPixel

CaptureInit ==
    /\ scene \in Scenes
    /\ length \in {FRAME_SIZE, FRAME_SIZE + EXTRA_PIXELS}
    /\ sent = 0 /\ half = FALSE /\ rest = PAUSE /\ vsync = FALSE
    /\ address = 0 /\ address_next = 0
    /\ wr_hold = [low |-> FALSE, high |-> FALSE]
    /\ d_latch = <<<<BlackPixel, "first">>, <<BlackPixel, "first">>>>
    /\ dout = BlackPixel
    /\ we = FALSE
    /\ cells = [a \in Address |-> BlackPixel]

-----------------------------------------------------------------------------
(* The camera. *)

SendByte ==
    /\ href
    /\ half' = ~half
    /\ sent' = IF half THEN sent + 1 ELSE sent
    /\ rest' = IF half /\ (sent + 1) % LINE_SIZE = 0 THEN PAUSE ELSE 0
    /\ UNCHANGED <<scene, length, vsync>>

Rest ==
    /\ ~vsync /\ rest > 0
    /\ rest' = rest - 1
    /\ vsync' = (rest = 1 /\ sent = length)
    /\ UNCHANGED <<scene, length, sent, half>>

\* `configured': every entry of the camera's table has been acknowledged.
StartFrame(configured) ==
    /\ vsync
    /\ vsync' = FALSE
    /\ scene' \in Scenes
    /\ length' \in {FRAME_SIZE, IF configured THEN FRAME_SIZE
                                             ELSE FRAME_SIZE + EXTRA_PIXELS}
    /\ sent' = 0 /\ half' = FALSE
    /\ rest' = PAUSE

-----------------------------------------------------------------------------
(* The capture. *)

\* vsync leaves we, the latch and the output as they are.
CaptureVsync ==
    /\ vsync
    /\ address' = 0 /\ address_next' = 0
    /\ wr_hold' = [low |-> FALSE, high |-> FALSE]
    /\ UNCHANGED <<d_latch, dout, we>>

NextAddressUnbounded == address_next  \* faulty: does not stop at the end
NextAddressSkipping ==
    IF address < FRAME_SIZE - 2 THEN address_next ELSE FRAME_SIZE  \* faulty: ends early
NextAddress == IF address < FRAME_SIZE THEN address_next ELSE FRAME_SIZE

\* Every second byte the latch holds a pixel.
CaptureByte ==
    /\ ~vsync
    /\ address' = NextAddress
    /\ we' = wr_hold.high
    /\ wr_hold' = [low |-> href /\ ~wr_hold.low, high |-> wr_hold.low]
    /\ d_latch' = <<d_latch[2], d>>
    /\ IF wr_hold.high
         THEN /\ address_next' = IF address_next + 1 = ADDRESS_RANGE THEN 0
                                 ELSE address_next + 1
              /\ dout' = Word(d_latch)
         ELSE UNCHANGED <<address_next, dout>>

CaptureClock(configured) ==
    /\ SendByte \/ Rest \/ StartFrame(configured)
    /\ CaptureVsync \/ CaptureByte

\* The write port of the immediate frame buffer; there is no cell past the end.
WrittenAtNext == IF we /\ address_next \in Address  \* faulty: a register too soon
                   THEN [cells EXCEPT ![address_next] = dout] ELSE cells
Written == IF we /\ address \in Address THEN [cells EXCEPT ![address] = dout]
                                        ELSE cells

-----------------------------------------------------------------------------
CaptureTypeOK ==
    /\ scene \in Scenes
    /\ length \in {FRAME_SIZE, FRAME_SIZE + EXTRA_PIXELS}
    /\ sent \in 0 .. length
    /\ half \in BOOLEAN
    /\ rest \in 0 .. PAUSE
    /\ vsync \in BOOLEAN
    /\ address \in 0 .. FRAME_SIZE
    /\ address_next \in 0 .. ADDRESS_RANGE - 1
    /\ wr_hold \in [low : BOOLEAN, high : BOOLEAN]
    /\ d_latch \in Byte \X Byte
    /\ dout \in Pixel
    /\ we \in BOOLEAN
    /\ cells \in [Address -> Pixel]

\* When the camera announces the next frame, the buffer holds the one it has
\* just sent, every pixel at its place and whole, however many pixels more
\* the camera sent: the bytes are paired in step with the lines, the address
\* follows the pixel through three registers, and stops at the end of the
\* buffer although address_next runs on and wraps.
FrameIsStored == vsync => cells = scene

=============================================================================
