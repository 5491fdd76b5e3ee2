---------------------------- MODULE CameraProofs ----------------------------
(***************************************************************************)
(* Proofs about CameraFrames for every size of frames, lines and pauses and *)
(* every table: a frame is stored whole, and the configuration is done only *)
(* when the camera has acknowledged all of it.                              *)
(***************************************************************************)
EXTENDS CameraFrames, Integers, TLAPS

\* Pixels that have reached the capture's output register.
Captured == IF wr_hold.high THEN sent - 1 ELSE sent

\* Of these, the ones whose address has been left again.
Stored == IF we THEN Captured - 1 ELSE Captured

CameraShape ==
    /\ scene \in [Address -> Pixel]
    /\ length \in Nat /\ length >= FRAME_SIZE /\ length % LINE_SIZE = 0
    /\ sent \in Nat /\ sent <= length
    /\ rest \in Nat /\ rest <= PAUSE
    /\ half \in BOOLEAN /\ vsync \in BOOLEAN
    /\ href => sent < length
    /\ half => href
    /\ vsync => rest = 0 /\ sent = length

\* The shift register in step with the bytes of a line.
PairingShape ==
    /\ wr_hold \in [low : BOOLEAN, high : BOOLEAN]
    /\ we \in BOOLEAN
    /\ wr_hold.low = half
    /\ wr_hold.high => ~half /\ ~we /\ sent >= 1
    /\ we => Captured >= 1
    /\ ~href /\ rest < PAUSE => ~wr_hold.high
    /\ ~href /\ rest < PAUSE - 1 => ~we

\* The bytes and the pixel under way are the camera's.
LatchShape ==
    /\ d_latch \in Byte \X Byte
    /\ dout \in Pixel
    /\ half /\ sent \in Address => d_latch[2] = <<scene[sent], "first">>
    /\ wr_hold.high /\ sent - 1 \in Address =>
            d_latch = <<<<scene[sent - 1], "first">>, <<scene[sent - 1], "second">>>>
    /\ we /\ Captured - 1 \in Address => dout = scene[Captured - 1]

\* The address follows the pixels, and stops at the end of the buffer.
AddressShape ==
    /\ address_next \in Nat
    /\ Captured <= FRAME_SIZE => address_next = Captured
    /\ address = IF Stored < FRAME_SIZE THEN Stored ELSE FRAME_SIZE

BufferShape ==
    /\ cells \in [Address -> Pixel]
    /\ \A a \in Address : a < Stored => cells[a] = scene[a]

CaptureInv ==
    CameraShape /\ PairingShape /\ LatchShape /\ AddressShape /\ BufferShape

-----------------------------------------------------------------------------
ConfigTypes ==
    /\ LUT_INDEX \in Nat /\ LUT_INDEX <= LUT_SIZE
    /\ mSetup_ST \in 0 .. 2 /\ SD_COUNTER \in Nat
    /\ mI2C_GO \in BOOLEAN /\ mI2C_WR \in BOOLEAN /\ END \in BOOLEAN
    /\ ACKW \in [Byte3 -> BOOLEAN] /\ ACKR \in [Byte3 -> BOOLEAN]

\* The walk of the table, and that a transfer begins with the count at zero.
WalkShape ==
    /\ mSetup_ST # 0 \/ mI2C_GO => LUT_INDEX < LUT_SIZE
    /\ mSetup_ST # 1 => SD_COUNTER = 0
    /\ mSetup_ST = 1 => mI2C_GO
    /\ mSetup_ST = 2 => ~mI2C_GO
    /\ Config_Done => LUT_INDEX = LUT_SIZE

\* The transfer on the wire is of the entry at hand, and a flag is down only
\* for a byte of this transfer.
Sending == mSetup_ST = 1 /\ SD_COUNTER > 1

WireShape ==
    /\ heard \subseteq Byte3
    /\ Sending => transfer_of = LUT_INDEX
    /\ \A i \in Byte3 : Sending /\ ~Refused(i) => i \in heard

\* What has been acknowledged, and what the walk is about to take for it.
AckShape ==
    /\ acknowledged \subseteq 0 .. LUT_SIZE - 1
    /\ \A n \in Nat : n < LUT_INDEX => n \in acknowledged
    /\ mSetup_ST = 2 => LUT_INDEX \in acknowledged
    /\ mSetup_ST = 1 /\ END /\ ~ACK => LUT_INDEX \in acknowledged

ConfigInv == ConfigTypes /\ WalkShape /\ WireShape /\ AckShape

-----------------------------------------------------------------------------
(* The configuration. *)

\* Where the controller is when the walk starts or ends a transfer: its flags
\* are cleared, and the count is at most 1.
LEMMA FlagsAreCleared ==
    ASSUME ConfigInv, ConfigTick, mSetup_ST # 1
    PROVE  ClearFlags /\ SD_COUNTER' \in {0, 1}
<1>1. SD_COUNTER = 0
    BY DEF ConfigInv, WalkShape
<1>2. \A i \in Byte3 : AckAt[i] # 0
    BY TransferAssumption DEF AckAt, Byte3
<1>3. EndAt # 0
    BY TransferAssumption DEF EndAt, Byte3
<1> QED
    BY <1>1, <1>2, <1>3 DEF ConfigTick, Controller, CountBits, SendStart, SampleAck,
       SendStop, ShiftBit

LEMMA ConfigTypesStep == ConfigInv /\ ConfigTick => ConfigTypes'
<1> SUFFICES ASSUME ConfigInv, ConfigTick PROVE ConfigTypes'
    OBVIOUS
<1>1. ACKW' \in [Byte3 -> BOOLEAN] /\ ACKR' \in [Byte3 -> BOOLEAN] /\ END' \in BOOLEAN
    BY DEF ConfigInv, ConfigTypes, ConfigTick, Controller, ClearFlags, SendStart, SampleAck,
       SendStop, ShiftBit, NoAck
<1>2. SD_COUNTER' \in Nat
    BY DEF ConfigInv, ConfigTypes, ConfigTick, Controller, CountBits
<1>3. LUT_INDEX' \in Nat /\ LUT_INDEX' <= LUT_SIZE
    BY TransferAssumption DEF ConfigInv, ConfigTypes, ConfigTick, StartTransfer, AwaitTransfer,
       NextEntry, Configured, Walking
<1>4. mSetup_ST' \in 0 .. 2
    BY DEF ConfigInv, ConfigTypes, ConfigTick, StartTransfer, AwaitTransfer, NextEntry,
       Configured
<1>5. mI2C_GO' \in BOOLEAN /\ mI2C_WR' \in BOOLEAN
  <2>1. CASE StartTransfer
    <3>1. (LUT_INDEX >= READS) \in BOOLEAN
        BY DEF ConfigInv, ConfigTypes
    <3> QED
        BY <2>1, <3>1, Zenon DEF StartTransfer
  <2>2. CASE AwaitTransfer
      BY <2>2, Zenon DEF AwaitTransfer, ConfigInv, ConfigTypes
  <2>3. CASE NextEntry \/ Configured
      BY <2>3, Zenon DEF NextEntry, Configured
  <2> QED
      BY <2>1, <2>2, <2>3 DEF ConfigTick
<1> QED
    BY <1>1, <1>2, <1>3, <1>4, <1>5 DEF ConfigTypes

LEMMA WalkShapeStep == ConfigInv /\ ConfigTick => WalkShape'
<1> SUFFICES ASSUME ConfigInv, ConfigTick PROVE WalkShape'
    OBVIOUS
<1>1. END => SD_COUNTER' = 0
    BY DEF ConfigTick, Controller, CountBits
<1>2. ~mI2C_GO => SD_COUNTER' = 0
    BY DEF ConfigTick, Controller, CountBits
<1> QED
    BY <1>1, <1>2, TransferAssumption DEF ConfigInv, ConfigTypes, WalkShape, ConfigTick,
       StartTransfer, AwaitTransfer, NextEntry, Configured, Walking

\* While a transfer goes on, its entry and its direction stay.
LEMMA TransferStays ==
    ASSUME ConfigInv, ConfigTick, Sending'
    PROVE  /\ mSetup_ST = 1 /\ mI2C_GO /\ SD_COUNTER >= 1
           /\ mI2C_WR' = mI2C_WR /\ LUT_INDEX' = LUT_INDEX
<1>1. mSetup_ST = 1
    BY FlagsAreCleared DEF Sending
<1>2. mI2C_GO /\ SD_COUNTER >= 1
    BY <1>1 DEF ConfigInv, ConfigTypes, WalkShape, ConfigTick, Controller, CountBits, Sending
<1>3. AwaitTransfer
    BY <1>1 DEF ConfigTick, StartTransfer, AwaitTransfer, NextEntry, Configured, ConfigInv,
       WalkShape, Walking
<1>4. ~END
    BY <1>3 DEF AwaitTransfer, Sending
<1> QED
    BY <1>1, <1>2, <1>3, <1>4 DEF AwaitTransfer

LEMMA WireShapeStep == ConfigInv /\ ConfigTick => WireShape'
<1> SUFFICES ASSUME ConfigInv, ConfigTick PROVE WireShape'
    OBVIOUS
<1>1. heard' \subseteq Byte3
    BY DEF ConfigInv, WireShape, ConfigTick, Controller, ClearFlags, SendStart, SampleAck,
       SendStop, ShiftBit
<1>2. ASSUME Sending'
      PROVE  transfer_of' = LUT_INDEX' /\ \A i \in Byte3 : ~Refused(i)' => i \in heard'
  <2>1. /\ mSetup_ST = 1 /\ mI2C_GO /\ SD_COUNTER >= 1
        /\ mI2C_WR' = mI2C_WR /\ LUT_INDEX' = LUT_INDEX
      BY <1>2, TransferStays
  <2>2. CASE SendStart
      BY <2>1, <2>2 DEF SendStart, NoAck, Refused
  <2>3. SD_COUNTER # 1 => Sending
      BY <2>1 DEF Sending, ConfigInv, ConfigTypes
  <2>4. CASE SampleAck
    <3>1. SD_COUNTER # 1
        BY <2>4, TransferAssumption DEF SampleAck, AckAt
    <3>2. transfer_of' = LUT_INDEX'
        BY <2>1, <2>3, <2>4, <3>1 DEF SampleAck, ConfigInv, WireShape
    <3>3. ASSUME NEW i \in Byte3, ~Refused(i)' PROVE i \in heard'
      <4>1. PICK j \in Byte3, high \in BOOLEAN :
              /\ IF high THEN refusals < MAX_REFUSALS /\ refusals' = refusals + 1
                             /\ UNCHANGED heard
                         ELSE heard' = heard \union {j} /\ UNCHANGED refusals
              /\ IF mI2C_WR THEN ACKW' = [ACKW EXCEPT ![j] = high] /\ UNCHANGED ACKR
                            ELSE ACKR' = [ACKR EXCEPT ![j] = high] /\ UNCHANGED ACKW
          BY <2>4 DEF SampleAck
      <4>2. CASE i = j
        <5>1. ~high
            BY <2>1, <3>3, <4>1, <4>2 DEF Refused, ConfigInv, ConfigTypes
        <5> QED
            BY <4>1, <4>2, <5>1
      <4>3. CASE i # j
        <5>1. ~Refused(i)
            BY <2>1, <3>3, <4>1, <4>3 DEF Refused, ConfigInv, ConfigTypes
        <5> QED
            BY <4>1, <5>1, <2>3, <3>1 DEF ConfigInv, WireShape
      <4> QED
          BY <4>2, <4>3
    <3> QED
        BY <3>2, <3>3
  <2>5. CASE SendStop \/ ShiftBit
    <3>1. SD_COUNTER # 1
        BY <2>5, TransferAssumption DEF SendStop, ShiftBit, EndAt, Byte3
    <3> QED
        BY <2>1, <2>3, <2>5, <3>1 DEF SendStop, ShiftBit, ConfigInv, WireShape, Refused
  <2> QED
      BY <2>1, <2>2, <2>4, <2>5 DEF ConfigTick, Controller, ClearFlags
<1> QED
    BY <1>1, <1>2 DEF WireShape

LEMMA AckShapeStep == ConfigInv /\ ConfigTick => AckShape'
<1> SUFFICES ASSUME ConfigInv, ConfigTick PROVE AckShape'
    OBVIOUS
<1>1. acknowledged \subseteq acknowledged'
    BY DEF ConfigTick, Controller, ClearFlags, SendStart, SampleAck, SendStop, ShiftBit
<1>2. acknowledged' \subseteq 0 .. LUT_SIZE - 1
  <2>1. CASE SendStop
    <3>1. Sending
        BY <2>1, TransferAssumption DEF SendStop, EndAt, Sending, ConfigInv, ConfigTypes,
           WalkShape, Byte3
    <3>2. transfer_of \in 0 .. LUT_SIZE - 1
        BY <3>1, TransferAssumption DEF ConfigInv, ConfigTypes, WalkShape, WireShape, Sending
    <3> QED
        BY <2>1, <3>2 DEF SendStop, ConfigInv, AckShape
  <2> QED
      BY <2>1 DEF ConfigTick, Controller, ClearFlags, SendStart, SampleAck, ShiftBit, ConfigInv,
         AckShape
<1>3. ASSUME mSetup_ST' = 2 PROVE LUT_INDEX' \in acknowledged'
  <2>1. AwaitTransfer /\ mSetup_ST # 2
      BY <1>3 DEF ConfigTick, StartTransfer, AwaitTransfer, NextEntry, Configured
  <2>2. CASE END
    <3>1. ~ACK /\ LUT_INDEX' = LUT_INDEX
        BY <1>3, <2>1, <2>2 DEF AwaitTransfer
    <3> QED
        BY <1>1, <2>1, <2>2, <3>1 DEF AwaitTransfer, ConfigInv, AckShape
  <2>3. CASE ~END
      BY <1>3, <2>1, <2>3 DEF AwaitTransfer
  <2> QED
      BY <2>2, <2>3
<1>4. \A n \in Nat : n < LUT_INDEX' => n \in acknowledged'
    BY <1>1 DEF ConfigTick, StartTransfer, AwaitTransfer, NextEntry, Configured, ConfigInv,
       ConfigTypes, AckShape
<1>5. ASSUME mSetup_ST' = 1, END', ~ACK' PROVE LUT_INDEX' \in acknowledged'
  <2>1. mSetup_ST = 1 /\ ~END
    <3>1. mSetup_ST = 1
        BY <1>5, FlagsAreCleared DEF ClearFlags
    <3> QED
        BY <1>5, <3>1 DEF ConfigTick, StartTransfer, AwaitTransfer, NextEntry, Configured
  <2>2. SendStop
      BY <1>5, <2>1 DEF ConfigTick, Controller, ClearFlags, SendStart, SampleAck, ShiftBit
  <2>3. mI2C_WR' = mI2C_WR /\ LUT_INDEX' = LUT_INDEX
    <3>1. AwaitTransfer
        BY <2>1 DEF ConfigTick, StartTransfer, NextEntry, Configured, ConfigInv, WalkShape,
           Walking
    <3> QED
        BY <2>1, <3>1 DEF AwaitTransfer
  <2>4. Sending
      BY <2>1, <2>2, TransferAssumption DEF SendStop, EndAt, Sending, ConfigInv, ConfigTypes, Byte3
  <2>5. \A i \in Byte3 : ~Refused(i)
      BY <1>5, <2>2, <2>3 DEF ACK, Refused, SendStop
  <2>6. heard = Byte3 /\ transfer_of = LUT_INDEX
      BY <2>4, <2>5 DEF ConfigInv, WireShape
  <2> QED
      BY <2>2, <2>3, <2>6 DEF SendStop
<1> QED
    BY <1>2, <1>3, <1>4, <1>5 DEF AckShape

\* The walk and the wire, at power-up and in every reachable state.
LEMMA InitConfig == Init => ConfigInv
<1> SUFFICES ASSUME ConfigInit PROVE ConfigInv
    BY DEF Init
<1>0. NoAck \in [Byte3 -> BOOLEAN]
    BY DEF NoAck
<1>1. ConfigTypes
  <2>1. ACKW \in [Byte3 -> BOOLEAN] /\ ACKR \in [Byte3 -> BOOLEAN]
      BY <1>0, Zenon DEF ConfigInit
  <2>2. mI2C_GO \in BOOLEAN /\ mI2C_WR \in BOOLEAN /\ END \in BOOLEAN
      BY Zenon DEF ConfigInit
  <2>3. /\ LUT_INDEX \in Nat /\ LUT_INDEX <= LUT_SIZE
        /\ mSetup_ST \in 0 .. 2 /\ SD_COUNTER \in Nat
      BY TransferAssumption DEF ConfigInit
  <2> QED
      BY <2>1, <2>2, <2>3 DEF ConfigTypes
<1>3. WalkShape
    BY DEF ConfigInit, WalkShape
<1>2. WireShape /\ AckShape
    BY TransferAssumption DEF ConfigInit, WireShape, AckShape, Sending
<1> QED
    BY <1>1, <1>2, <1>3 DEF ConfigInv

LEMMA NextConfig == ConfigInv /\ [Next]_vars => ConfigInv'
<1> SUFFICES ASSUME ConfigInv, [Next]_vars PROVE ConfigInv'
    OBVIOUS
<1>1. CASE UNCHANGED configVars
    BY <1>1 DEF ConfigInv, ConfigTypes, WalkShape, WireShape, AckShape, Sending, Refused,
       ACK, configVars
<1>2. CASE ConfigTick
    BY <1>2, ConfigTypesStep, WalkShapeStep, WireShapeStep, AckShapeStep DEF ConfigInv
<1> QED
    BY <1>1, <1>2 DEF Next, Tick, AtVsync, vars

LEMMA SpecConfig == Spec => []ConfigInv
BY InitConfig, NextConfig, PTL DEF Spec

\* The configuration is done only when every entry of the table has been
\* acknowledged by the camera, for every table and every pattern of refusals.
THEOREM OnlyAcknowledgedEntries == Spec => []DoneMeansAcknowledged
<1>1. ConfigInv => DoneMeansAcknowledged
  <2> SUFFICES ASSUME ConfigInv PROVE DoneMeansAcknowledged
      OBVIOUS
  <2>1. 0 .. LUT_INDEX - 1 \subseteq acknowledged
      BY DEF ConfigInv, ConfigTypes, AckShape
  <2>2. ASSUME Config_Done PROVE acknowledged = 0 .. LUT_SIZE - 1
    <3>1. LUT_INDEX = LUT_SIZE
        BY <2>2 DEF ConfigInv, WalkShape
    <3>2. 0 .. LUT_SIZE - 1 \subseteq acknowledged
        BY <2>1, <3>1
    <3> QED
        BY <3>2 DEF ConfigInv, AckShape
  <2> QED
      BY <2>1, <2>2 DEF DoneMeansAcknowledged
<1> QED
    BY <1>1, SpecConfig, PTL

-----------------------------------------------------------------------------
(* The capture. *)

\* Between two clocks of the camera only the pending pixel is written.
LEMMA WriteKeeps ==
    CaptureInv /\ UNCHANGED <<cameraVars, captureVars>> /\ cells' \in {cells, Written}
        => CaptureInv'
<1> SUFFICES ASSUME CaptureInv, UNCHANGED <<cameraVars, captureVars>>,
                    cells' \in {cells, Written}
             PROVE CaptureInv'
    OBVIOUS
<1>1. CameraShape' /\ PairingShape' /\ LatchShape' /\ AddressShape'
    BY DEF CaptureInv, CameraShape, PairingShape, LatchShape, AddressShape, cameraVars,
           captureVars, href, Captured, Stored
<1>2. BufferShape'
    BY FrameSizeAssumption DEF CaptureInv, CameraShape, PairingShape, LatchShape,
           AddressShape, BufferShape, cameraVars, captureVars, Captured, Stored,
           Written, Address
<1> QED
    BY <1>1, <1>2 DEF CaptureInv
\* The camera keeps to its frame: it pauses when all pixels are sent.
LEMMA CameraKeeps ==
    CameraShape /\ CaptureClock(Config_Done) => CameraShape'
<1> SUFFICES ASSUME CameraShape, CaptureClock(Config_Done) PROVE CameraShape'
    OBVIOUS
<1> USE FrameSizeAssumption, CameraAssumption
<1>1. CASE SendByte
  <2>1. half /\ (sent + 1) % LINE_SIZE # 0 => sent + 1 < length
      BY <1>1 DEF SendByte, CameraShape
  <2> QED
      BY <1>1, <2>1 DEF SendByte, CameraShape, href
<1>2. CASE Rest
  <2>1. vsync' \in BOOLEAN
    <3>1. (rest = 1 /\ sent = length) \in BOOLEAN
        BY Zenon
    <3> QED
        BY <1>2, <3>1, Zenon DEF Rest
  <2>2. length' % LINE_SIZE = 0
      BY <1>2, Zenon DEF Rest, CameraShape
  <2>3. half' \in BOOLEAN /\ (half' => href')
      BY <1>2 DEF Rest, CameraShape, href
  <2>4. rest' \in Nat /\ rest' <= PAUSE
      BY <1>2 DEF Rest, CameraShape
  <2>5. href' => sent' < length'
    <3> SUFFICES ASSUME href' PROVE sent' < length'
        OBVIOUS
    <3>1. rest = 1 /\ ~(rest = 1 /\ sent = length)
      <4>1. ~vsync' /\ rest' = 0
          BY Zenon DEF href
      <4>2. ~(rest = 1 /\ sent = length)
          BY <1>2, <4>1, Zenon DEF Rest
      <4>3. rest = 1
          BY <1>2, <4>1 DEF Rest, CameraShape
      <4> QED
          BY <4>2, <4>3
    <3> QED
        BY <1>2, <3>1 DEF Rest, CameraShape
  <2>6. vsync' => rest' = 0 /\ sent' = length'
    <3> SUFFICES ASSUME vsync' PROVE rest' = 0 /\ sent' = length'
        OBVIOUS
    <3>1. rest = 1 /\ sent = length
        BY <1>2, Zenon DEF Rest
    <3> QED
        BY <1>2, <3>1 DEF Rest
  <2> QED
      BY <1>2, <2>1, <2>2, <2>3, <2>4, <2>5, <2>6 DEF Rest, CameraShape
<1>3. CASE StartFrame(Config_Done)
  <2>1. scene' \in [Address -> Pixel]
      BY <1>3, ScenesAssumption DEF StartFrame
  <2>2. length' \in {FRAME_SIZE, FRAME_SIZE + EXTRA_PIXELS}
      BY <1>3, Zenon DEF StartFrame
  <2>3. length' \in Nat /\ length' >= FRAME_SIZE
      BY <2>2
  <2>4. length' % LINE_SIZE = 0
      BY <2>2, Zenon
  <2>5. vsync' = FALSE /\ half' = FALSE /\ sent' = 0 /\ rest' = PAUSE
      BY <1>3 DEF StartFrame
  <2>6. half' \in BOOLEAN /\ vsync' \in BOOLEAN
      BY <2>5, Zenon
  <2>7. ~href' /\ ~half' /\ ~vsync'
      BY <2>5 DEF href
  <2>8. sent' \in Nat /\ sent' <= length' /\ rest' \in Nat /\ rest' <= PAUSE
      BY <2>3, <2>5
  <2> QED
      BY <2>1, <2>3, <2>4, <2>6, <2>7, <2>8, Zenon DEF CameraShape
<1> QED
    BY <1>1, <1>2, <1>3 DEF CaptureClock

\* How far the capture gets in a clock with a byte, or none, on its lines.
LEMMA CaptureMoves ==
    ASSUME CaptureInv, CaptureClock(Config_Done), ~vsync
    PROVE  /\ CaptureByte
           /\ wr_hold' \in [low : BOOLEAN, high : BOOLEAN] /\ we' \in BOOLEAN
           /\ wr_hold'.low <=> (href /\ ~half)
           /\ wr_hold'.high <=> half
           /\ we' <=> wr_hold.high
           /\ Stored' = Captured
           /\ Captured' = IF wr_hold.high THEN Captured + 1 ELSE Captured
<1>1. CaptureByte
    BY DEF CaptureClock, CaptureVsync
<1>2. wr_hold' \in [low : BOOLEAN, high : BOOLEAN] /\ we' \in BOOLEAN
  <2>1. (href /\ ~wr_hold.low) \in BOOLEAN
      BY Zenon
  <2> QED
      BY <1>1, <2>1, Zenon DEF CaptureByte, CaptureInv, PairingShape
<1>3. wr_hold'.low <=> (href /\ ~half)
    BY <1>1 DEF CaptureByte, CaptureInv, PairingShape
<1>4. wr_hold'.high <=> half
    BY <1>1 DEF CaptureByte, CaptureInv, PairingShape
<1>5. we' <=> wr_hold.high
    BY <1>1 DEF CaptureByte
<1>6. sent' = IF half THEN sent + 1 ELSE sent
    BY DEF CaptureClock, SendByte, Rest, StartFrame, CaptureInv, CameraShape, href
<1>7. Captured' = IF wr_hold.high THEN Captured + 1 ELSE Captured
    BY <1>4, <1>6 DEF Captured, CaptureInv, CameraShape, PairingShape
<1>8. Stored' = Captured
    BY <1>5, <1>7 DEF Stored, Captured, CaptureInv, CameraShape, PairingShape
<1> QED
    BY <1>1, <1>2, <1>3, <1>4, <1>5, <1>7, <1>8

LEMMA CaptureKeeps ==
    CaptureInv /\ CaptureClock(Config_Done) /\ cells' = Written => CaptureInv'
<1> SUFFICES ASSUME CaptureInv, CaptureClock(Config_Done), cells' = Written
             PROVE  CaptureInv'
    OBVIOUS
<1> USE FrameSizeAssumption, CameraAssumption
<1>1. CameraShape'
    BY CameraKeeps DEF CaptureInv
<1>2. CASE vsync
  <2>1. StartFrame(Config_Done) /\ CaptureVsync
      BY <1>2 DEF CaptureClock, SendByte, Rest, CaptureByte, href
  <2>2. ~we /\ ~wr_hold.high
      BY <1>2 DEF CaptureInv, CameraShape, PairingShape, href
  <2>3. PairingShape'
      BY <2>1, <2>2 DEF StartFrame, CaptureVsync, CaptureInv, PairingShape, Captured, href
  <2>4. Captured' = 0 /\ Stored' = 0
      BY <2>1, <2>2 DEF StartFrame, CaptureVsync, Captured, Stored
  <2>5. LatchShape'
      BY <2>1, <2>2 DEF StartFrame, CaptureVsync, CaptureInv, LatchShape
  <2>6. AddressShape'
      BY <2>1, <2>4 DEF CaptureVsync, AddressShape
  <2>7. BufferShape'
      BY <2>2, <2>4 DEF Written, CaptureInv, BufferShape, Address
  <2> QED
      BY <1>1, <2>3, <2>5, <2>6, <2>7 DEF CaptureInv
<1>3. CASE ~vsync
  <2>1. /\ CaptureByte
        /\ wr_hold' \in [low : BOOLEAN, high : BOOLEAN] /\ we' \in BOOLEAN
        /\ wr_hold'.low <=> (href /\ ~half)
        /\ wr_hold'.high <=> half
        /\ we' <=> wr_hold.high
        /\ Stored' = Captured
        /\ Captured' = IF wr_hold.high THEN Captured + 1 ELSE Captured
      BY <1>3, CaptureMoves
  <2>2. Captured \in Nat /\ Stored \in Nat
      BY DEF CaptureInv, CameraShape, PairingShape, Captured, Stored
  <2>3. UNCHANGED scene
      BY <1>3 DEF CaptureClock, SendByte, Rest, StartFrame
  <2>4. PairingShape'
    <3>1. wr_hold'.low = half'
        BY <1>1, <1>3, <2>1 DEF CaptureClock, SendByte, Rest, StartFrame, CaptureInv, CameraShape,
           PairingShape, href
    <3>2. wr_hold'.high => ~half' /\ ~we' /\ sent' >= 1
        BY <1>3, <2>1 DEF CaptureClock, SendByte, Rest, StartFrame, CaptureInv, CameraShape,
           PairingShape, href
    <3>3. we' => Captured' >= 1
        BY <2>1, <2>2
    <3>4. ~href' /\ rest' < PAUSE => ~wr_hold'.high
        BY <1>3, <2>1 DEF CaptureClock, SendByte, Rest, StartFrame, CaptureInv, CameraShape,
           PairingShape, href
    <3>5. ~href' /\ rest' < PAUSE - 1 => ~we'
        BY <1>3, <2>1 DEF CaptureClock, SendByte, Rest, StartFrame, CaptureInv, CameraShape,
           PairingShape, href
    <3> QED
        BY <2>1, <3>1, <3>2, <3>3, <3>4, <3>5 DEF PairingShape
  <2>5. LatchShape'
    <3>1. d \in Byte
        BY PixelAssumption DEF d, Byte, Address, CaptureInv, CameraShape
    <3>2. d_latch' \in Byte \X Byte /\ dout' \in Pixel
      <4>1. Word(d_latch) \in Pixel
          BY DEF Word, Byte, CaptureInv, LatchShape
      <4> QED
          BY <2>1, <3>1, <4>1 DEF CaptureByte, CaptureInv, LatchShape
    <3>3. ASSUME half', sent' \in Address PROVE d_latch'[2] = <<scene'[sent'], "first">>
      <4>1. ~half /\ href /\ sent' = sent
        <5>1. CASE SendByte
            BY <3>3, <5>1 DEF SendByte
        <5>2. CASE Rest
            BY <3>3, <5>2 DEF Rest, CaptureInv, CameraShape, href
        <5> QED
            BY <1>3, <5>1, <5>2 DEF CaptureClock, StartFrame
      <4>2. d = <<scene[sent], "first">>
          BY <3>3, <4>1 DEF d
      <4> QED
          BY <2>1, <2>3, <4>1, <4>2 DEF CaptureByte
    <3>4. ASSUME wr_hold'.high, sent' - 1 \in Address
          PROVE  d_latch' = <<<<scene'[sent' - 1], "first">>, <<scene'[sent' - 1], "second">>>>
      <4>1. half /\ href /\ sent' - 1 = sent
          BY <2>1, <3>4, <1>3 DEF CaptureClock, SendByte, Rest, StartFrame, CaptureInv, CameraShape,
             href
      <4>2. d_latch[2] = <<scene[sent], "first">> /\ d = <<scene[sent], "second">>
          BY <3>4, <4>1 DEF CaptureInv, LatchShape, d
      <4> QED
          BY <2>1, <2>3, <4>1, <4>2 DEF CaptureByte
    <3>5. ASSUME we', Captured' - 1 \in Address PROVE dout' = scene'[Captured' - 1]
      <4>1. wr_hold.high /\ Captured' - 1 = Captured /\ Captured = sent - 1
          BY <2>1, <2>2, <3>5 DEF Captured
      <4>2. Word(d_latch) = scene[sent - 1]
          BY <3>5, <4>1 DEF CaptureInv, LatchShape, Word
      <4> QED
          BY <2>1, <2>3, <4>1, <4>2 DEF CaptureByte
    <3> QED
        BY <3>2, <3>3, <3>4, <3>5 DEF LatchShape
  <2>6. AddressShape'
    <3>1. address_next' \in Nat
        BY <2>1 DEF CaptureByte, CaptureInv, AddressShape
    <3>2. Captured' <= FRAME_SIZE => address_next' = Captured'
        BY <2>1, <2>2 DEF CaptureByte, CaptureInv, AddressShape
    <3>3. address' = IF Stored' < FRAME_SIZE THEN Stored' ELSE FRAME_SIZE
        BY <2>1, <2>2 DEF CaptureByte, NextAddress, CaptureInv, AddressShape, PairingShape, Stored
    <3> QED
        BY <3>1, <3>2, <3>3 DEF AddressShape
  <2>7. BufferShape'
    <3>1. CASE we /\ address \in Address
        BY <2>1, <2>2, <2>3, <3>1 DEF Written, CaptureInv, BufferShape, AddressShape, LatchShape,
           Stored, Address
    <3>2. CASE ~(we /\ address \in Address)
        BY <2>1, <2>2, <2>3, <3>2 DEF Written, CaptureInv, BufferShape, AddressShape, Stored,
           Address, PairingShape
    <3> QED
        BY <3>1, <3>2
  <2> QED
      BY <1>1, <2>4, <2>5, <2>6, <2>7 DEF CaptureInv
<1> QED
    BY <1>2, <1>3

\* What is captured and stored, at power-up and in every reachable state.
LEMMA InitCapture == Init => CaptureInv
<1> SUFFICES ASSUME CaptureInit PROVE CaptureInv
    BY DEF Init
<1> USE FrameSizeAssumption, CameraAssumption, PixelAssumption DEF CaptureInit
<1>1. Captured = 0 /\ Stored = 0
    BY DEF Captured, Stored
<1>2. CameraShape
  <2>1. scene \in [Address -> Pixel]
      BY ScenesAssumption
  <2>2. length \in {FRAME_SIZE, FRAME_SIZE + EXTRA_PIXELS}
      BY Zenon
  <2>3. length \in Nat /\ length >= FRAME_SIZE
      BY <2>2
  <2>4. length % LINE_SIZE = 0
      BY <2>2, Zenon
  <2>5. half \in BOOLEAN /\ vsync \in BOOLEAN
      BY Zenon
  <2> QED
      BY <2>1, <2>3, <2>4, <2>5 DEF CameraShape, href
<1>3. PairingShape
    BY DEF PairingShape, href
<1>4. LatchShape
    BY DEF LatchShape, Byte
<1>5. AddressShape /\ BufferShape
    BY <1>1 DEF AddressShape, BufferShape, Address
<1> QED
    BY <1>2, <1>3, <1>4, <1>5 DEF CaptureInv

LEMMA NextCapture == CaptureInv /\ [Next]_vars => CaptureInv'
<1> SUFFICES ASSUME CaptureInv, [Next]_vars PROVE CaptureInv'
    OBVIOUS
<1>1. CASE Tick /\ CameraTicks
    BY <1>1, CaptureKeeps DEF Tick, WriteBuffer
<1>2. CASE Tick /\ ~CameraTicks
    BY <1>2, WriteKeeps DEF Tick, WriteBuffer
<1>3. CASE AtVsync \/ UNCHANGED vars
    BY <1>3, WriteKeeps DEF AtVsync, vars
<1> QED
    BY <1>1, <1>2, <1>3 DEF Next

LEMMA SpecCapture == Spec => []CaptureInv
BY InitCapture, NextCapture, PTL DEF Spec

\* When the camera announces the next frame the buffer holds the last, for
\* every size, and wherever in a period the buffer's clock has its edge.
THEOREM FramesAreStored == Spec => []FrameIsStored
<1>1. CaptureInv => FrameIsStored
  <2> SUFFICES ASSUME CaptureInv, vsync PROVE cells = scene
      BY DEF FrameIsStored
  <2>1. Stored >= FRAME_SIZE
      BY FrameSizeAssumption, CameraAssumption DEF CaptureInv, CameraShape, PairingShape, Stored,
         Captured, href
  <2>2. \A a \in Address : cells[a] = scene[a]
      BY <2>1, FrameSizeAssumption DEF CaptureInv, CameraShape, PairingShape, BufferShape, Address,
         Stored, Captured
  <2> QED
      BY <2>2 DEF CaptureInv, CameraShape, BufferShape
<1> QED
    BY <1>1, SpecCapture, PTL

-----------------------------------------------------------------------------
(* The reader. *)

\* What a transfer needs of the clocks: the last pixel of a frame follows the
\* one before it without a pause, and the reader takes longer to get to it than
\* the camera.  (The design has lines of 320 pixels, 4 clocks to one of the
\* camera, and 76800 pixels.)
ReaderKeepsBehind == LINE_SIZE >= 2 /\ FRAME_SIZE > 2 * CLOCK_RATIO

\* Within a line a byte follows every byte, so the last pixel is on its way
\* when the one before it has been stored.
LineShape ==
    /\ wr_hold.high /\ sent % LINE_SIZE # 0 => href
    /\ we /\ sent % LINE_SIZE # 0 => half
    /\ Stored = FRAME_SIZE - 1 => wr_hold.high \/ we

\* Of the frame being read only the last pixel may still be missing, and it
\* comes before the reader.
Finishing ==
    /\ frame = scene
    /\ Stored >= FRAME_SIZE - 1
    /\ Stored = FRAME_SIZE - 1 => cnt <= phase + IF we THEN CLOCK_RATIO ELSE 0

\* The camera has gone on to the next frame; the reader is ahead of it.
Ahead ==
    /\ cnt >= 2 * sent + IF half THEN 1 ELSE 0
    /\ \A a \in Address : a >= Captured => cells[a] = frame[a]

ReaderTypes ==
    /\ DownsamplerTypeOK /\ TransferShape
    /\ phase \in 0 .. CLOCK_RATIO - 1 /\ early \in BOOLEAN

ReaderInv == LineShape /\ (transfer /\ ~early => Finishing \/ Ahead)

\* No multiple of a line is 1.
LEMMA NoUnit == ASSUME NEW l \in Nat, l >= 2, NEW k \in Int PROVE l * k # 1
<1>1. CASE k <= 0
  <2>1. l * k <= 0
    BY <1>1
  <2> QED
    BY <2>1
<1>2. CASE k >= 1
  <2>1. l * k >= l
    BY <1>2
  <2> QED
    BY <2>1
<1> QED
  BY <1>1, <1>2

\* The last pixel of a frame is not the first of a line.
LEMMA LastInsideLine ==
    ASSUME LINE_SIZE >= 2 PROVE (FRAME_SIZE - 1) % LINE_SIZE # 0
<1> USE FrameSizeAssumption, CameraAssumption
<1> SUFFICES ASSUME (FRAME_SIZE - 1) % LINE_SIZE = 0 PROVE FALSE
  OBVIOUS
<1> DEFINE p == FRAME_SIZE \div LINE_SIZE
           q == (FRAME_SIZE - 1) \div LINE_SIZE
<1>1. p \in Int /\ q \in Int /\ FRAME_SIZE = LINE_SIZE * p /\ FRAME_SIZE - 1 = LINE_SIZE * q
  <2>1. FRAME_SIZE = LINE_SIZE * p + (FRAME_SIZE % LINE_SIZE) /\ p \in Int
    OBVIOUS
  <2>2. FRAME_SIZE - 1 = LINE_SIZE * q + ((FRAME_SIZE - 1) % LINE_SIZE) /\ q \in Int
    OBVIOUS
  <2> QED
    BY <2>1, <2>2
<1> HIDE DEF p, q
<1>2. LINE_SIZE * (p - q) = LINE_SIZE * p - LINE_SIZE * q
  BY <1>1
<1>3. LINE_SIZE * (p - q) = 1 /\ p - q \in Int
  BY <1>1, <1>2
<1> QED
  BY <1>3, NoUnit

\* The end of a frame: all of it is stored, and the next one starts from nothing.
LEMMA FrameEnds ==
    ASSUME CaptureInv, vsync
    PROVE  /\ Stored >= FRAME_SIZE /\ ~we /\ ~wr_hold.high
           /\ sent >= FRAME_SIZE /\ address = FRAME_SIZE
           /\ cells = scene
           /\ CaptureClock(Config_Done) =>
                /\ sent' = 0 /\ ~half' /\ Captured' = 0 /\ Stored' = 0
                /\ ~we' /\ ~wr_hold'.high /\ address' = 0
<1> USE FrameSizeAssumption, CameraAssumption
<1>1. ~we /\ ~wr_hold.high
  BY DEF CaptureInv, CameraShape, PairingShape, href
<1>2. Stored >= FRAME_SIZE /\ sent >= FRAME_SIZE /\ address = FRAME_SIZE
  BY <1>1 DEF CaptureInv, CameraShape, AddressShape, Stored, Captured
<1>3. cells = scene
  <2>1. \A a \in Address : cells[a] = scene[a]
    BY <1>2 DEF CaptureInv, CameraShape, BufferShape, Address, Stored, Captured
  <2> QED
    BY <2>1 DEF CaptureInv, CameraShape, BufferShape
<1>4. ASSUME CaptureClock(Config_Done)
      PROVE  /\ sent' = 0 /\ ~half' /\ Captured' = 0 /\ Stored' = 0
             /\ ~we' /\ ~wr_hold'.high /\ address' = 0
  <2>1. StartFrame(Config_Done) /\ CaptureVsync
    BY <1>4 DEF CaptureClock, SendByte, Rest, CaptureByte, href
  <2> QED
    BY <1>1, <2>1 DEF StartFrame, CaptureVsync, Captured, Stored
<1> QED
  BY <1>1, <1>2, <1>3, <1>4

\* Within a frame: the scene stays, half a pixel at most is sent, the pixel in
\* the output register is stored.
LEMMA FrameGoesOn ==
    ASSUME CaptureInv, ~vsync, CaptureClock(Config_Done)
    PROVE  /\ scene' = scene
           /\ Captured \in Nat /\ Stored \in Nat /\ sent \in Nat /\ sent' \in Nat
           /\ Stored = IF we THEN Captured - 1 ELSE Captured
           /\ Captured <= sent
           /\ Stored' = Captured
           /\ Captured' = IF wr_hold.high THEN Captured + 1 ELSE Captured
           /\ half \in BOOLEAN /\ half' \in BOOLEAN
           /\ \/ half /\ ~half' /\ sent' = sent + 1
              \/ ~half /\ sent' = sent
<1>1. /\ Stored' = Captured
      /\ Captured' = IF wr_hold.high THEN Captured + 1 ELSE Captured
  BY CaptureMoves
<1>2. /\ Captured \in Nat /\ Stored \in Nat /\ sent \in Nat /\ Captured <= sent
      /\ Stored = IF we THEN Captured - 1 ELSE Captured
  BY DEF CaptureInv, CameraShape, PairingShape, Captured, Stored
<1>3. SendByte \/ Rest
  BY DEF CaptureClock, StartFrame
<1>4. half \in BOOLEAN /\ half' \in BOOLEAN /\ (half => href)
  <2>1. half \in BOOLEAN /\ (half => href)
    BY DEF CaptureInv, CameraShape
  <2> QED
    BY <1>3, <2>1 DEF SendByte, Rest
<1>5. /\ scene' = scene
      /\ \/ half /\ ~half' /\ sent' = sent + 1
         \/ ~half /\ sent' = sent
  <2>1. CASE SendByte
    BY <1>4, <2>1 DEF SendByte
  <2>2. CASE Rest
    BY <1>4, <2>2 DEF Rest, href, CaptureInv, CameraShape
  <2> QED
    BY <1>3, <2>1, <2>2
<1>6. sent' \in Nat
  BY <1>2, <1>5
<1> QED
  BY <1>1, <1>2, <1>4, <1>5, <1>6

LEMMA LineStep ==
    ASSUME LINE_SIZE >= 2, CaptureInv, LineShape, CaptureClock(Config_Done)
    PROVE  LineShape'
<1> USE FrameSizeAssumption
<1>1. CASE vsync
  BY <1>1, FrameEnds DEF LineShape
<1>2. CASE ~vsync
  <2>1. /\ wr_hold'.high <=> half
        /\ we' <=> wr_hold.high
        /\ Stored' = Captured
    BY <1>2, CaptureMoves
  <2>2. wr_hold.high => ~half /\ ~we
    BY DEF CaptureInv, PairingShape
  <2>3. half => href
    BY DEF CaptureInv, CameraShape
  <2>4. SendByte \/ Rest
    BY <1>2 DEF CaptureClock, StartFrame
  <2>5. href => SendByte
    BY <2>4 DEF Rest, href, CaptureInv, CameraShape
  <2>6. wr_hold'.high /\ sent' % LINE_SIZE # 0 => href'
    <3> SUFFICES ASSUME wr_hold'.high, sent' % LINE_SIZE # 0 PROVE href'
      OBVIOUS
    <3>1. half /\ SendByte
      BY <2>1, <2>3, <2>5
    <3>2. sent' = sent + 1 /\ rest' = 0 /\ vsync' = vsync
      BY <3>1 DEF SendByte
    <3> QED
      BY <1>2, <3>2 DEF href
  <2>7. we' /\ sent' % LINE_SIZE # 0 => half'
    <3> SUFFICES ASSUME we', sent' % LINE_SIZE # 0 PROVE half'
      OBVIOUS
    <3>1. wr_hold.high /\ ~half
      BY <2>1, <2>2
    <3>2. sent' = sent
      BY <2>4, <3>1 DEF SendByte, Rest
    <3>3. SendByte
      BY <2>5, <3>1, <3>2 DEF LineShape
    <3> QED
      BY <3>1, <3>3 DEF SendByte
  <2>8. Stored' = FRAME_SIZE - 1 => wr_hold'.high \/ we'
    <3> SUFFICES ASSUME Captured = FRAME_SIZE - 1, ~wr_hold.high PROVE half
      BY <2>1
    <3>1. sent = FRAME_SIZE - 1
      BY DEF Captured
    <3>2. we
      BY DEF LineShape, Stored
    <3> QED
      BY <3>1, <3>2, LastInsideLine DEF LineShape
  <2> QED
    BY <2>6, <2>7, <2>8 DEF LineShape
<1> QED
  BY <1>1, <1>2

\* One edge of the 100 MHz clock, seen from the camera and its buffer.
LEMMA TickCamera ==
    ASSUME ReaderTypes, Tick
    PROVE  /\ \/ /\ phase = CLOCK_RATIO - 1 /\ phase' = 0
                 /\ CaptureClock(Config_Done) /\ cells' = Written
              \/ /\ phase' = phase + 1 /\ phase' \in 0 .. CLOCK_RATIO - 1
                 /\ UNCHANGED <<cameraVars, captureVars>> /\ cells' \in {cells, Written}
           /\ phase' \in 0 .. CLOCK_RATIO - 1
<1> USE ClockAssumption DEF ReaderTypes
<1>1. phase \in Nat /\ phase <= CLOCK_RATIO - 1 /\ CLOCK_RATIO \in Nat /\ CLOCK_RATIO > 0
  OBVIOUS
<1>2. phase' = (phase + 1) % CLOCK_RATIO
  BY DEF Tick
<1>3. CASE CameraTicks
  <2>1. phase = CLOCK_RATIO - 1 /\ phase' = 0
    BY <1>1, <1>2, <1>3 DEF CameraTicks
  <2> QED
    BY <1>1, <1>3, <2>1 DEF Tick, WriteBuffer
<1>4. CASE ~CameraTicks
  <2>1. phase + 1 \in 0 .. CLOCK_RATIO - 1
    BY <1>1, <1>4 DEF CameraTicks
  <2>2. phase' = phase + 1
    BY <1>1, <1>2, <2>1
  <2> QED
    BY <1>4, <2>1, <2>2 DEF Tick, WriteBuffer
<1> QED
  BY <1>3, <1>4

\* The same edge, seen from the transfer: it goes on, ends, begins or there is none.
LEMMA TickTransfer ==
    ASSUME ReaderTypes, Tick
    PROVE  /\ cnt \in 0 .. FRAME_SIZE + 1 /\ transfer \in BOOLEAN
           /\ transfer' => cnt' \in 0 .. FRAME_SIZE + 1
           /\ transfer /\ transfer' => cnt' = cnt + 1 /\ frame' = frame /\ early' = early
           /\ ~transfer /\ transfer' =>
                /\ cnt' = 0 /\ frame' = scene
                /\ ~early' => address = FRAME_SIZE - 1 \/ address' = FRAME_SIZE - 1
<1> USE FrameSizeAssumption DEF ReaderTypes, DownsamplerTypeOK, TransferShape
<1>1. PICK sampledVsync \in {vsync, vsync'}, seen \in SampledAddress :
        /\ Transfer(sampledVsync, BeginsAt(seen))
        /\ early' = IF ReadyToTransfer(BeginsAt(seen)) THEN seen \notin {address, address'}
                                                       ELSE early
  BY DEF Tick
<1>2. CASE BeginTransfer(sampledVsync, BeginsAt(seen)) /\ frame' = scene
  BY <1>1, <1>2 DEF BeginTransfer, ReadyToTransfer, BeginsAt
<1>3. CASE ShiftPixel(sampledVsync, BeginsAt(seen))
  <2>1. transfer /\ cnt <= FRAME_SIZE
    BY <1>3 DEF ShiftPixel, MorePixels
  <2> QED
    BY <1>1, <1>3, <2>1 DEF ShiftPixel
<1>4. CASE EndTransfer(sampledVsync, BeginsAt(seen))
  BY <1>4 DEF EndTransfer
<1>5. CASE AwaitFrame(sampledVsync, BeginsAt(seen))
  BY <1>5 DEF AwaitFrame, MorePixels
<1> QED
  BY <1>1, <1>2, <1>3, <1>4, <1>5 DEF Transfer

\* The registers of the downsampler keep their types and move together.
LEMMA TransferTypes ==
    ASSUME DownsamplerTypeOK, TransferShape, tdata' \in Pixel,
           NEW sampledVsync, NEW last, Transfer(sampledVsync, last)
    PROVE  DownsamplerTypeOK' /\ TransferShape'
<1> USE FrameSizeAssumption, ThresholdAssumption, ScenesAssumption, PixelAssumption
<1> USE DEF DownsamplerTypeOK, TransferShape
<1>1. CountVsync(sampledVsync) => vsync_cnt' \in 0 .. MAX_VSYNC_CNT
  BY DEF CountVsync
<1>2. CASE BeginTransfer(sampledVsync, last)
  BY <1>1, <1>2 DEF BeginTransfer, ReadyToTransfer
<1>3. CASE ShiftPixel(sampledVsync, last)
  <2>1. /\ cnt <= FRAME_SIZE /\ transfer /\ transfer' = transfer /\ frame' = frame
        /\ tdata_addr' = tdata_addr + 1 /\ cnt' = cnt + 1
        /\ buffered_capture_pixel' = tdata
    BY <1>3 DEF ShiftPixel, MorePixels
  <2>2. tvalid' = (cnt > 0)
    BY <1>3 DEF ShiftPixel
  <2>3. tvalid' \in BOOLEAN /\ (tvalid' <=> cnt > 0)
    BY <2>2
  <2> QED
    BY <1>1, <1>3, <2>1, <2>3 DEF ShiftPixel
<1>4. CASE EndTransfer(sampledVsync, last)
  <2>1. ~tvalid' /\ tvalid' \in BOOLEAN /\ ~transfer' /\ transfer' \in BOOLEAN
    BY <1>4 DEF EndTransfer
  <2> QED
    BY <1>4, <2>1 DEF EndTransfer
<1>5. CASE AwaitFrame(sampledVsync, last)
  BY <1>1, <1>5 DEF AwaitFrame
<1> QED
  BY <1>2, <1>3, <1>4, <1>5 DEF Transfer

LEMMA ReaderTypesStep == ASSUME ReaderTypes, CaptureInv, Tick PROVE ReaderTypes'
<1>1. tdata' \in Pixel
  BY DEF Tick, ReadCells, CaptureInv, BufferShape, ReaderTypes, DownsamplerTypeOK
<1>2. PICK sampledVsync \in {vsync, vsync'}, seen \in SampledAddress :
        /\ Transfer(sampledVsync, BeginsAt(seen))
        /\ early' = IF ReadyToTransfer(BeginsAt(seen)) THEN seen \notin {address, address'}
                                                       ELSE early
  BY DEF Tick
<1>3. early' \in BOOLEAN
  <2>1. (seen \notin {address, address'}) \in BOOLEAN
    OBVIOUS
  <2> QED
    BY <1>2, <2>1, Zenon DEF ReaderTypes
<1>4. DownsamplerTypeOK' /\ TransferShape'
  BY <1>1, <1>2, TransferTypes DEF ReaderTypes
<1> QED
  BY <1>3, <1>4, TickCamera DEF ReaderTypes

\* A transfer begins when the address of the last pixel is shown, so the others
\* have been stored.
LEMMA TransferBegins ==
    ASSUME ReaderKeepsBehind, CaptureInv, CaptureInv', LineShape', ReaderTypes, Tick,
           ~transfer, transfer', ~early'
    PROVE  Finishing'
<1> USE FrameSizeAssumption, ClockAssumption
<1>1. /\ cnt' = 0 /\ frame' = scene
      /\ address = FRAME_SIZE - 1 \/ address' = FRAME_SIZE - 1
  BY TickTransfer
<1>2. phase' \in 0 .. CLOCK_RATIO - 1
  BY TickCamera
<1>3. /\ Stored \in Nat
      /\ address = IF Stored < FRAME_SIZE THEN Stored ELSE FRAME_SIZE
      /\ address' = IF Stored' < FRAME_SIZE THEN Stored' ELSE FRAME_SIZE
  BY DEF CaptureInv, CameraShape, PairingShape, AddressShape, Captured, Stored
<1>4. cnt' <= phase' + IF we' THEN CLOCK_RATIO ELSE 0
  <2>1. \A n \in Nat : 0 <= n + IF we' THEN CLOCK_RATIO ELSE 0
    OBVIOUS
  <2>2. phase' \in Nat
    BY <1>2
  <2> QED
    BY <1>1, <2>1, <2>2
<1>5. CASE CaptureClock(Config_Done)
  <2>1. ~vsync
    BY <1>1, <1>5, FrameEnds
  <2>2. scene' = scene /\ Stored' \in Nat /\ Stored' >= Stored
    BY <1>5, <2>1, FrameGoesOn
  <2>3. Stored' >= FRAME_SIZE - 1
    BY <1>1, <1>3, <2>2
  <2> QED
    BY <1>1, <1>4, <2>2, <2>3 DEF Finishing
<1>6. CASE UNCHANGED <<cameraVars, captureVars>>
  <2>1. scene' = scene /\ address' = address /\ Stored' = Stored
    BY <1>6 DEF cameraVars, captureVars, Stored, Captured
  <2>2. Stored' >= FRAME_SIZE - 1
    BY <1>1, <1>3, <2>1
  <2> QED
    BY <1>1, <1>4, <2>1, <2>2 DEF Finishing
<1> QED
  BY <1>5, <1>6, TickCamera

\* While it is being finished the frame stays, until the camera starts the next
\* one; then the buffer holds all of it.
LEMMA FinishingGoesOn ==
    ASSUME ReaderKeepsBehind, CaptureInv, LineShape, ReaderTypes, Tick,
           transfer, transfer', Finishing
    PROVE  Finishing' \/ Ahead'
<1> USE FrameSizeAssumption, ClockAssumption
<1>1. cnt \in Nat /\ cnt' = cnt + 1 /\ frame' = frame
  BY TickTransfer
<1>2. phase \in Nat
  BY DEF ReaderTypes
<1>3. ASSUME phase = CLOCK_RATIO - 1, phase' = 0,
             CaptureClock(Config_Done), cells' = Written
      PROVE  Finishing' \/ Ahead'
  <2>1. CASE vsync
    <3>1. /\ ~we /\ cells = scene
          /\ sent' = 0 /\ half' = FALSE /\ Captured' = 0
      BY <1>3, <2>1, FrameEnds
    <3>2. cells' = frame'
      BY <1>1, <1>3, <3>1 DEF Written, Finishing
    <3>3. cnt' >= 2 * sent' + IF half' THEN 1 ELSE 0
      BY <1>1, <3>1
    <3> QED
      BY <3>2, <3>3 DEF Ahead
  <2>2. CASE ~vsync
    <3>1. /\ scene' = scene /\ Captured \in Nat /\ Stored' = Captured
          /\ Stored = IF we THEN Captured - 1 ELSE Captured
      BY <1>3, <2>2, FrameGoesOn
    <3>2. Stored' >= FRAME_SIZE - 1
      BY <3>1 DEF Finishing
    <3>3. Stored' = FRAME_SIZE - 1 => we' /\ cnt' <= phase' + CLOCK_RATIO
      <4> SUFFICES ASSUME Stored' = FRAME_SIZE - 1 PROVE we' /\ cnt' <= phase' + CLOCK_RATIO
        OBVIOUS
      <4>1. Stored = FRAME_SIZE - 1 /\ ~we
        BY <3>1 DEF Finishing
      <4>2. wr_hold.high /\ cnt <= phase
        BY <1>2, <4>1 DEF LineShape, Finishing
      <4>3. we'
        BY <1>3, <2>2, <4>2, CaptureMoves
      <4> QED
        BY <1>1, <1>3, <4>2, <4>3
    <3> QED
      BY <1>1, <3>1, <3>2, <3>3 DEF Finishing
  <2> QED
    BY <2>1, <2>2
<1>4. ASSUME phase' = phase + 1, UNCHANGED <<cameraVars, captureVars>>
      PROVE  Finishing'
  <2>1. scene' = scene /\ Stored' = Stored /\ we' = we
    BY <1>4 DEF cameraVars, captureVars, Stored, Captured
  <2>2. cnt <= phase + (IF we THEN CLOCK_RATIO ELSE 0)
          => cnt' <= phase' + IF we' THEN CLOCK_RATIO ELSE 0
    BY <1>1, <1>2, <1>4, <2>1
  <2> QED
    BY <1>1, <2>1, <2>2 DEF Finishing
<1> QED
  BY <1>3, <1>4, TickCamera

\* The reader takes a pixel in every clock, the camera sends half a one at most.
LEMMA AheadGoesOn ==
    ASSUME CaptureInv, ReaderTypes, Tick, transfer, transfer', Ahead
    PROVE  Ahead'
<1> USE FrameSizeAssumption
<1>1. cnt \in Nat /\ cnt' = cnt + 1 /\ cnt <= FRAME_SIZE + 1 /\ frame' = frame
  BY TickTransfer
<1>2. /\ sent \in Nat /\ Captured \in Nat
      /\ cells \in [Address -> Pixel]
      /\ address = IF Stored < FRAME_SIZE THEN Stored ELSE FRAME_SIZE
      /\ Stored = IF we THEN Captured - 1 ELSE Captured
  BY DEF CaptureInv, CameraShape, PairingShape, AddressShape, BufferShape, Captured, Stored
<1>3. \A a \in Address : a >= Captured => Written[a] = cells[a]
  <2> SUFFICES ASSUME NEW a \in Address, a >= Captured PROVE Written[a] = cells[a]
    OBVIOUS
  <2>1. we => address # a
    BY <1>2 DEF Address
  <2> QED
    BY <1>2, <2>1 DEF Written
<1>4. CASE CaptureClock(Config_Done) /\ cells' = Written
  <2>1. ~vsync
    <3>1. vsync => sent >= FRAME_SIZE
      BY FrameEnds
    <3>2. cnt >= 2 * sent
      BY <1>1, <1>2 DEF Ahead
    <3> QED
      BY <1>1, <1>2, <3>1, <3>2
  <2>2. /\ Captured' >= Captured /\ Captured' \in Nat
        /\ \/ half /\ ~half' /\ sent' = sent + 1
           \/ ~half /\ sent' = sent
        /\ half' \in BOOLEAN
    BY <1>2, <1>4, <2>1, FrameGoesOn
  <2>3. cnt' >= 2 * sent' + IF half' THEN 1 ELSE 0
    BY <1>1, <1>2, <2>2 DEF Ahead
  <2>4. \A a \in Address : a >= Captured' => cells'[a] = frame'[a]
    BY <1>1, <1>2, <1>3, <1>4, <2>2 DEF Ahead, Address
  <2> QED
    BY <2>3, <2>4 DEF Ahead
<1>5. CASE UNCHANGED <<cameraVars, captureVars>> /\ cells' \in {cells, Written}
  <2>1. sent' = sent /\ half' = half /\ Captured' = Captured
    BY <1>5 DEF cameraVars, captureVars, Captured
  <2>2. cnt' >= 2 * sent' + IF half' THEN 1 ELSE 0
    BY <1>1, <1>2, <2>1 DEF Ahead
  <2>3. \A a \in Address : a >= Captured' => cells'[a] = frame'[a]
    BY <1>1, <1>3, <1>5, <2>1 DEF Ahead
  <2> QED
    BY <2>2, <2>3 DEF Ahead
<1> QED
  BY <1>4, <1>5, TickCamera

-----------------------------------------------------------------------------
\* Whatever the transfer was about, an edge leaves it finishing its frame or
\* ahead of the camera.
LEMMA ReaderStep ==
    ASSUME ReaderKeepsBehind, CaptureInv, CaptureInv', ReaderTypes, ReaderInv, Tick
    PROVE  ReaderInv'
<1>1. LineShape'
  <2>1. CASE CaptureClock(Config_Done)
    BY <2>1, LineStep DEF ReaderInv, ReaderKeepsBehind
  <2>2. CASE UNCHANGED <<cameraVars, captureVars>>
    BY <2>2 DEF ReaderInv, LineShape, cameraVars, captureVars, href, Stored, Captured
  <2> QED
    BY <2>1, <2>2, TickCamera
<1>2. ASSUME transfer', ~early' PROVE Finishing' \/ Ahead'
  <2>1. CASE ~transfer
    BY <1>1, <1>2, <2>1, TransferBegins
  <2>2. CASE transfer
    <3>1. ~early
      BY <1>2, <2>2, TickTransfer
    <3> QED
      BY <1>2, <2>2, <3>1, FinishingGoesOn, AheadGoesOn DEF ReaderInv
  <2> QED
    BY <2>1, <2>2
<1> QED
  BY <1>1, <1>2 DEF ReaderInv

LEMMA InitReader == Init => ReaderTypes /\ ReaderInv
<1> SUFFICES ASSUME Init PROVE ReaderTypes /\ ReaderInv
  OBVIOUS
<1> USE FrameSizeAssumption, PixelAssumption, ScenesAssumption, ThresholdAssumption,
        ClockAssumption
<1> USE DEF Init, DownsamplerInit, CaptureInit
<1>1. early \in BOOLEAN /\ tvalid \in BOOLEAN /\ transfer \in BOOLEAN
  BY Zenon
<1>2. ReaderTypes
  BY <1>1 DEF ReaderTypes, DownsamplerTypeOK, TransferShape
<1>3. Stored = 0
  BY DEF Stored, Captured
<1> QED
  BY <1>2, <1>3 DEF ReaderInv, LineShape

\* A step without an edge leaves all of it alone.
LEMMA ReaderRests ==
    ASSUME UNCHANGED <<cameraVars, captureVars, cells, downsamplerVars, phase, early>>
    PROVE  (ReaderTypes => ReaderTypes') /\ (ReaderInv => ReaderInv')
<1> USE DEF cameraVars, captureVars, downsamplerVars
<1>1. ReaderTypes => ReaderTypes'
  BY DEF ReaderTypes, DownsamplerTypeOK, TransferShape
<1>2. Captured' = Captured /\ Stored' = Stored /\ href' = href
  BY DEF Captured, Stored, href
<1>3. ReaderInv => ReaderInv'
  BY <1>2 DEF ReaderInv, LineShape, Finishing, Ahead
<1> QED
  BY <1>1, <1>3

LEMMA SpecReaderTypes == Spec => []ReaderTypes
<1>1. CaptureInv /\ ReaderTypes /\ [Next]_vars => ReaderTypes'
  BY ReaderTypesStep, ReaderRests DEF Next, AtVsync, vars
<1> QED
  BY <1>1, InitReader, SpecCapture, PTL DEF Spec

LEMMA SpecReader == ASSUME ReaderKeepsBehind PROVE Spec => []ReaderInv
<1>1. CaptureInv /\ CaptureInv' /\ ReaderTypes /\ ReaderInv /\ [Next]_vars => ReaderInv'
  BY ReaderStep, ReaderRests DEF Next, AtVsync, vars
<1> QED
  BY <1>1, InitReader, SpecCapture, SpecReaderTypes, PTL DEF Spec

\* What the reader gets is the pixel of the frame it was promised.
LEMMA ReadsPromisedPixel ==
    ASSUME ReaderKeepsBehind, CaptureInv, ReaderTypes, ReaderInv,
           transfer, ~early, cnt \in Address
    PROVE  cells[cnt] = frame[cnt] /\ ~(we /\ address = cnt)
<1> USE FrameSizeAssumption, ClockAssumption
<1>1. /\ cnt \in Nat /\ phase \in Nat /\ phase <= CLOCK_RATIO - 1
      /\ cnt <= FRAME_SIZE - 1
  BY DEF ReaderTypes, Address
<1>2. /\ sent \in Nat /\ Captured \in Nat /\ Stored \in Nat /\ Captured <= sent
      /\ address = IF Stored < FRAME_SIZE THEN Stored ELSE FRAME_SIZE
      /\ Stored = IF we THEN Captured - 1 ELSE Captured
  BY DEF CaptureInv, CameraShape, PairingShape, AddressShape, Captured, Stored
<1>3. CASE Finishing
  <2>1. cnt < Stored
    <3>1. CASE Stored >= FRAME_SIZE
      BY <1>1, <1>2, <3>1
    <3>2. CASE Stored = FRAME_SIZE - 1
      <4>1. (IF we THEN CLOCK_RATIO ELSE 0) \in Nat /\ (IF we THEN CLOCK_RATIO ELSE 0) <= CLOCK_RATIO
        OBVIOUS
      <4>2. cnt <= phase + IF we THEN CLOCK_RATIO ELSE 0
        BY <1>3, <3>2 DEF Finishing
      <4>3. cnt <= (CLOCK_RATIO - 1) + CLOCK_RATIO
        BY <1>1, <4>1, <4>2
      <4> QED
        BY <1>1, <3>2, <4>3 DEF ReaderKeepsBehind
    <3> QED
      BY <1>2, <1>3, <3>1, <3>2 DEF Finishing
  <2>2. cells[cnt] = frame[cnt]
    BY <1>3, <2>1 DEF CaptureInv, BufferShape, Finishing
  <2>3. address # cnt
    BY <1>1, <1>2, <2>1
  <2> QED
    BY <2>2, <2>3
<1>4. CASE Ahead
  <2>1. cnt >= 2 * sent
    <3>1. (IF half THEN 1 ELSE 0) \in Nat
      OBVIOUS
    <3> QED
      BY <1>1, <1>2, <1>4, <3>1 DEF Ahead
  <2>2. cnt >= Captured
    BY <1>1, <1>2, <2>1
  <2>3. cells[cnt] = frame[cnt]
    BY <1>4, <2>2 DEF Ahead
  <2>4. we => address # cnt
    BY <1>1, <1>2, <2>2
  <2> QED
    BY <2>3, <2>4
<1> QED
  BY <1>3, <1>4 DEF ReaderInv

\* Every transfer but one begun on an address that never was is a transfer of
\* the downsampler on its own, from one frame that does not change: although
\* the camera and the reader have no handshake, for every size of frame and
\* every ratio of clocks at which the reader keeps behind the last pixel.
THEOREM TransfersReadOneFrame == ReaderKeepsBehind => (Spec => TransferReadsOneFrame)
<1> SUFFICES ASSUME ReaderKeepsBehind PROVE Spec => TransferReadsOneFrame
  OBVIOUS
<1>1. ASSUME CaptureInv, ReaderTypes, ReaderInv, Tick, ~early
      PROVE  \E sampledVsync, last \in BOOLEAN : DownsamplerStep(sampledVsync, last)
  <2>1. PICK sampledVsync \in {vsync, vsync'}, seen \in SampledAddress :
          Transfer(sampledVsync, BeginsAt(seen))
    BY <1>1 DEF Tick
  <2>2. sampledVsync \in BOOLEAN /\ BeginsAt(seen) \in BOOLEAN
    <3>1. vsync \in BOOLEAN /\ vsync' \in BOOLEAN
      <4>1. vsync \in BOOLEAN
        BY <1>1 DEF CaptureInv, CameraShape
      <4>2. CASE CaptureClock(Config_Done)
        BY <1>1, <4>2, CameraKeeps DEF CaptureInv, CameraShape
      <4>3. CASE UNCHANGED <<cameraVars, captureVars>>
        BY <4>1, <4>3 DEF cameraVars
      <4> QED
        BY <1>1, <4>1, <4>2, <4>3, TickCamera
    <3> QED
      BY <2>1, <3>1 DEF BeginsAt
  <2>3. obj_det_wren = transfer /\ tdata_addr = cnt
    BY <1>1, FrameSizeAssumption
       DEF ReaderTypes, DownsamplerTypeOK, TransferShape, obj_det_wren
  <2>4. ReadFrameBuffer
    <3>1. ReadCells
      BY <1>1 DEF Tick
    <3>2. transfer /\ cnt \in Address => cells[cnt] = frame[cnt] /\ ~(we /\ address = cnt)
      BY <1>1, ReadsPromisedPixel
    <3> QED
      BY <2>3, <3>1, <3>2 DEF ReadCells, ReadFrameBuffer
  <2>5. DownsamplerStep(sampledVsync, BeginsAt(seen))
    BY <2>1, <2>4 DEF DownsamplerStep, Transfer
  <2> QED
    BY <2>2, <2>5
<1>2. CaptureInv /\ ReaderTypes /\ ReaderInv /\ [Next]_vars =>
        [\/ early
         \/ \E sampledVsync, last \in BOOLEAN : DownsamplerStep(sampledVsync, last)
        ]_downsamplerVars
  BY <1>1 DEF Next, AtVsync, vars
<1> QED
  BY <1>2, SpecCapture, SpecReaderTypes, SpecReader, PTL DEF Spec, TransferReadsOneFrame

-----------------------------------------------------------------------------
\* The ranges no other invariant needs.
RegisterRanges ==
    /\ scene \in Scenes
    /\ length \in {FRAME_SIZE, FRAME_SIZE + EXTRA_PIXELS}
    /\ address_next \in 0 .. ADDRESS_RANGE - 1
    /\ Config_Done \in BOOLEAN
    /\ SD_COUNTER \in 0 .. 63
    /\ refusals \in 0 .. MAX_REFUSALS
    /\ transfer_of \in 0 .. LUT_SIZE

LEMMA ConfigRanges ==
    ASSUME RegisterRanges, ConfigInv, ConfigTick
    PROVE  /\ Config_Done' \in BOOLEAN /\ SD_COUNTER' \in 0 .. 63
           /\ refusals' \in 0 .. MAX_REFUSALS /\ transfer_of' \in 0 .. LUT_SIZE
<1> USE TransferAssumption DEF RegisterRanges, ConfigTick
<1>1. Config_Done' \in BOOLEAN
  BY DEF StartTransfer, AwaitTransfer, NextEntry, Configured
<1>2. SD_COUNTER' \in 0 .. 63
  BY DEF Controller, CountBits
<1>3. refusals' \in 0 .. MAX_REFUSALS /\ transfer_of' \in 0 .. LUT_SIZE
  <2>1. LUT_INDEX \in 0 .. LUT_SIZE
    BY DEF ConfigInv, ConfigTypes
  <2>2. refusals' = refusals \/ (refusals < MAX_REFUSALS /\ refusals' = refusals + 1)
    BY DEF Controller, ClearFlags, SendStart, SampleAck, SendStop, ShiftBit
  <2>3. transfer_of' = transfer_of \/ transfer_of' = LUT_INDEX
    BY DEF Controller, ClearFlags, SendStart, SampleAck, SendStop, ShiftBit
  <2> QED
    BY <2>1, <2>2, <2>3
<1> QED
  BY <1>1, <1>2, <1>3

LEMMA CaptureRanges ==
    ASSUME RegisterRanges, CaptureClock(Config_Done)
    PROVE  /\ scene' \in Scenes /\ length' \in {FRAME_SIZE, FRAME_SIZE + EXTRA_PIXELS}
           /\ address_next' \in 0 .. ADDRESS_RANGE - 1
<1> USE CameraAssumption DEF RegisterRanges, CaptureClock
<1>1. scene' \in Scenes /\ length' \in {FRAME_SIZE, FRAME_SIZE + EXTRA_PIXELS}
  BY DEF SendByte, Rest, StartFrame
<1>2. ADDRESS_RANGE \in Nat /\ ADDRESS_RANGE > 0
  BY FrameSizeAssumption
<1>3. address_next' \in 0 .. ADDRESS_RANGE - 1
  BY <1>2 DEF CaptureVsync, CaptureByte
<1> QED
  BY <1>1, <1>3

LEMMA SpecRanges == Spec => []RegisterRanges
<1>1. Init => RegisterRanges
  <2> SUFFICES ASSUME Init PROVE RegisterRanges
    OBVIOUS
  <2>1. address_next \in 0 .. ADDRESS_RANGE - 1
    BY FrameSizeAssumption, CameraAssumption DEF Init, CaptureInit
  <2>2. /\ scene \in Scenes /\ length \in {FRAME_SIZE, FRAME_SIZE + EXTRA_PIXELS}
        /\ Config_Done \in BOOLEAN
    BY Zenon DEF Init, CaptureInit, ConfigInit
  <2>3. SD_COUNTER \in 0 .. 63 /\ refusals \in 0 .. MAX_REFUSALS /\ transfer_of \in 0 .. LUT_SIZE
    BY TransferAssumption DEF Init, ConfigInit
  <2> QED
    BY <2>1, <2>2, <2>3 DEF RegisterRanges
<1>2. ReaderTypes /\ ConfigInv /\ RegisterRanges /\ [Next]_vars => RegisterRanges'
  <2> SUFFICES ASSUME ReaderTypes, ConfigInv, RegisterRanges, [Next]_vars
               PROVE  RegisterRanges'
    OBVIOUS
  <2>1. CASE Tick
    <3>1. UNCHANGED configVars
      BY <2>1 DEF Tick
    <3>2. /\ scene' \in Scenes /\ length' \in {FRAME_SIZE, FRAME_SIZE + EXTRA_PIXELS}
          /\ address_next' \in 0 .. ADDRESS_RANGE - 1
      <4>1. CASE CaptureClock(Config_Done)
        BY <4>1, CaptureRanges
      <4>2. CASE UNCHANGED <<cameraVars, captureVars>>
        BY <4>2 DEF cameraVars, captureVars, RegisterRanges
      <4> QED
        BY <2>1, <4>1, <4>2, TickCamera
    <3> QED
      BY <3>1, <3>2 DEF configVars, RegisterRanges
  <2>2. CASE AtVsync
    BY <2>2, ConfigRanges DEF AtVsync, cameraVars, captureVars, RegisterRanges
  <2>3. CASE UNCHANGED vars
    BY <2>3 DEF vars, cameraVars, captureVars, configVars, RegisterRanges
  <2> QED
    BY <2>1, <2>2, <2>3 DEF Next
<1> QED
  BY <1>1, <1>2, SpecReaderTypes, SpecConfig, PTL DEF Spec

\* The registers of the camera's side keep the ranges the code gives them.
THEOREM CameraTypesCorrect == Spec => []CameraTypeOK
<1>1. CaptureInv /\ ConfigInv /\ ReaderTypes /\ RegisterRanges => CameraTypeOK
  <2> SUFFICES ASSUME CaptureInv, ConfigInv, ReaderTypes, RegisterRanges
               PROVE  CameraTypeOK
    OBVIOUS
  <2>1. address \in 0 .. FRAME_SIZE /\ sent \in 0 .. length /\ rest \in 0 .. PAUSE
    <3>1. Stored \in Nat
      BY DEF CaptureInv, CameraShape, PairingShape, Captured, Stored
    <3>2. address \in 0 .. FRAME_SIZE
      BY <3>1, FrameSizeAssumption DEF CaptureInv, AddressShape
    <3> QED
      BY <3>2, CameraAssumption DEF CaptureInv, CameraShape
  <2>2. CaptureTypeOK
    BY <2>1 DEF CaptureTypeOK, CaptureInv, CameraShape, PairingShape, LatchShape,
                AddressShape, BufferShape, RegisterRanges
  <2>3. LUT_INDEX \in 0 .. LUT_SIZE
    BY TransferAssumption DEF ConfigInv, ConfigTypes
  <2>4. ConfigTypeOK
    BY <2>3 DEF ConfigTypeOK, ConfigInv, ConfigTypes, WireShape, AckShape, RegisterRanges
  <2> QED
    BY <2>2, <2>4 DEF CameraTypeOK, ReaderTypes
<1> QED
  BY <1>1, SpecCapture, SpecConfig, SpecReaderTypes, SpecRanges, PTL

=============================================================================
