----------------------------- MODULE I2cConfig ------------------------------
(***************************************************************************)
(* I2C_AV_Config.v and I2C_Controller.v: after power-up a table of register *)
(* values is sent to the camera, an entry a transfer, and an entry that is  *)
(* not acknowledged is sent again.  The two state machines share a clock    *)
(* and see each other's registers as they were before it.                   *)
(*                                                                         *)
(* ConfigTick is one clock with i2c_negclk up.  Of the bits on the wire only *)
(* the three acknowledgements of a transfer matter, sampled when SD_COUNTER *)
(* is at AckAt; the camera, external, gives them or refuses, at most        *)
(* MAX_REFUSALS times in all.                                               *)
(***************************************************************************)
EXTENDS Naturals

CONSTANTS
    LUT_SIZE,          \* entries of the table (193)
    READS,             \* entries below this are read, not written (2)
    WriteAckAt, WriteEndAt,  \* counts of a write: <<13, 24, 35>> and 39
    ReadAckAt, ReadEndAt,    \* counts of a read: <<13, 24, 41>> and 57
    MAX_REFUSALS

Byte3 == 1 .. 3

ASSUME TransferAssumption ==
    /\ LUT_SIZE \in Nat /\ READS \in Nat /\ MAX_REFUSALS \in Nat
    /\ WriteAckAt \in [Byte3 -> Nat] /\ ReadAckAt \in [Byte3 -> Nat]
    /\ \A i \in Byte3 : 1 < WriteAckAt[i] /\ WriteAckAt[i] < WriteEndAt
    /\ \A i \in Byte3 : 1 < ReadAckAt[i] /\ ReadAckAt[i] < ReadEndAt
    /\ WriteEndAt \in Nat /\ ReadEndAt \in Nat

VARIABLES
    Config_Done, LUT_INDEX, mSetup_ST, mI2C_GO, mI2C_WR,
    SD_COUNTER, END,
    ACKW, ACKR,        \* TRUE: the line was high, no acknowledgement
    refusals,          \* the camera: times it has refused
    transfer_of,       \* history: entry of the transfer on the wire,
    heard,             \*   which of its bytes were acknowledged,
    acknowledged       \*   and entries with all three

configVars == <<Config_Done, LUT_INDEX, mSetup_ST, mI2C_GO, mI2C_WR,
                SD_COUNTER, END, ACKW, ACKR,
                refusals, transfer_of, heard, acknowledged>>

NoAck == [i \in Byte3 |-> TRUE]

ConfigInit ==
    /\ Config_Done = FALSE /\ LUT_INDEX = 0 /\ mSetup_ST = 0
    /\ mI2C_GO = FALSE /\ mI2C_WR = FALSE
    /\ SD_COUNTER = 0 /\ END = FALSE
    /\ ACKW = NoAck /\ ACKR = NoAck
    /\ refusals = 0
    /\ transfer_of = 0 /\ heard = {} /\ acknowledged = {}

AckAt == IF mI2C_WR THEN WriteAckAt ELSE ReadAckAt
EndAt == IF mI2C_WR THEN WriteEndAt ELSE ReadEndAt

\* The line was high for byte i of the transfer, in the flags of its direction.
Refused(i) == IF mI2C_WR THEN ACKW[i] ELSE ACKR[i]

ACK_last == Refused(3)                   \* faulty: the last byte only
ACK == \E i \in Byte3 : Refused(i)

-----------------------------------------------------------------------------
(* I2C_Controller. *)

CountBits ==
    SD_COUNTER' = IF ~mI2C_GO \/ END THEN 0
                  ELSE IF SD_COUNTER < 63 THEN SD_COUNTER + 1 ELSE SD_COUNTER

\* Without GO, and in the first clock of a transfer, nothing is left of the
\* transfer before.
ClearFlags ==
    /\ ~mI2C_GO \/ SD_COUNTER = 0
    /\ ACKW' = NoAck /\ ACKR' = NoAck
    /\ END' = FALSE
    /\ UNCHANGED <<refusals, transfer_of, heard, acknowledged>>

SendStart ==
    /\ mI2C_GO /\ SD_COUNTER = 1
    /\ IF mI2C_WR THEN ACKW' = NoAck /\ UNCHANGED ACKR
                  ELSE ACKR' = NoAck /\ UNCHANGED ACKW
    /\ END' = FALSE
    /\ transfer_of' = LUT_INDEX /\ heard' = {}
    /\ UNCHANGED <<refusals, acknowledged>>

\* The camera pulls the line down, or leaves it up.
SampleAck ==
    /\ mI2C_GO
    /\ \E i \in Byte3, high \in BOOLEAN :
        /\ SD_COUNTER = AckAt[i]
        /\ IF high THEN refusals < MAX_REFUSALS /\ refusals' = refusals + 1 /\ UNCHANGED heard
                   ELSE heard' = heard \union {i} /\ UNCHANGED refusals
        /\ IF mI2C_WR THEN ACKW' = [ACKW EXCEPT ![i] = high] /\ UNCHANGED ACKR
                      ELSE ACKR' = [ACKR EXCEPT ![i] = high] /\ UNCHANGED ACKW
    /\ UNCHANGED <<END, transfer_of, acknowledged>>

SendStop ==
    /\ mI2C_GO /\ SD_COUNTER = EndAt
    /\ END' = TRUE
    /\ acknowledged' = IF heard = Byte3 THEN acknowledged \union {transfer_of}
                                        ELSE acknowledged
    /\ UNCHANGED <<ACKW, ACKR, refusals, transfer_of, heard>>

ShiftBit ==
    /\ mI2C_GO /\ SD_COUNTER \notin {0, 1, EndAt} \union {AckAt[i] : i \in Byte3}
    /\ UNCHANGED <<END, ACKW, ACKR, refusals, transfer_of, heard, acknowledged>>

Controller ==
    /\ CountBits
    /\ ClearFlags \/ SendStart \/ SampleAck \/ SendStop \/ ShiftBit

-----------------------------------------------------------------------------
(* I2C_AV_Config. *)

Walking == LUT_INDEX < LUT_SIZE

\* A transfer may begin once END of the one before is down.
StartTransfer ==
    /\ Walking /\ mSetup_ST = 0
    /\ mSetup_ST' = IF END THEN 0 ELSE 1
    /\ mI2C_GO' = TRUE
    /\ mI2C_WR' = (LUT_INDEX >= READS)
    /\ Config_Done' = FALSE
    /\ UNCHANGED LUT_INDEX

AwaitTransfer ==
    /\ Walking /\ mSetup_ST = 1
    /\ IF END
         THEN /\ mI2C_WR' = FALSE /\ mI2C_GO' = FALSE
              /\ mSetup_ST' = IF ACK THEN 0 ELSE 2
         ELSE UNCHANGED <<mI2C_WR, mI2C_GO, mSetup_ST>>
    /\ Config_Done' = FALSE
    /\ UNCHANGED LUT_INDEX

NextEntry ==
    /\ Walking /\ mSetup_ST = 2
    /\ LUT_INDEX' = LUT_INDEX + 1
    /\ mSetup_ST' = 0 /\ mI2C_GO' = FALSE /\ mI2C_WR' = FALSE
    /\ Config_Done' = FALSE

Configured ==
    /\ ~Walking
    /\ Config_Done' = TRUE
    /\ mSetup_ST' = 0 /\ mI2C_GO' = FALSE /\ mI2C_WR' = FALSE
    /\ UNCHANGED LUT_INDEX

ConfigTick ==
    /\ Controller
    /\ StartTransfer \/ AwaitTransfer \/ NextEntry \/ Configured

-----------------------------------------------------------------------------
ConfigTypeOK ==
    /\ Config_Done \in BOOLEAN
    /\ LUT_INDEX \in 0 .. LUT_SIZE
    /\ mSetup_ST \in 0 .. 2
    /\ mI2C_GO \in BOOLEAN /\ mI2C_WR \in BOOLEAN
    /\ SD_COUNTER \in 0 .. 63
    /\ END \in BOOLEAN
    /\ ACKW \in [Byte3 -> BOOLEAN] /\ ACKR \in [Byte3 -> BOOLEAN]
    /\ refusals \in 0 .. MAX_REFUSALS
    /\ transfer_of \in 0 .. LUT_SIZE
    /\ heard \subseteq Byte3
    /\ acknowledged \subseteq 0 .. LUT_SIZE - 1

\* The table is walked past an entry only if the camera has acknowledged all
\* three bytes of a transfer of that entry: flags of an earlier transfer, of
\* the other direction, or of a refused byte never let one through.
DoneMeansAcknowledged ==
    /\ 0 .. LUT_INDEX - 1 \subseteq acknowledged
    /\ Config_Done => acknowledged = 0 .. LUT_SIZE - 1

=============================================================================
