---------------------------- MODULE AxiLiteSlave ----------------------------
(***************************************************************************)
(* The two AXI4-Lite register files the software talks to, which share one  *)
(* handshake: obj_det_axi_slave_v1_0_S00_AXI.v (thresholds and status of    *)
(* the object detection) and S00_AXI.v (the pixel port of the camera IP).   *)
(* In both, register 1 is overwritten in every clock without a write by     *)
(* what the hardware has to say: the status of the detection, or the pixel  *)
(* of the downsampled frame buffer at the address in register 0.            *)
(*                                                                         *)
(* The master is the processor: one transaction at a time, words only, the  *)
(* next one at the earliest in the clock after the response was taken.      *)
(***************************************************************************)
EXTENDS Naturals, FiniteSets

CONSTANTS
    Register,       \* registers that exist
    Unmapped,       \* addresses decoded to none of them
    Value,          \* what a register, a status or a pixel can be
    DefaultOf       \* value of each detector register after reset

StatusReg == 1

ASSUME RegisterAssumption ==
    /\ {0, StatusReg} \subseteq Register
    /\ Unmapped \cap Register = {}
    /\ 0 \in Value
    /\ DefaultOf \in [Register -> Value]

VARIABLES
    port,       \* which of the two slaves this is; never changes
    picture,    \* content of the downsampled frame buffer; not written here
    axi_awready, axi_wready, aw_en, axi_awaddr, axi_bvalid,
    axi_arready, axi_araddr, axi_rvalid, axi_rdata,
    slv_reg,
    status,     \* what the hardware drives: object status, or doutb of the buffer
    aw, dw, arvalid, op,  \* the master: its write signals "low", "high" or "done"
    written, issued                \* history, see below

slaveVars == <<axi_awready, axi_wready, aw_en, axi_awaddr, axi_bvalid,
               axi_arready, axi_araddr, axi_rvalid, axi_rdata, slv_reg>>
masterVars == <<aw, dw, arvalid, op>>
axiVars == <<port, picture, slaveVars, status, masterVars, written, issued>>

\* Three address bits select among six registers of the detector; the two of
\* the pixel port select among four and leave none over.
Target == Register \cup (IF port = "detector" THEN Unmapped ELSE {})
Idle == [kind |-> "idle"]
Writes == [kind : {"write"}, reg : Target, val : Value]
Reads == [kind : {"read"}, reg : Target]

Defaults == IF port = "detector" THEN DefaultOf ELSE [r \in Register |-> 0]

AxiInit ==
    /\ port \in {"detector", "pixels"}
    /\ picture \in [Value -> Value]
    /\ status \in Value
    /\ issued = status
    /\ axi_awready = FALSE /\ axi_wready = FALSE /\ aw_en = TRUE
    /\ axi_bvalid = FALSE /\ axi_arready = FALSE /\ axi_rvalid = FALSE
    /\ axi_awaddr = 0 /\ axi_araddr = 0 /\ axi_rdata = 0
    /\ aw = "low" /\ dw = "low" /\ arvalid = FALSE /\ op = Idle
    /\ slv_reg = Defaults /\ written = Defaults

-----------------------------------------------------------------------------
\* The slave, one operator per always block.

awvalid == aw = "high"
wvalid == dw = "high"

StartsWrite == ~axi_awready /\ awvalid /\ wvalid /\ aw_en

WriteAddressNoRelease(bready) ==  \* faulty: aw_en is not given back
    /\ axi_awready' = StartsWrite
    /\ aw_en' = (aw_en /\ ~StartsWrite)
    /\ axi_awaddr' = IF StartsWrite THEN op.reg ELSE axi_awaddr

WriteAddress(bready) ==
    /\ axi_awready' = StartsWrite
    /\ aw_en' = IF StartsWrite THEN FALSE ELSE aw_en \/ (bready /\ axi_bvalid)
    /\ axi_awaddr' = IF StartsWrite THEN op.reg ELSE axi_awaddr

WriteData == axi_wready' = (~axi_wready /\ wvalid /\ awvalid /\ aw_en)

slv_reg_wren == axi_wready /\ wvalid /\ axi_awready /\ awvalid

\* A write to an address of no register still stops the sampling of register 1.
\* Registers keep a whole Value; in the pixel port register 1 has 16 bits, which
\* is what the buffer shows, and 2 and 3 have one, which no software reads.
Registers ==
    slv_reg' = IF slv_reg_wren
                 THEN [r \in Register |-> IF r = axi_awaddr THEN op.val ELSE slv_reg[r]]
                 ELSE [slv_reg EXCEPT ![StatusReg] = status]

RespondsEarly == awvalid /\ wvalid /\ aw_en /\ ~axi_bvalid  \* faulty: before the write
Responds == slv_reg_wren /\ ~axi_bvalid

WriteResponse(bready) ==
    axi_bvalid' = (Responds \/ (axi_bvalid /\ ~bready))

ReadAddress ==
    /\ axi_arready' = (~axi_arready /\ arvalid)
    /\ axi_araddr' = IF ~axi_arready /\ arvalid THEN op.reg ELSE axi_araddr

slv_reg_rden_early == arvalid /\ ~axi_arready /\ ~axi_rvalid  \* faulty: address not latched
slv_reg_rden == axi_arready /\ arvalid /\ ~axi_rvalid

reg_data_out_address ==  \* faulty: an address of no register reads as itself
    IF axi_araddr \in Register THEN slv_reg[axi_araddr] ELSE axi_araddr
reg_data_out == IF axi_araddr \in Register THEN slv_reg[axi_araddr] ELSE 0

ReadData(rready) ==
    /\ axi_rvalid' = (slv_reg_rden \/ (axi_rvalid /\ ~rready))
    /\ axi_rdata' = IF slv_reg_rden THEN reg_data_out ELSE axi_rdata

\* The status changes as the detection pleases; the pixel comes out of the
\* buffer one clock after its address.
HardwareStatus ==
    status' \in IF port = "pixels" THEN {picture[slv_reg[0]]} ELSE Value

-----------------------------------------------------------------------------
\* The master.  A transaction ends when its response is taken; the next one
\* may begin in the same clock.  Address and data of a write are raised in
\* either order and held until the slave is ready for them.

Ends(bready, rready) ==
    \/ op.kind = "idle"
    \/ op.kind = "write" /\ axi_bvalid /\ bready
    \/ op.kind = "read" /\ axi_rvalid /\ rready

BeginWrite(w) ==
    /\ op' = w
    /\ aw' \in {"low", "high"} /\ dw' \in {"low", "high"}
    /\ arvalid' = FALSE
    /\ written' = IF w.reg \in Register THEN [written EXCEPT ![w.reg] = w.val] ELSE written
    /\ UNCHANGED issued

BeginRead(r) ==
    /\ op' = r
    /\ aw' = "low" /\ dw' = "low" /\ arvalid' = TRUE
    /\ issued' = status'
    /\ UNCHANGED written

StayIdle ==
    /\ op' = Idle
    /\ aw' = "low" /\ dw' = "low" /\ arvalid' = FALSE
    /\ UNCHANGED <<written, issued>>

\* The signals of a write: raised at some time, down once the slave was ready.
Raised(signal, ready) ==
    CASE signal = "low"  -> {"low", "high"}
      [] signal = "high" -> IF ready THEN {"done"} ELSE {"high"}
      [] signal = "done" -> {"done"}

HoldRequest ==
    /\ IF op.kind = "write" THEN aw' \in Raised(aw, axi_awready) ELSE aw' = aw
    /\ IF op.kind = "write" THEN dw' \in Raised(dw, axi_wready) ELSE dw' = dw
    /\ arvalid' = (arvalid /\ ~axi_arready)
    /\ UNCHANGED <<op, written, issued>>

Master(bready, rready) ==
    \/ Ends(bready, rready) /\ \E w \in Writes : BeginWrite(w)
    \/ Ends(bready, rready) /\ \E r \in Reads : BeginRead(r)
    \/ Ends(bready, rready) /\ StayIdle
    \/ ~Ends(bready, rready) /\ HoldRequest

-----------------------------------------------------------------------------
\* One rising edge of the bus clock.
Edge(bready, rready) ==
    /\ WriteAddress(bready)
    /\ WriteData
    /\ Registers
    /\ WriteResponse(bready)
    /\ ReadAddress
    /\ ReadData(rready)
    /\ HardwareStatus
    /\ Master(bready, rready)
    /\ UNCHANGED <<port, picture>>

\* aresetn of the bus, common to both ends.
AxiReset ==
    /\ axi_awready' = FALSE /\ axi_wready' = FALSE /\ aw_en' = TRUE
    /\ axi_bvalid' = FALSE /\ axi_arready' = FALSE /\ axi_rvalid' = FALSE
    /\ axi_awaddr' = 0 /\ axi_araddr' = 0 /\ axi_rdata' = 0
    /\ aw' = "low" /\ dw' = "low" /\ arvalid' = FALSE /\ op' = Idle
    /\ slv_reg' = Defaults /\ written' = Defaults
    /\ UNCHANGED <<port, picture, status, issued>>

AxiNext == (\E bready, rready \in BOOLEAN : Edge(bready, rready)) \/ AxiReset

AxiSpec == AxiInit /\ [][AxiNext]_axiVars

\* The clock runs, the processor raises what it has begun to ask for and takes
\* every answer.
AxiFairness ==
    /\ WF_axiVars(Edge(TRUE, TRUE))
    /\ WF_axiVars(Edge(TRUE, TRUE) /\ aw = "low" /\ aw' = "high")
    /\ WF_axiVars(Edge(TRUE, TRUE) /\ dw = "low" /\ dw' = "high")

AxiLiveSpec == AxiSpec /\ AxiFairness

-----------------------------------------------------------------------------
AxiTypeOK ==
    /\ port \in {"detector", "pixels"}
    /\ picture \in [Value -> Value]
    /\ {axi_awready, axi_wready, aw_en, axi_bvalid, axi_arready, axi_rvalid, arvalid}
         \subseteq BOOLEAN
    /\ {axi_awaddr, axi_araddr} \subseteq Target
    /\ slv_reg \in [Register -> Value]
    /\ {axi_rdata, status, issued} \subseteq Value
    /\ op \in {Idle} \cup Writes \cup Reads
    /\ {aw, dw} \subseteq {"low", "high", "done"}
    /\ written \in [Register -> Value]

\* No answer without a question, and none before the work is done: a write
\* response comes while a write waits for it, and the register has the value.
AnswersAreOwed ==
    /\ axi_bvalid => /\ op.kind = "write" /\ aw = "done" /\ dw = "done"
                     /\ op.reg \in Register \ {StatusReg} => slv_reg[op.reg] = op.val
    /\ axi_rvalid => op.kind = "read" /\ ~arvalid

\* A read answers with the last value written to its register (the history
\* variable `written'); from register 1, with what the hardware drove in the
\* clock in which the read was raised (`issued'), which the write that came
\* right before cannot have kept from being sampled; from an address of no
\* register, with 0.
ReadsAreCurrent ==
    axi_rvalid =>
        axi_rdata = IF op.reg = StatusReg THEN issued
                    ELSE IF op.reg \in Register THEN written[op.reg]
                    ELSE 0

\* The software writes an address to the pixel port and reads the pixel back
\* without waiting.  The answer is the pixel at that address, with no clock to
\* spare: buffer, sampling and read each take one.
PixelPortAnswersAddress ==
    port = "pixels" /\ axi_rvalid /\ op.reg = StatusReg =>
        axi_rdata = picture[written[0]]

\* Every transaction the master begins comes to its answer, unless a reset
\* takes it back.
AccessesEnd ==
    /\ op.kind = "write" ~> (axi_bvalid \/ op.kind = "idle")
    /\ op.kind = "read" ~> (axi_rvalid \/ op.kind = "idle")

=============================================================================
