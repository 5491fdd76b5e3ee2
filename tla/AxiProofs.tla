----------------------------- MODULE AxiProofs -----------------------------
(***************************************************************************)
(* Proofs about the two AXI register files, for every set of registers and  *)
(* values.  The invariant says, channel by channel, how far a transaction   *)
(* has come.                                                                *)
(***************************************************************************)
EXTENDS AxiLiteSlave, TLAPS

\* A write: both ready signals rise together, for one clock, in which aw_en is
\* down; from then on aw_en stays down until the response is taken.
WriteChannel ==
    /\ axi_wready = axi_awready
    /\ aw_en = (~axi_awready /\ ~axi_bvalid)
    /\ axi_awready => /\ op.kind = "write" /\ aw = "high" /\ dw = "high"
                      /\ axi_awaddr = op.reg /\ ~axi_bvalid
    /\ axi_bvalid => op.kind = "write" /\ aw = "done" /\ dw = "done"
    /\ op.kind = "write" /\ ~axi_bvalid => aw # "done" /\ dw # "done"
    /\ op.kind # "write" => aw = "low" /\ dw = "low"

\* A read: the request is up until the slave is ready, the answer from then on.
ReadChannel ==
    /\ axi_arready => arvalid /\ axi_araddr = op.reg
    /\ axi_rvalid => ~arvalid
    /\ op.kind # "read" => ~arvalid /\ ~axi_arready /\ ~axi_rvalid

\* The registers hold what was written last, but for a write still on its way,
\* and but for register 1, which samples the hardware.
RegistersCurrent ==
    \A r \in Register \ {StatusReg} :
        \/ slv_reg[r] = written[r]
        \/ op.kind = "write" /\ op.reg = r /\ ~axi_bvalid
WriteUnderWay == op.kind = "write" /\ op.reg \in Register => written[op.reg] = op.val

\* The status on its way to a read of register 1: driven, then sampled.
StatusUnderWay ==
    op.kind = "read" =>
        /\ arvalid /\ ~axi_arready => status = issued
        /\ axi_arready => slv_reg[StatusReg] = issued
        /\ port = "pixels" => issued = picture[written[0]]

AxiInv ==
    /\ AxiTypeOK /\ WriteChannel /\ ReadChannel
    /\ RegistersCurrent /\ WriteUnderWay /\ StatusUnderWay
    /\ ReadsAreCurrent

-----------------------------------------------------------------------------
\* What a transaction is, by its kind.
LEMMA OpKinds ==
    ASSUME AxiTypeOK
    PROVE  /\ op.kind \in {"idle", "write", "read"}
           /\ op.kind = "write" => op \in Writes /\ op.reg \in Target /\ op.val \in Value
           /\ op.kind = "read" => op \in Reads /\ op.reg \in Target
  BY DEF AxiTypeOK, Idle, Writes, Reads

\* What the transaction is after a clock.
LEMMA NextOp ==
    ASSUME AxiTypeOK, NEW bready \in BOOLEAN, NEW rready \in BOOLEAN,
           Master(bready, rready), port' = port
    PROVE  /\ op' \in {Idle} \cup Writes' \cup Reads'
           /\ Target' = Target
           /\ Ends(bready, rready) \/ op' = op
<1>1. Target' = Target
  BY DEF Target
<1>2. Writes' = Writes /\ Reads' = Reads
  BY <1>1 DEF Writes, Reads
<1> QED
  BY <1>1, <1>2 DEF Master, BeginWrite, BeginRead, StayIdle, HoldRequest, AxiTypeOK

LEMMA EdgeTypes ==
    ASSUME AxiInv, NEW bready \in BOOLEAN, NEW rready \in BOOLEAN, Edge(bready, rready)
    PROVE  AxiTypeOK'
<1> USE RegisterAssumption
<1>1. AxiTypeOK /\ WriteChannel /\ ReadChannel /\ Master(bready, rready)
      /\ port' = port /\ picture' = picture
  BY DEF AxiInv, Edge
<1>2. /\ op' \in {Idle} \cup Writes' \cup Reads' /\ Target' = Target
  BY <1>1, NextOp
<1>3. {axi_awready, axi_wready, aw_en, axi_bvalid, axi_arready, axi_rvalid, arvalid}'
        \subseteq BOOLEAN
  BY <1>1 DEF Edge, AxiTypeOK, WriteAddress, StartsWrite, WriteData, awvalid, wvalid,
              WriteResponse, Responds, slv_reg_wren, ReadAddress, ReadData, slv_reg_rden,
              Master, BeginWrite, BeginRead, StayIdle, HoldRequest
<1>4. axi_awaddr' \in Target
  BY <1>1, OpKinds DEF Edge, AxiTypeOK, WriteAddress, StartsWrite, awvalid, wvalid, WriteChannel
<1>5. axi_araddr' \in Target
  BY <1>1, OpKinds DEF Edge, AxiTypeOK, ReadAddress, ReadChannel
<1>6. slv_reg' \in [Register -> Value]
  <2>1. CASE slv_reg_wren
    <3>1. op.val \in Value
      BY <1>1, <2>1, OpKinds DEF slv_reg_wren, WriteChannel
    <3> QED  BY <1>1, <2>1, <3>1 DEF Edge, Registers, AxiTypeOK
  <2>2. CASE ~slv_reg_wren
    BY <1>1, <2>2 DEF Edge, Registers, AxiTypeOK
  <2> QED  BY <2>1, <2>2
<1>7. status' \in Value
  BY <1>1 DEF Edge, HardwareStatus, AxiTypeOK
<1>8. axi_rdata' \in Value
  BY <1>1 DEF Edge, ReadData, reg_data_out, AxiTypeOK
<1>9. /\ {aw, dw}' \subseteq {"low", "high", "done"}
  BY <1>1 DEF Master, BeginWrite, BeginRead, StayIdle, HoldRequest, Raised, AxiTypeOK
<1>10. written' \in [Register -> Value]
  <2>1. \A w \in Writes : w.val \in Value
    BY DEF Writes
  <2> QED
    BY <1>1, <2>1 DEF Master, BeginWrite, BeginRead, StayIdle, HoldRequest, AxiTypeOK
<1>11. issued' \in Value
  BY <1>1, <1>7 DEF Master, BeginWrite, BeginRead, StayIdle, HoldRequest, AxiTypeOK
<1> QED
  BY <1>1, <1>2, <1>3, <1>4, <1>5, <1>6, <1>7, <1>8, <1>9, <1>10, <1>11 DEF AxiTypeOK
-----------------------------------------------------------------------------
\* A clock in which no transaction begins or ends leaves the request to
\* HoldRequest; in any other clock the signals are those of a new one.
LEMMA EdgeWriteChannel ==
    ASSUME AxiInv, NEW bready \in BOOLEAN, NEW rready \in BOOLEAN, Edge(bready, rready)
    PROVE  WriteChannel'
<1> USE DEF WriteChannel
<1>1. /\ AxiTypeOK /\ WriteChannel /\ ReadChannel
      /\ WriteAddress(bready) /\ WriteData /\ WriteResponse(bready)
      /\ Master(bready, rready)
  BY DEF AxiInv, Edge
<1>2. op.kind \in {"idle", "write", "read"}
  BY <1>1, OpKinds
<1>3. /\ {axi_awready, axi_wready, aw_en, axi_bvalid, axi_rvalid, arvalid} \subseteq BOOLEAN
      /\ {aw, dw} \subseteq {"low", "high", "done"}
  BY <1>1 DEF AxiTypeOK
<1> USE DEF WriteAddress, StartsWrite, WriteData, WriteResponse, Responds, slv_reg_wren,
            awvalid, wvalid
<1>4. CASE Ends(bready, rready)
  <2>1. axi_awready' = FALSE /\ axi_wready' = FALSE /\ axi_bvalid' = FALSE /\ aw_en' = TRUE
    BY <1>1, <1>2, <1>3, <1>4 DEF Ends, ReadChannel
  <2>2. aw' # "done" /\ dw' # "done"
    BY <1>1, <1>4 DEF Master, BeginWrite, BeginRead, StayIdle
  <2>3. op'.kind # "write" => aw' = "low" /\ dw' = "low"
    BY <1>1, <1>4 DEF Master, BeginWrite, BeginRead, StayIdle, Writes
  <2> QED  BY <2>1, <2>2, <2>3
<1>5. CASE ~Ends(bready, rready)
  <2>1. HoldRequest /\ op' = op
    BY <1>1, <1>5 DEF Master, HoldRequest
  <2>2. CASE op.kind = "write"
    <3>1. aw' \in Raised(aw, axi_awready) /\ dw' \in Raised(dw, axi_wready)
      BY <2>1, <2>2 DEF HoldRequest
    <3>2. ~(axi_bvalid /\ bready)
      BY <1>5, <2>2 DEF Ends
    <3>3. CASE axi_bvalid
      BY <1>1, <1>3, <2>1, <2>2, <3>1, <3>2, <3>3, Zenon DEF Raised
    <3>4. CASE axi_awready
      BY <1>1, <1>3, <2>1, <2>2, <3>1, <3>4 DEF Raised
    <3>5. CASE ~axi_bvalid /\ ~axi_awready
      BY <1>1, <1>3, <2>1, <2>2, <3>1, <3>5 DEF Raised
    <3> QED  BY <3>3, <3>4, <3>5
  <2>3. CASE op.kind # "write"
    BY <1>1, <1>3, <2>1, <2>3 DEF HoldRequest
  <2> QED  BY <2>2, <2>3
<1> QED  BY <1>4, <1>5

LEMMA EdgeReadChannel ==
    ASSUME AxiInv, NEW bready \in BOOLEAN, NEW rready \in BOOLEAN, Edge(bready, rready)
    PROVE  ReadChannel'
<1> USE DEF ReadChannel
<1>1. /\ AxiTypeOK /\ WriteChannel /\ ReadChannel
      /\ ReadAddress /\ ReadData(rready) /\ Master(bready, rready)
  BY DEF AxiInv, Edge
<1>2. op.kind \in {"idle", "write", "read"}
  BY <1>1, OpKinds
<1>3. {axi_arready, axi_rvalid, arvalid, axi_bvalid} \subseteq BOOLEAN
  BY <1>1 DEF AxiTypeOK
<1> USE DEF ReadAddress, ReadData, slv_reg_rden
<1>4. CASE Ends(bready, rready)
  <2>1. ~arvalid /\ ~axi_arready /\ ~axi_arready' /\ ~axi_rvalid'
    BY <1>1, <1>2, <1>3, <1>4 DEF Ends
  <2>2. arvalid' => op'.kind = "read"
    BY <1>1, <1>4 DEF Master, BeginWrite, BeginRead, StayIdle, Reads
  <2> QED  BY <2>1, <2>2
<1>5. CASE ~Ends(bready, rready)
  <2>1. op' = op /\ arvalid' = (arvalid /\ ~axi_arready)
    BY <1>1, <1>5 DEF Master, HoldRequest
  <2> QED  BY <1>1, <1>3, <2>1
<1> QED  BY <1>4, <1>5

-----------------------------------------------------------------------------
\* A register changes when the write addressed to it is through, and never else.
LEMMA EdgeRegisters ==
    ASSUME AxiInv, NEW bready \in BOOLEAN, NEW rready \in BOOLEAN, Edge(bready, rready)
    PROVE  RegistersCurrent' /\ WriteUnderWay'
<1>1. /\ AxiTypeOK /\ WriteChannel /\ RegistersCurrent /\ WriteUnderWay /\ Registers
      /\ WriteResponse(bready) /\ Master(bready, rready)
  BY DEF AxiInv, Edge
<1>2. slv_reg \in [Register -> Value] /\ written \in [Register -> Value]
  BY <1>1 DEF AxiTypeOK
<1>3. CASE Ends(bready, rready)
  <2>1. ~slv_reg_wren
    BY <1>1, <1>3 DEF slv_reg_wren, WriteChannel, Ends
  <2>2. \A r \in Register \ {StatusReg} : slv_reg'[r] = slv_reg[r] /\ slv_reg[r] = written[r]
    BY <1>1, <1>2, <1>3, <2>1 DEF Registers, RegistersCurrent, Ends
  <2>3. CASE \E w \in Writes : BeginWrite(w)
    <3>1. PICK w \in Writes : BeginWrite(w)
      BY <2>3
    <3>2. op' = w /\ w.kind = "write" /\ ~axi_bvalid'
      BY <1>1, <1>3, <2>1, <3>1 DEF BeginWrite, Writes, WriteResponse, Responds, Ends, WriteChannel
    <3>3. written' = IF w.reg \in Register THEN [written EXCEPT ![w.reg] = w.val] ELSE written
      BY <3>1 DEF BeginWrite
    <3> QED  BY <1>2, <2>2, <3>2, <3>3 DEF RegistersCurrent, WriteUnderWay
  <2>4. CASE \E r \in Reads : BeginRead(r)
    BY <2>2, <2>4 DEF BeginRead, Reads, RegistersCurrent, WriteUnderWay
  <2>5. CASE StayIdle
    BY <2>2, <2>5 DEF StayIdle, Idle, RegistersCurrent, WriteUnderWay
  <2> QED  BY <1>1, <1>3, <2>3, <2>4, <2>5 DEF Master
<1>4. CASE ~Ends(bready, rready)
  <2>1. op' = op /\ written' = written
    BY <1>1, <1>4 DEF Master, HoldRequest
  <2>2. CASE slv_reg_wren
    <3>1. op.kind = "write" /\ axi_awaddr = op.reg
      BY <1>1, <2>2 DEF slv_reg_wren, WriteChannel
    <3>2. \A r \in Register \ {StatusReg} :
             slv_reg'[r] = IF r = op.reg THEN op.val ELSE slv_reg[r]
      BY <1>1, <1>2, <2>2, <3>1 DEF Registers
    <3> QED  BY <1>1, <2>1, <3>1, <3>2 DEF RegistersCurrent, WriteUnderWay
  <2>3. CASE ~slv_reg_wren
    <3>1. \A r \in Register \ {StatusReg} : slv_reg'[r] = slv_reg[r]
      BY <1>1, <1>2, <2>3 DEF Registers
    <3>2. op.kind = "write" /\ ~axi_bvalid => ~axi_bvalid'
      BY <1>1, <2>3 DEF WriteResponse, Responds
    <3> QED  BY <1>1, <2>1, <3>1, <3>2 DEF RegistersCurrent, WriteUnderWay
  <2> QED  BY <2>2, <2>3
<1> QED  BY <1>3, <1>4
-----------------------------------------------------------------------------
\* What a read of register 1 is to answer is driven when the read is raised and
\* sampled in the clock after: no write is in the way then.
LEMMA EdgeStatus ==
    ASSUME AxiInv, NEW bready \in BOOLEAN, NEW rready \in BOOLEAN, Edge(bready, rready)
    PROVE  StatusUnderWay'
<1> USE RegisterAssumption
<1>1. /\ AxiTypeOK /\ WriteChannel /\ ReadChannel /\ RegistersCurrent /\ StatusUnderWay
      /\ Registers /\ ReadAddress /\ HardwareStatus /\ Master(bready, rready)
      /\ port' = port /\ picture' = picture
  BY DEF AxiInv, Edge
<1>2. slv_reg \in [Register -> Value]
  BY <1>1 DEF AxiTypeOK
<1>3. CASE Ends(bready, rready)
  <2>1. CASE \E r \in Reads : BeginRead(r)
    <3>1. issued' = status' /\ written' = written
      BY <2>1 DEF BeginRead
    <3>2. axi_arready' = FALSE
      BY <1>1, <1>3 DEF ReadAddress, ReadChannel, WriteChannel, Ends
    <3>3. slv_reg[0] = written[0]
      BY <1>1, <1>3 DEF RegistersCurrent, Ends, StatusReg
    <3>4. port = "pixels" => status' = picture[slv_reg[0]]
      BY <1>1 DEF HardwareStatus
    <3> QED  BY <1>1, <3>1, <3>2, <3>3, <3>4 DEF StatusUnderWay
  <2>2. CASE \E w \in Writes : BeginWrite(w)
    BY <2>2 DEF BeginWrite, Writes, StatusUnderWay
  <2>3. CASE StayIdle
    BY <2>3 DEF StayIdle, Idle, StatusUnderWay
  <2> QED  BY <1>1, <1>3, <2>1, <2>2, <2>3 DEF Master
<1>4. CASE ~Ends(bready, rready)
  <2>1. /\ op' = op /\ written' = written /\ issued' = issued
        /\ arvalid' = (arvalid /\ ~axi_arready)
    BY <1>1, <1>4 DEF Master, HoldRequest
  <2>2. axi_arready' = (~axi_arready /\ arvalid)
    BY <1>1 DEF ReadAddress
  <2>3. CASE op.kind = "read"
    <3>1. ~slv_reg_wren
      BY <1>1, <2>3 DEF slv_reg_wren, WriteChannel
    <3>2. slv_reg'[StatusReg] = status
      BY <1>1, <1>2, <3>1 DEF Registers, StatusReg
    <3> QED  BY <1>1, <2>1, <2>2, <2>3, <3>2 DEF StatusUnderWay
  <2>4. CASE op.kind # "read"
    BY <2>1, <2>4 DEF StatusUnderWay
  <2> QED  BY <2>3, <2>4
<1> QED  BY <1>3, <1>4

\* The answer is latched once, from the registers as they are then.
LEMMA EdgeAnswer ==
    ASSUME AxiInv, NEW bready \in BOOLEAN, NEW rready \in BOOLEAN, Edge(bready, rready)
    PROVE  ReadsAreCurrent'
<1>1. /\ AxiTypeOK /\ WriteChannel /\ ReadChannel /\ RegistersCurrent /\ StatusUnderWay
      /\ ReadsAreCurrent /\ ReadData(rready) /\ Master(bready, rready)
  BY DEF AxiInv, Edge
<1>2. CASE Ends(bready, rready)
  <2>1. ~axi_rvalid'
    BY <1>1, <1>2, OpKinds DEF ReadData, slv_reg_rden, ReadChannel, Ends
  <2> QED  BY <2>1 DEF ReadsAreCurrent
<1>3. CASE ~Ends(bready, rready)
  <2>1. op' = op /\ written' = written /\ issued' = issued
    BY <1>1, <1>3 DEF Master, HoldRequest
  <2>2. CASE slv_reg_rden
    <3>1. op.kind = "read" /\ axi_araddr = op.reg /\ axi_arready
      BY <1>1, <2>2 DEF slv_reg_rden, ReadChannel
    <3>2. axi_rdata' = IF op.reg \in Register THEN slv_reg[op.reg] ELSE 0
      BY <1>1, <2>2, <3>1 DEF ReadData, reg_data_out
    <3>3. slv_reg[StatusReg] = issued
      BY <1>1, <3>1 DEF StatusUnderWay
    <3>4. \A r \in Register \ {StatusReg} : slv_reg[r] = written[r]
      BY <1>1, <3>1 DEF RegistersCurrent
    <3>5. StatusReg \in Register
      BY RegisterAssumption
    <3> QED  BY <2>1, <3>2, <3>3, <3>4, <3>5 DEF ReadsAreCurrent
  <2>3. CASE ~slv_reg_rden
    <3>1. axi_rdata' = axi_rdata /\ (axi_rvalid' => axi_rvalid)
      BY <1>1, <2>3 DEF ReadData
    <3> QED  BY <1>1, <2>1, <3>1 DEF ReadsAreCurrent
  <2> QED  BY <2>2, <2>3
<1> QED  BY <1>2, <1>3

-----------------------------------------------------------------------------
\* Both ends at rest: nothing under way, the registers at their defaults.
LEMMA RestState ==
    ASSUME AxiInit
    PROVE  AxiInv
<1> USE RegisterAssumption
<1>1. Defaults \in [Register -> Value]
  BY DEF AxiInit, Defaults
<1>2. 0 \in Target
  BY DEF Target
<1>3. AxiTypeOK
  BY <1>1, <1>2 DEF AxiInit, AxiTypeOK
<1>4. WriteChannel /\ ReadChannel
  BY DEF AxiInit, WriteChannel, ReadChannel, Idle
<1>5. RegistersCurrent /\ WriteUnderWay /\ StatusUnderWay /\ ReadsAreCurrent
  BY DEF AxiInit, RegistersCurrent, WriteUnderWay, StatusUnderWay, ReadsAreCurrent, Idle
<1> QED  BY <1>3, <1>4, <1>5 DEF AxiInv

LEMMA ResetState ==
    ASSUME AxiInv, AxiReset
    PROVE  AxiInv'
<1> USE RegisterAssumption
<1>1. AxiTypeOK /\ port' = port /\ picture' = picture /\ status' = status /\ issued' = issued
  BY DEF AxiInv, AxiReset
<1>2. Defaults \in [Register -> Value] /\ slv_reg' = Defaults /\ written' = Defaults
  BY <1>1 DEF AxiTypeOK, AxiReset, Defaults
<1>3. 0 \in Target'
  BY DEF Target
<1>4. AxiTypeOK'
  BY <1>1, <1>2, <1>3 DEF AxiReset, AxiTypeOK
<1>5. WriteChannel' /\ ReadChannel'
  BY DEF AxiReset, WriteChannel, ReadChannel, Idle
<1>6. RegistersCurrent' /\ WriteUnderWay' /\ StatusUnderWay' /\ ReadsAreCurrent'
  BY <1>2 DEF AxiReset, RegistersCurrent, WriteUnderWay, StatusUnderWay, ReadsAreCurrent, Idle
<1> QED  BY <1>4, <1>5, <1>6 DEF AxiInv

LEMMA AxiStutter ==
    ASSUME AxiInv, UNCHANGED axiVars
    PROVE  AxiInv'
<1> USE DEF axiVars, slaveVars, masterVars
<1>1. Target' = Target
  BY DEF Target
<1>2. AxiTypeOK'
  BY <1>1 DEF AxiInv, AxiTypeOK, Writes, Reads
<1>3. WriteChannel' /\ ReadChannel' /\ RegistersCurrent' /\ WriteUnderWay'
  BY DEF AxiInv, WriteChannel, ReadChannel, RegistersCurrent, WriteUnderWay
<1>4. StatusUnderWay' /\ ReadsAreCurrent'
  BY DEF AxiInv, StatusUnderWay, ReadsAreCurrent
<1> QED  BY <1>2, <1>3, <1>4 DEF AxiInv

LEMMA AxiInvariant == AxiSpec => []AxiInv
<1>1. AxiInv /\ [AxiNext]_axiVars => AxiInv'
  <2> SUFFICES ASSUME AxiInv, [AxiNext]_axiVars
               PROVE  AxiInv'
    OBVIOUS
  <2>1. ASSUME NEW bready \in BOOLEAN, NEW rready \in BOOLEAN, Edge(bready, rready)
        PROVE  AxiInv'
    BY <2>1, EdgeTypes, EdgeWriteChannel, EdgeReadChannel, EdgeRegisters, EdgeStatus, EdgeAnswer
       DEF AxiInv
  <2> QED
    BY <2>1, ResetState, AxiStutter DEF AxiNext
<1> QED
  BY <1>1, RestState, PTL DEF AxiSpec

-----------------------------------------------------------------------------
\* Handshake signals, registers and addresses keep their types: no address that
\* is latched is one the decoder does not know.
THEOREM AxiTypeCorrect == AxiSpec => []AxiTypeOK
<1>1. AxiInv => AxiTypeOK
  BY DEF AxiInv
<1> QED
  BY <1>1, AxiInvariant, PTL

\* Whatever the skew of the master's channels, no response comes unasked, and
\* none before the register has the value written.
THEOREM ResponsesAreOwed == AxiSpec => []AnswersAreOwed
<1>1. AxiInv => AnswersAreOwed
  BY DEF AxiInv, AnswersAreOwed, WriteChannel, ReadChannel, RegistersCurrent, WriteUnderWay
<1> QED
  BY <1>1, AxiInvariant, PTL

\* A read answers with the last value written; from the sampled register, with
\* what the hardware drove in the clock in which the read was raised.
THEOREM ReadsAnswerCurrentValues == AxiSpec => []ReadsAreCurrent
<1>1. AxiInv => ReadsAreCurrent
  BY DEF AxiInv
<1> QED
  BY <1>1, AxiInvariant, PTL

\* The pixel port keeps up with the software: a pixel read right after its
\* address was written is the pixel at that address.
THEOREM PixelsAreAtTheirAddress == AxiSpec => []PixelPortAnswersAddress
<1>1. AxiInv => PixelPortAnswersAddress
  BY DEF AxiInv, PixelPortAnswersAddress, ReadsAreCurrent, ReadChannel, StatusUnderWay
<1> QED
  BY <1>1, AxiInvariant, PTL
=============================================================================
