-------------------------- MODULE BroadcastProofs --------------------------
(***************************************************************************)
(* Proofs about the frame broadcast server, for every number of clients and  *)
(* every size of picture, pieces and buffers that BroadcastAssumption allows. *)
(***************************************************************************)
EXTENDS FrameBroadcast, FiniteSetTheorems, TLAPS

\* The picture memory: behind the address written last are pixels of the frame
\* being written, from it on those of the frame before; an alarm holds it where
\* only address 0 is new.
PictureShape ==
    /\ picture \in [PixelAddress -> {0, 1}]
    /\ wr \in PixelAddress /\ frameNo \in {0, 1} /\ suspicious \in BOOLEAN
    /\ \A a \in PixelAddress \ {0} : picture[a] = IF a < wr THEN frameNo ELSE 1 - frameNo
    /\ suspicious => wr = 1

\* A copy made during an alarm has pixels of the frame before only.
CopyShape ==
    /\ held \in BOOLEAN
    /\ frame_buf \subseteq {0, 1}
    /\ pc \notin {"copy", "send"} => frame_buf = {}
    /\ held => suspicious
    /\ pc = "copy" => i <= FRAME_SIZE
    /\ held /\ pc = "copy" => frame_buf = IF i <= 1 THEN {} ELSE {1 - frameNo}
    /\ held /\ pc = "send" => frame_buf = {1 - frameNo}

\* The types of the loop, of the connections, of the streams.
Steps == {"start", "configure", "fast", "fast_clear", "slow", "slow_clear",
          "input", "copy", "send"}
LoopShape ==
    /\ pc \in Steps /\ tmrFlag \subseteq {"fast", "slow"}
    /\ serving \in BOOLEAN /\ started \in BOOLEAN
    /\ pbufs \in 0 .. PBUFS /\ i \in Nat
    /\ pc = "send" => i <= CHUNKS
ConnShape ==
    /\ conn \in [Client -> Connection]
    /\ holed \subseteq Client /\ tpcb \in Client \cup {NULL}
    /\ pc \in {"copy", "send"} => tpcb \in Client /\ conn[tpcb].state # "none"
StreamTypes ==
    /\ stream \in [Client -> Seq(Nat)]
    /\ \A c \in Client : Len(stream[c]) <= CLIENT_CHUNKS

\* A client gets nothing before the first call for its connection, and in that
\* call every piece, as the buffer of a new connection has room for a whole one.
InFirstCall(c) == pc = "send" /\ tpcb = c
StreamShape ==
    \A c \in Watched \ holed :
        /\ \A k \in 1 .. Len(stream[c]) : stream[c][k] = k - 1
        /\ Len(stream[c]) < CLIENT_CHUNKS =>
             /\ InFirstCall(c) => Len(stream[c]) = i /\ conn[c].room + i = SND_BUF
             /\ ~InFirstCall(c) => /\ Len(stream[c]) = 0
                                   /\ conn[c].state # "none" => conn[c].room = SND_BUF

BroadcastInv ==
    /\ PictureShape /\ CopyShape /\ LoopShape
    /\ ConnShape /\ StreamTypes /\ StreamShape

-----------------------------------------------------------------------------
LEMMA InitialShape == BroadcastInit => BroadcastInv
<1> SUFFICES ASSUME BroadcastInit
             PROVE  BroadcastInv
  OBVIOUS
<1> USE FrameSizeAssumption, BroadcastAssumption DEF BroadcastInit, PictureInit
<1>1. PictureShape
  <2>1. 0 \in PixelAddress /\ PixelAddress \subseteq Nat
    BY DEF PixelAddress
  <2>2. \A a \in PixelAddress : picture[a] = 0
    OBVIOUS
  <2>3. picture \in [PixelAddress -> {0, 1}]
    OBVIOUS
  <2>4. wr \in PixelAddress /\ frameNo \in {0, 1}
    BY <2>1
  <2>5. suspicious \in BOOLEAN /\ ~suspicious
    OBVIOUS
  <2>6. \A a \in PixelAddress \ {0} : picture[a] = IF a < wr THEN frameNo ELSE 1 - frameNo
    BY <2>1, <2>2
  <2> QED  BY <2>3, <2>4, <2>5, <2>6 DEF PictureShape
<1>2. CopyShape
  BY DEF CopyShape
<1>3. LoopShape
  <2>1. pbufs \in 0 .. PBUFS /\ i \in Nat
    OBVIOUS
  <2>2. serving \in BOOLEAN /\ started \in BOOLEAN
    OBVIOUS
  <2> QED  BY <2>1, <2>2 DEF LoopShape, Steps
<1>4. conn \in [Client -> Connection]
  BY DEF Connection
<1>5. ConnShape
  BY <1>4 DEF ConnShape
<1>6. \A c \in Client : stream[c] = <<>> /\ Len(stream[c]) = 0
  OBVIOUS
<1>7. StreamTypes
  BY <1>6 DEF StreamTypes
<1>8. StreamShape
  BY <1>6 DEF StreamShape, InFirstCall
<1> QED  BY <1>1, <1>2, <1>3, <1>5, <1>7, <1>8 DEF BroadcastInv

-----------------------------------------------------------------------------
\* The picture changes by the detection only.
LEMMA PictureStep ==
    ASSUME PictureShape, StorePixel \/ AlarmChanges
    PROVE  /\ PictureShape'
           /\ suspicious => frameNo' = frameNo /\ picture' = picture
<1> USE FrameSizeAssumption DEF PixelAddress
<1>1. CASE StorePixel
  <2>1. /\ ~suspicious /\ suspicious' = suspicious /\ wr \in 0 .. FRAME_SIZE - 1
        /\ picture' = [picture EXCEPT ![wr] = frameNo]
    BY <1>1 DEF StorePixel, PictureShape
  <2>2. CASE wr = FRAME_SIZE - 1
    <3>1. wr' = 0 /\ frameNo' = 1 - frameNo
      BY <1>1, <2>2 DEF StorePixel
    <3> QED  BY <2>1, <2>2, <3>1 DEF PictureShape
  <2>3. CASE wr # FRAME_SIZE - 1
    <3>1. wr' = wr + 1 /\ frameNo' = frameNo
      BY <1>1, <2>1, <2>3 DEF StorePixel
    <3> QED  BY <2>1, <2>3, <3>1 DEF PictureShape
  <2> QED  BY <2>2, <2>3
<1>2. CASE AlarmChanges
  BY <1>2 DEF AlarmChanges, PictureShape
<1> QED  BY <1>1, <1>2

LEMMA PictureKept ==
    ASSUME PictureShape, UNCHANGED pictureVars
    PROVE  PictureShape'
  BY DEF PictureShape, pictureVars

LEMMA StreamsKept ==
    ASSUME StreamTypes, stream' = stream
    PROVE  StreamTypes'
  BY DEF StreamTypes

\* The room of one connection is another one.
LEMMA RoomChanges ==
    ASSUME conn \in [Client -> Connection], NEW c \in Client, NEW r \in 0 .. SND_BUF,
           conn' = [conn EXCEPT ![c].room = r]
    PROVE  /\ conn' \in [Client -> Connection]
           /\ conn'[c].room = r /\ conn'[c].state = conn[c].state
           /\ \A d \in Client \ {c} : conn'[d] = conn[d]
  BY DEF Connection

LEMMA DetectionStep ==
    ASSUME BroadcastInv, Detection
    PROVE  BroadcastInv'
<1> USE DEF BroadcastInv
<1>1. /\ UNCHANGED <<pc, loopVars, connVars, tpcb, i, frame_buf>>
      /\ StorePixel \/ AlarmChanges
      /\ held' = (held /\ suspicious')
  BY DEF Detection
<1>2. PictureShape' /\ (suspicious => frameNo' = frameNo)
  BY <1>1, PictureStep
<1>3. CopyShape'
  BY <1>1, <1>2 DEF CopyShape, PictureShape
<1>4. LoopShape' /\ ConnShape'
  BY <1>1 DEF LoopShape, ConnShape, loopVars, connVars
<1>5. StreamTypes'
  BY <1>1, StreamsKept DEF connVars
<1>6. StreamShape'
  BY <1>1 DEF StreamShape, InFirstCall, connVars
<1> QED  BY <1>2, <1>3, <1>4, <1>5, <1>6

-----------------------------------------------------------------------------
\* Steps of the loop outside the receive callback touch neither the copy nor a
\* stream.
LEMMA LoopStep ==
    ASSUME BroadcastInv, UNCHANGED <<connVars, copyVars, pictureVars>>,
           pc \notin {"copy", "send"}, pc' \in Steps \ {"copy", "send"},
           tmrFlag' \subseteq {"fast", "slow"}, serving' \in BOOLEAN, started' \in BOOLEAN
    PROVE  BroadcastInv'
<1> USE DEF BroadcastInv
<1>1. UNCHANGED <<conn, stream, holed, pbufs, tpcb, i, frame_buf, held, suspicious, frameNo>>
  BY DEF connVars, copyVars, pictureVars
<1>2. PictureShape'
  BY PictureKept
<1>3. CopyShape'
  BY <1>1 DEF CopyShape
<1>4. LoopShape' /\ ConnShape'
  BY <1>1 DEF LoopShape, ConnShape
<1>5. StreamTypes'
  BY <1>1, StreamsKept
<1>6. StreamShape'
  BY <1>1 DEF StreamShape, InFirstCall
<1> QED  BY <1>2, <1>3, <1>4, <1>5, <1>6
-----------------------------------------------------------------------------
\* The receive callback.  It begins with a copy of nothing.
LEMMA BeginRecvStep ==
    ASSUME BroadcastInv, NEW c \in Client, NEW buf \in {0, 1},
           pc = "input", conn[c].state # "none", BeginRecv(c, buf),
           conn' \in [Client -> Connection], conn'[c].state # "none",
           \A d \in Client : /\ conn'[d].room = conn[d].room
                             /\ conn[d].state = "none" => conn'[d].state = "none"
    PROVE  BroadcastInv'
<1> USE DEF BroadcastInv
<1>1. /\ pc' = "copy" /\ tpcb' = c /\ i' = 0 /\ held' = suspicious
      /\ pbufs >= buf /\ pbufs' = pbufs - buf
      /\ UNCHANGED <<stream, holed, frame_buf, tmrFlag, serving, started>>
      /\ UNCHANGED <<picture, wr, frameNo, suspicious>>
  BY DEF BeginRecv, loopVars, pictureVars
<1>2. PictureShape'
  BY <1>1, PictureKept DEF pictureVars
<1>3. CopyShape'
  BY <1>1, FrameSizeAssumption DEF CopyShape, PictureShape
<1>4. pbufs' \in 0 .. PBUFS
  BY <1>1, BroadcastAssumption DEF LoopShape
<1>5. LoopShape'
  BY <1>1, <1>4 DEF LoopShape, Steps
<1>6. ConnShape'
  BY <1>1 DEF ConnShape
<1>7. StreamTypes'
  BY <1>1, StreamsKept
<1>8. StreamShape'
  BY <1>1, BroadcastAssumption DEF StreamShape, InFirstCall
<1> QED  BY <1>2, <1>3, <1>5, <1>6, <1>7, <1>8

LEMMA CopyPixelStep ==
    ASSUME BroadcastInv, CopyPixel
    PROVE  BroadcastInv'
<1> USE DEF BroadcastInv
<1>1. /\ pc = "copy" /\ i < FRAME_SIZE /\ i' = i + 1 /\ pc' = pc /\ tpcb' = tpcb
      /\ held' = held /\ UNCHANGED <<loopVars, connVars, pictureVars>>
      /\ frame_buf' = frame_buf \cup (IF i = 0 THEN {} ELSE {picture[i]})
  BY DEF CopyPixel
<1>2. UNCHANGED <<conn, stream, holed, pbufs, tmrFlag, serving, started, suspicious, frameNo>>
  BY <1>1 DEF loopVars, connVars, pictureVars
<1>3. PictureShape'
  BY <1>1, PictureKept
<1>4. i \in Nat /\ i \in PixelAddress /\ i' \in Nat /\ i' <= FRAME_SIZE
  BY <1>1, FrameSizeAssumption DEF LoopShape, PixelAddress
<1>5. CopyShape'
  <2>1. frame_buf' \subseteq {0, 1}
    BY <1>1, <1>4 DEF CopyShape, PictureShape
  <2>2. held => /\ frame_buf = IF i <= 1 THEN {} ELSE {1 - frameNo}
                /\ i # 0 => picture[i] = 1 - frameNo
    BY <1>1, <1>4 DEF CopyShape, PictureShape
  <2>3. held => frame_buf' = IF i' <= 1 THEN {} ELSE {1 - frameNo}
    <3>1. CASE i = 0
      BY <1>1, <2>2, <3>1
    <3>2. CASE i # 0
      BY <1>1, <1>4, <2>2, <3>2
    <3> QED  BY <3>1, <3>2
  <2> QED  BY <1>1, <1>2, <1>4, <2>1, <2>3 DEF CopyShape
<1>6. LoopShape' /\ ConnShape'
  BY <1>1, <1>2, <1>4 DEF LoopShape, ConnShape
<1>7. StreamTypes'
  BY <1>2, StreamsKept
<1>8. StreamShape'
  BY <1>1, <1>2 DEF StreamShape, InFirstCall
<1> QED  BY <1>3, <1>5, <1>6, <1>7, <1>8

LEMMA EndCopyStep ==
    ASSUME BroadcastInv, EndCopy
    PROVE  BroadcastInv'
<1> USE DEF BroadcastInv
<1>1. /\ pc = "copy" /\ i = FRAME_SIZE /\ pc' = "send" /\ i' = 0
      /\ UNCHANGED <<tpcb, frame_buf, held, loopVars, connVars, pictureVars>>
  BY DEF EndCopy
<1>2. UNCHANGED <<conn, stream, holed, pbufs, tmrFlag, serving, started, suspicious, frameNo>>
  BY <1>1 DEF loopVars, connVars, pictureVars
<1>3. PictureShape'
  BY <1>1, PictureKept
<1>4. CopyShape'
  BY <1>1, <1>2, FrameSizeAssumption DEF CopyShape
<1>5. LoopShape'
  BY <1>1, <1>2, BroadcastAssumption DEF LoopShape, Steps
<1>6. ConnShape'
  BY <1>1, <1>2 DEF ConnShape
<1>7. StreamTypes'
  BY <1>2, StreamsKept
<1>8. tpcb \in Client /\ conn[tpcb].state # "none" /\ conn[tpcb].room \in 0 .. SND_BUF
  BY <1>1 DEF ConnShape, Connection
<1>9. StreamShape'
  <2>1. ASSUME NEW c \in Watched \ holed, Len(stream[c]) < CLIENT_CHUNKS
        PROVE  Len(stream[c]) = 0 /\ (conn[c].state # "none" => conn[c].room = SND_BUF)
    BY <1>1, <2>1 DEF StreamShape, InFirstCall
  <2>2. tpcb \in Watched \ holed /\ Len(stream[tpcb]) < CLIENT_CHUNKS => conn[tpcb].room + 0 = SND_BUF
    BY <1>8, <2>1
  <2> QED  BY <1>1, <1>2, <2>1, <2>2 DEF StreamShape, InFirstCall
<1> QED  BY <1>3, <1>4, <1>5, <1>6, <1>7, <1>9

LEMMA ReturnStep ==
    ASSUME BroadcastInv, RecvReturns
    PROVE  BroadcastInv'
<1> USE DEF BroadcastInv
<1>1. /\ pc = "send" /\ i = CHUNKS /\ pc' = "fast" /\ i' = 0 /\ tpcb' = NULL
      /\ frame_buf' = {} /\ held' = FALSE /\ UNCHANGED <<loopVars, connVars, pictureVars>>
  BY DEF RecvReturns
<1>2. UNCHANGED <<conn, stream, holed, pbufs, tmrFlag, serving, started>>
  BY <1>1 DEF loopVars, connVars
<1>3. PictureShape'
  BY <1>1, PictureKept
<1>4. CopyShape'
  BY <1>1 DEF CopyShape
<1>5. LoopShape' /\ ConnShape'
  BY <1>1, <1>2 DEF LoopShape, ConnShape, Steps
<1>6. StreamTypes'
  BY <1>2, StreamsKept
\* The client's picture has been given by then: it is not longer than a call.
<1>7. \A c \in Watched \ holed : InFirstCall(c) => ~(Len(stream[c]) < CLIENT_CHUNKS)
  BY <1>1, BroadcastAssumption DEF StreamShape
<1>8. StreamShape'
  BY <1>1, <1>2, <1>7 DEF StreamShape, InFirstCall
<1> QED  BY <1>3, <1>4, <1>5, <1>6, <1>8
-----------------------------------------------------------------------------
\* One piece appended to one stream.
LEMMA PieceAppended ==
    ASSUME StreamTypes, NEW c \in Client, i \in Nat,
           stream' = [stream EXCEPT ![c] = Append(@, i)]
    PROVE  /\ stream' \in [Client -> Seq(Nat)]
           /\ Len(stream'[c]) = Len(stream[c]) + 1
           /\ \A k \in 1 .. Len(stream[c]) : stream'[c][k] = stream[c][k]
           /\ stream'[c][Len(stream[c]) + 1] = i
           /\ \A d \in Client \ {c} : stream'[d] = stream[d]
<1>1. stream \in [Client -> Seq(Nat)] /\ stream[c] \in Seq(Nat)
  BY DEF StreamTypes
<1>2. stream'[c] = Append(stream[c], i) /\ \A d \in Client \ {c} : stream'[d] = stream[d]
  BY <1>1
<1>3. Append(stream[c], i) \in Seq(Nat)
  BY <1>1
<1>4. stream' \in [Client -> Seq(Nat)]
  BY <1>1, <1>3
<1> QED  BY <1>1, <1>2, <1>4

\* What every branch of SendChunk leaves alone.
LEMMA SendKeeps ==
    ASSUME BroadcastInv, SendChunk
    PROVE  /\ PictureShape' /\ CopyShape' /\ LoopShape'
           /\ pc = "send" /\ i \in Nat /\ i < CHUNKS /\ i' = i + 1 /\ pc' = pc
           /\ tpcb' = tpcb /\ tpcb \in Client /\ conn[tpcb].state # "none"
           /\ conn[tpcb].room \in 0 .. SND_BUF
<1> USE DEF BroadcastInv
<1>1. /\ pc = "send" /\ i < CHUNKS /\ i' = i + 1 /\ pc' = pc /\ tpcb' = tpcb
      /\ UNCHANGED <<pbufs, frame_buf, held, loopVars, pictureVars>>
  BY DEF SendChunk
<1>2. UNCHANGED <<tmrFlag, serving, started, suspicious, frameNo>>
  BY <1>1 DEF loopVars, pictureVars
<1>3. PictureShape'
  BY <1>1, PictureKept
<1>4. CopyShape'
  BY <1>1, <1>2 DEF CopyShape
<1>5. LoopShape' /\ i \in Nat
  BY <1>1, <1>2, BroadcastAssumption DEF LoopShape
<1>6. tpcb \in Client /\ conn[tpcb].state # "none" /\ conn[tpcb].room \in 0 .. SND_BUF
  BY <1>1 DEF ConnShape, Connection
<1> QED  BY <1>1, <1>3, <1>4, <1>5, <1>6

\* Pieces are given in order, and in the first call for a connection there is
\* room for every one.
LEMMA SendStep ==
    ASSUME BroadcastInv, SendChunk
    PROVE  BroadcastInv'
<1> USE DEF BroadcastInv
<1>1. /\ PictureShape' /\ CopyShape' /\ LoopShape'
      /\ pc = "send" /\ i \in Nat /\ i < CHUNKS /\ i' = i + 1 /\ pc' = pc
      /\ tpcb' = tpcb /\ tpcb \in Client /\ conn[tpcb].state # "none"
      /\ conn[tpcb].room \in 0 .. SND_BUF
  BY SendKeeps
<1>2. CASE conn[tpcb].room > 0 /\ conn' = [conn EXCEPT ![tpcb].room = @ - 1] /\ Give(i)
           /\ holed' = holed
  <2>1. conn[tpcb].room - 1 \in 0 .. SND_BUF
    BY <1>1, <1>2, BroadcastAssumption
  <2>2. conn' = [conn EXCEPT ![tpcb].room = conn[tpcb].room - 1]
    BY <1>2
  <2>3. /\ conn' \in [Client -> Connection]
        /\ conn'[tpcb].room = conn[tpcb].room - 1 /\ conn'[tpcb].state = conn[tpcb].state
        /\ \A d \in Client \ {tpcb} : conn'[d] = conn[d]
    BY <1>1, <2>1, <2>2, RoomChanges DEF ConnShape
  <2>4. ConnShape'
    BY <1>1, <1>2, <2>3 DEF ConnShape
  <2>5. CASE tpcb \in Watched /\ Len(stream[tpcb]) < CLIENT_CHUNKS
    <3>1. stream' = [stream EXCEPT ![tpcb] = Append(@, i)]
      BY <1>2, <2>5 DEF Give
    <3>2. /\ stream' \in [Client -> Seq(Nat)]
          /\ Len(stream'[tpcb]) = Len(stream[tpcb]) + 1
          /\ \A k \in 1 .. Len(stream[tpcb]) : stream'[tpcb][k] = stream[tpcb][k]
          /\ stream'[tpcb][Len(stream[tpcb]) + 1] = i
          /\ \A d \in Client \ {tpcb} : stream'[d] = stream[d]
      BY <1>1, <3>1, PieceAppended
    <3>3. Len(stream[tpcb]) \in Nat /\ CLIENT_CHUNKS \in Nat
      BY <1>1, BroadcastAssumption DEF StreamTypes
    <3>4. StreamTypes'
      <4>1. ASSUME NEW d \in Client
            PROVE  Len(stream'[d]) <= CLIENT_CHUNKS
        <5>1. CASE d = tpcb
          BY <2>5, <3>2, <3>3, <5>1
        <5>2. CASE d # tpcb
          BY <3>2, <5>2 DEF StreamTypes
        <5> QED  BY <5>1, <5>2
      <4> QED  BY <3>2, <4>1 DEF StreamTypes
    <3>5. ASSUME tpcb \notin holed
          PROVE  /\ Len(stream[tpcb]) = i /\ conn[tpcb].room + i = SND_BUF
                 /\ \A k \in 1 .. Len(stream[tpcb]) : stream[tpcb][k] = k - 1
      BY <1>1, <2>5, <3>5 DEF StreamShape, InFirstCall
    <3>6. ASSUME tpcb \notin holed
          PROVE  /\ Len(stream'[tpcb]) = i' /\ conn'[tpcb].room + i' = SND_BUF
                 /\ \A k \in 1 .. Len(stream'[tpcb]) : stream'[tpcb][k] = k - 1
      <4>1. Len(stream'[tpcb]) = i + 1 /\ stream'[tpcb][i + 1] = i
        BY <3>2, <3>5, <3>6
      <4>2. \A k \in 1 .. i + 1 : k \in 1 .. i \/ k = i + 1
        BY <1>1
      <4>3. \A k \in 1 .. i : stream'[tpcb][k] = k - 1
        BY <3>2, <3>5, <3>6
      <4>4. i = (i + 1) - 1 /\ conn'[tpcb].room + i' = SND_BUF
        <5>1. conn[tpcb].room + i = SND_BUF /\ conn'[tpcb].room = conn[tpcb].room - 1
              /\ conn[tpcb].room \in Int /\ i \in Int
          BY <1>1, <2>3, <3>5, <3>6, BroadcastAssumption
        <5> QED  BY <1>1, <5>1
      <4> QED  BY <1>1, <4>1, <4>2, <4>3, <4>4
    <3>7. StreamShape'
      <4>1. ASSUME NEW c \in Watched \ holed, c # tpcb
            PROVE  c \in Client /\ stream'[c] = stream[c] /\ conn'[c] = conn[c]
        BY <2>3, <3>2, <4>1, BroadcastAssumption
      <4>2. \A c \in Watched \ holed : InFirstCall(c)' <=> c = tpcb
        BY <1>1 DEF InFirstCall
      <4>3. \A c \in Watched \ holed : InFirstCall(c) <=> c = tpcb
        BY <1>1 DEF InFirstCall
      <4> QED  BY <1>2, <3>6, <4>1, <4>2, <4>3 DEF StreamShape
    <3> QED  BY <1>1, <2>4, <3>4, <3>7
  <2>6. CASE ~(tpcb \in Watched /\ Len(stream[tpcb]) < CLIENT_CHUNKS)
    <3>1. stream' = stream
      BY <1>2, <2>6 DEF Give
    <3>2. StreamTypes'
      BY <3>1, StreamsKept
    <3>3. StreamShape'
      BY <1>1, <1>2, <2>3, <2>6, <3>1, BroadcastAssumption DEF StreamShape, InFirstCall
    <3> QED  BY <1>1, <2>4, <3>2, <3>3
  <2> QED  BY <2>5, <2>6
\* No room: then this is not the first call.
<1>3. CASE conn[tpcb].room = 0 /\ UNCHANGED <<conn, stream, holed>>
  <2>1. ConnShape' /\ StreamTypes'
    BY <1>1, <1>3, StreamsKept DEF ConnShape
  <2>2. ASSUME tpcb \in Watched \ holed
        PROVE  ~(Len(stream[tpcb]) < CLIENT_CHUNKS)
    BY <1>1, <1>3, <2>2, BroadcastAssumption DEF StreamShape, InFirstCall
  <2>3. StreamShape'
    BY <1>1, <1>3, <2>2 DEF StreamShape, InFirstCall
  <2> QED  BY <1>1, <2>1, <2>3
\* No memory: this connection is set apart.
<1>4. CASE holed' = holed \cup ({tpcb} \cap Watched) /\ UNCHANGED <<conn, stream>>
  <2>1. ConnShape' /\ StreamTypes'
    BY <1>1, <1>4, StreamsKept DEF ConnShape
  <2>2. StreamShape'
    BY <1>1, <1>4 DEF StreamShape, InFirstCall
  <2> QED  BY <1>1, <2>1, <2>2
<1> QED
  BY <1>2, <1>3, <1>4 DEF SendChunk
-----------------------------------------------------------------------------
LEMMA MainStep ==
    ASSUME BroadcastInv, Main
    PROVE  BroadcastInv'
<1>1. LoopShape
  BY DEF BroadcastInv
<1> USE DEF LoopShape, Steps, loopVars
<1>2. CASE start_application
  BY <1>1, <1>2, LoopStep DEF start_application
<1>3. CASE start_object_detection
  BY <1>1, <1>3, LoopStep DEF start_object_detection
<1>4. CASE CheckTimer("fast", "slow") \/ ClearFlag("fast", "slow")
  BY <1>1, <1>4, LoopStep DEF CheckTimer, ClearFlag, Clearing
<1>5. CASE CheckTimer("slow", "input") \/ ClearFlag("slow", "input")
  BY <1>1, <1>5, LoopStep DEF CheckTimer, ClearFlag, Clearing
<1>6. CASE NoPacket
  BY <1>1, <1>6, LoopStep DEF NoPacket
<1> QED
  BY <1>2, <1>3, <1>4, <1>5, <1>6, CopyPixelStep, EndCopyStep, SendStep, ReturnStep DEF Main

\* Between calls a stream is empty, and stays so, or it is the client's picture.
LEMMA PacketStep ==
    ASSUME BroadcastInv, NEW c \in Client, pc = "input", pc' = "fast",
           UNCHANGED <<pbufs, loopVars, copyVars, pictureVars>>,
           conn' \in [Client -> Connection], stream' \in [Client -> Seq(Nat)],
           holed' \subseteq holed, holed \ holed' \subseteq {c},
           \A d \in Client \ {c} : conn'[d] = conn[d] /\ stream'[d] = stream[d],
           \/ /\ Len(stream'[c]) = 0 /\ conn'[c].state = "none"
           \/ /\ stream'[c] = stream[c] /\ holed' = holed
              /\ \/ conn[c].state = "none" /\ conn'[c].room = SND_BUF
                 \/ conn[c].state # "none" /\ conn[c].room < SND_BUF
    PROVE  BroadcastInv'
<1> USE DEF BroadcastInv
<1>1. UNCHANGED <<tmrFlag, serving, started, tpcb, i, frame_buf, held, suspicious, frameNo>>
  BY DEF loopVars, copyVars, pictureVars
<1>2. PictureShape'
  BY PictureKept
<1>3. CopyShape'
  BY <1>1 DEF CopyShape
<1>4. LoopShape' /\ ConnShape'
  BY <1>1 DEF LoopShape, ConnShape, Steps
<1>5. CLIENT_CHUNKS \in Nat
  BY BroadcastAssumption
<1>6. ASSUME NEW d \in Client
      PROVE  Len(stream'[d]) <= CLIENT_CHUNKS
  <2>1. CASE d = c
    BY <1>5, <2>1 DEF StreamTypes
  <2>2. CASE d # c
    BY <2>2 DEF StreamTypes
  <2> QED  BY <2>1, <2>2
<1>7. StreamTypes'
  BY <1>6 DEF StreamTypes
<1>8. ASSUME NEW d \in Watched \ holed'
      PROVE  /\ \A k \in 1 .. Len(stream'[d]) : stream'[d][k] = k - 1
             /\ Len(stream'[d]) < CLIENT_CHUNKS =>
                  Len(stream'[d]) = 0 /\ (conn'[d].state # "none" => conn'[d].room = SND_BUF)
  <2>1. d \in Client
    BY BroadcastAssumption
  <2>2. CASE d = c /\ Len(stream'[c]) = 0 /\ conn'[c].state = "none"
    BY <2>2
  <2>3. CASE d = c /\ ~(Len(stream'[c]) = 0 /\ conn'[c].state = "none")
    <3>1. stream'[c] = stream[c] /\ d \in Watched \ holed
          /\ \/ conn[c].state = "none" /\ conn'[c].room = SND_BUF
             \/ conn[c].state # "none" /\ conn[c].room < SND_BUF
      BY <1>8, <2>3
    <3>2. c \in Watched \ holed /\ ~InFirstCall(c)
      BY <2>3, <3>1 DEF InFirstCall
    <3>3. /\ \A k \in 1 .. Len(stream[c]) : stream[c][k] = k - 1
          /\ Len(stream[c]) < CLIENT_CHUNKS =>
               Len(stream[c]) = 0 /\ (conn[c].state # "none" => conn[c].room = SND_BUF)
      BY <3>2 DEF StreamShape
    <3>4. conn[c].room \in 0 .. SND_BUF /\ SND_BUF \in Nat
      <4>1. conn[c] \in Connection
        BY DEF ConnShape
      <4> QED  BY <4>1, BroadcastAssumption DEF Connection
    <3> QED  BY <2>3, <3>1, <3>3, <3>4
  <2>4. CASE d # c
    BY <1>8, <2>1, <2>4 DEF StreamShape, InFirstCall
  <2> QED  BY <2>2, <2>3, <2>4
<1>9. \A d \in Watched : ~InFirstCall(d)'
  BY DEF InFirstCall
<1>10. StreamShape'
  BY <1>8, <1>9 DEF StreamShape
<1> QED  BY <1>2, <1>3, <1>4, <1>7, <1>10

LEMMA PacketsKeepInv ==
    ASSUME BroadcastInv, NEW c \in Client,
           \/ accept_callback(c) \/ DataArrives(c) \/ FinArrives(c)
           \/ AckArrives(c) \/ ResetArrives(c)
    PROVE  BroadcastInv'
<1> USE BroadcastAssumption
<1>1. /\ conn \in [Client -> Connection] /\ stream \in [Client -> Seq(Nat)]
      /\ conn[c] \in Connection /\ conn[c].room \in 0 .. SND_BUF
  BY DEF BroadcastInv, ConnShape, StreamTypes, Connection
<1>2. CASE accept_callback(c)
  <2>1. conn' = [conn EXCEPT ![c] = [state |-> "open", room |-> SND_BUF]]
    BY <1>2 DEF accept_callback
  <2>2. [state |-> "open", room |-> SND_BUF] \in Connection
    BY DEF Connection
  <2>3. conn' \in [Client -> Connection] /\ conn'[c].room = SND_BUF
        /\ \A d \in Client \ {c} : conn'[d] = conn[d]
    BY <1>1, <2>1, <2>2
  <2> QED  BY <1>1, <1>2, <2>3, PacketStep DEF accept_callback
<1>3. CASE DataArrives(c)
  BY <1>1, <1>3, BeginRecvStep DEF DataArrives
<1>4. CASE FinArrives(c)
  <2>1. conn' = [conn EXCEPT ![c].state = "closed by peer"]
    BY <1>4 DEF FinArrives
  <2>2. conn' \in [Client -> Connection]
    BY <1>1, <2>1 DEF Connection
  <2>3. /\ conn'[c].state = "closed by peer" /\ conn'[c].room = conn[c].room
        /\ \A d \in Client \ {c} : conn'[d] = conn[d]
    BY <1>1, <2>1 DEF Connection
  <2>4. conn[c].state = "open" /\ pc = "input" /\ BeginRecv(c, 0)
    BY <1>4 DEF FinArrives
  <2>5. \A d \in Client : /\ conn'[d].room = conn[d].room
                          /\ conn[d].state = "none" => conn'[d].state = "none"
    BY <2>3, <2>4
  <2> QED  BY <2>2, <2>3, <2>4, <2>5, BeginRecvStep
<1>5. CASE AckArrives(c)
  <2>1. /\ conn' = [conn EXCEPT ![c].room = conn[c].room + 1] /\ conn[c].room < SND_BUF
        /\ conn[c].state # "none" /\ pc = "input" /\ pc' = "fast"
        /\ UNCHANGED <<stream, holed, pbufs, loopVars, copyVars, pictureVars>>
    BY <1>5 DEF AckArrives
  <2>2. conn[c].room + 1 \in 0 .. SND_BUF
    BY <1>1, <2>1
  <2>3. conn' \in [Client -> Connection] /\ \A d \in Client \ {c} : conn'[d] = conn[d]
    BY <1>1, <2>1, <2>2, RoomChanges
  <2> QED  BY <1>1, <2>1, <2>3, PacketStep
<1>6. CASE ResetArrives(c)
  <2>1. /\ conn' = [conn EXCEPT ![c] = [state |-> "none", room |-> 0]]
        /\ stream' = [stream EXCEPT ![c] = <<>>] /\ holed' = holed \ {c}
        /\ pc = "input" /\ pc' = "fast"
        /\ UNCHANGED <<pbufs, loopVars, copyVars, pictureVars>>
    BY <1>6 DEF ResetArrives
  <2>2. [state |-> "none", room |-> 0] \in Connection
    BY DEF Connection
  <2>3. /\ conn' \in [Client -> Connection] /\ conn'[c].state = "none"
        /\ \A d \in Client \ {c} : conn'[d] = conn[d]
    BY <1>1, <2>1, <2>2
  <2>4. /\ stream' \in [Client -> Seq(Nat)] /\ Len(stream'[c]) = 0
        /\ \A d \in Client \ {c} : stream'[d] = stream[d]
    BY <1>1, <2>1
  <2> QED  BY <2>1, <2>3, <2>4, PacketStep
<1> QED
  BY <1>2, <1>3, <1>4, <1>5, <1>6

LEMMA InterruptStep ==
    ASSUME BroadcastInv, NEW t \in {"fast", "slow"}, TimerInterrupt(t) \/ UNCHANGED broadcastVars
    PROVE  BroadcastInv'
<1> USE DEF BroadcastInv
<1>1. /\ tmrFlag' = tmrFlag \/ tmrFlag' = tmrFlag \cup {t}
      /\ UNCHANGED <<pc, serving, started, conn, stream, holed, pbufs, tpcb, i, frame_buf, held>>
      /\ UNCHANGED pictureVars
  BY DEF TimerInterrupt, broadcastVars, loopVars, connVars, copyVars
<1>2. PictureShape'
  BY <1>1, PictureKept
<1>3. CopyShape'
  BY <1>1 DEF CopyShape, pictureVars
<1>4. LoopShape' /\ ConnShape'
  BY <1>1 DEF LoopShape, ConnShape
<1>5. StreamTypes'
  BY <1>1, StreamsKept
<1>6. StreamShape'
  BY <1>1 DEF StreamShape, InFirstCall
<1> QED  BY <1>2, <1>3, <1>4, <1>5, <1>6

LEMMA BroadcastInvariant == BroadcastSpec => []BroadcastInv
<1>1. BroadcastInv /\ [BroadcastNext]_broadcastVars => BroadcastInv'
  BY MainStep, PacketsKeepInv, DetectionStep, InterruptStep DEF BroadcastNext, Packets
<1> QED
  BY <1>1, InitialShape, PTL DEF BroadcastSpec

-----------------------------------------------------------------------------
\* The types, for every number of clients: the send buffer never has less than
\* no room or more than its size, and the callback's client is one.
THEOREM BroadcastTypeCorrect == BroadcastSpec => []BroadcastTypeOK
<1>1. BroadcastInv => BroadcastTypeOK
  <2> SUFFICES ASSUME BroadcastInv
               PROVE  BroadcastTypeOK
    OBVIOUS
  <2>1. {serving, started, held} \subseteq BOOLEAN
    BY DEF BroadcastInv, LoopShape, CopyShape
  <2> QED
    BY <2>1 DEF BroadcastInv, BroadcastTypeOK, LoopShape, CopyShape, ConnShape, StreamTypes, Steps
<1> QED
  BY <1>1, BroadcastInvariant, PTL

\* What a client makes its picture of is the whole picture, and nothing of what
\* is sent from beyond the buffer, for every size of picture, piece and buffer
\* in which a new connection has room for one call (CHUNKS <= SND_BUF).
THEOREM PicturesAreWhole == BroadcastSpec => []ClientPictureIsWhole
<1>1. BroadcastInv => ClientPictureIsWhole
  <2> SUFFICES ASSUME BroadcastInv, NEW c \in Watched \ holed
               PROVE  /\ \A k \in 1 .. Len(stream[c]) : stream[c][k] = k - 1 /\ k <= WHOLE_CHUNKS
                      /\ Len(stream[c]) \in {0, CLIENT_CHUNKS} \/ (pc = "send" /\ tpcb = c)
    BY DEF ClientPictureIsWhole
  <2>1. c \in Client /\ CLIENT_CHUNKS \in Nat /\ WHOLE_CHUNKS \in Nat
        /\ CLIENT_CHUNKS <= WHOLE_CHUNKS
    BY BroadcastAssumption
  <2>2. Len(stream[c]) \in Nat /\ Len(stream[c]) <= CLIENT_CHUNKS
    BY <2>1 DEF BroadcastInv, StreamTypes
  <2>3. /\ \A k \in 1 .. Len(stream[c]) : stream[c][k] = k - 1
        /\ Len(stream[c]) < CLIENT_CHUNKS /\ ~InFirstCall(c) => Len(stream[c]) = 0
    BY DEF BroadcastInv, StreamShape
  <2> QED  BY <2>1, <2>2, <2>3 DEF InFirstCall
<1> QED
  BY <1>1, BroadcastInvariant, PTL

\* A copy made while an alarm holds the picture is of one frame.
THEOREM HeldCopiesAreOneFrame == BroadcastSpec => []HeldCopyIsOneFrame
<1>1. BroadcastInv => HeldCopyIsOneFrame
  BY FS_Singleton DEF BroadcastInv, CopyShape, HeldCopyIsOneFrame
<1> QED
  BY <1>1, BroadcastInvariant, PTL
=============================================================================
