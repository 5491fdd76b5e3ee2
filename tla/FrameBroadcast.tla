--------------------------- MODULE FrameBroadcast ---------------------------
(***************************************************************************)
(* The frame broadcast server: main.c, whose endless loop runs the timers    *)
(* of the TCP stack and takes packets in, and send.c, whose receive callback *)
(* answers every packet of a client with the picture.                        *)
(*                                                                         *)
(* A connection is seen through the calls the callbacks make: its send       *)
(* buffer, and the stream that was put into it (TcpPcb has the life of its   *)
(* control block).  The timer interrupt, the stack's input and the clients   *)
(* are under "Environment".                                                  *)
(***************************************************************************)
EXTENDS PictureMemory, Sequences, FiniteSets

CONSTANTS
    Client,
    Watched,          \* clients whose pictures are followed
    CHUNKS,           \* pieces of 10000 bytes in 200000
    WHOLE_CHUNKS,     \* pieces that lie wholly in frame_buf
    SND_BUF,          \* room of a new connection, 262144 bytes, in such pieces
    CLIENT_CHUNKS,    \* pieces the client makes its picture of
    PBUFS,            \* receive buffers of the stack
    NULL

ASSUME BroadcastAssumption ==
    /\ Watched \subseteq Client
    /\ {CHUNKS, SND_BUF, PBUFS} \subseteq Nat /\ NULL \notin Client
    /\ CLIENT_CHUNKS \in 0 .. WHOLE_CHUNKS /\ WHOLE_CHUNKS \in 0 .. CHUNKS
    /\ CHUNKS <= SND_BUF

VARIABLES
    pc,         \* where main is: a step of its loop, or of the receive callback
    tmrFlag,    \* TcpFastTmrFlag and TcpSlowTmrFlag
    serving,    \* the listening block was set up
    started,    \* the detection was started
    conn,       \* the connections: state and free room of the send buffer
    stream,     \* what a connection was given to send, as far as its client reads
    holed,      \* connections on which tcp_write had no memory
    tpcb, i,    \* the callback's connection and loop counter
    frame_buf,  \* the frames the pixels copied in this call are of, the first apart
    held,       \* history: there has been an alarm since the copy began
    pbufs       \* receive buffers left

loopVars == <<tmrFlag, serving, started>>
connVars == <<conn, stream, holed, pbufs>>
copyVars == <<tpcb, i, frame_buf, held>>
broadcastVars == <<pc, loopVars, connVars, copyVars, pictureVars>>

BroadcastInit ==
    /\ PictureInit
    /\ pc = "start" /\ tmrFlag = {} /\ serving = FALSE /\ started = FALSE
    /\ conn = [c \in Client |-> [state |-> "none", room |-> 0]]
    /\ stream = [c \in Client |-> <<>>] /\ holed = {} /\ pbufs = PBUFS
    /\ tpcb = NULL /\ i = 0
    /\ frame_buf = {} /\ held = FALSE

-----------------------------------------------------------------------------
(* main                                                                     *)

\* main does not look at what start_application returns.
start_application ==
    /\ pc = "start" /\ pc' = "configure"
    /\ serving' \in BOOLEAN
    /\ UNCHANGED <<tmrFlag, started, connVars, copyVars, pictureVars>>

start_object_detection ==
    /\ pc = "configure" /\ pc' = "fast"
    /\ started' = TRUE
    /\ UNCHANGED <<tmrFlag, serving, connVars, copyVars, pictureVars>>

Clearing(t) == IF t = "fast" THEN "fast_clear" ELSE "slow_clear"

\* A flag that is up runs its timer.
CheckTimer(t, next) ==
    /\ pc = t
    /\ pc' = IF t \in tmrFlag THEN Clearing(t) ELSE next
    /\ UNCHANGED <<loopVars, connVars, copyVars, pictureVars>>

\* The flag is taken down after the timer has run, with what came meanwhile.
ClearFlag(t, next) ==
    /\ pc = Clearing(t) /\ pc' = next
    /\ tmrFlag' = tmrFlag \ {t}
    /\ UNCHANGED <<serving, started, connVars, copyVars, pictureVars>>

\* xemacif_input without a packet; transfer_data does nothing.
NoPacket ==
    /\ pc = "input" /\ pc' = "fast"
    /\ UNCHANGED <<loopVars, connVars, copyVars, pictureVars>>

-----------------------------------------------------------------------------
(* recv_callback and accept_callback                                        *)

accept_callback(c) ==
    /\ pc = "input" /\ pc' = "fast"
    /\ serving /\ conn[c].state = "none"
    /\ conn' = [conn EXCEPT ![c] = [state |-> "open", room |-> SND_BUF]]
    /\ UNCHANGED <<stream, holed, pbufs, loopVars, copyVars, pictureVars>>

\* Begins the copy of the picture; buf = 1 for data, whose buffer is never
\* freed, and 0 for the end of the peer's data, which is answered like data.
BeginRecv(c, buf) ==
    /\ pc' = "copy" /\ tpcb' = c /\ i' = 0
    /\ held' = suspicious
    /\ pbufs >= buf /\ pbufs' = pbufs - buf
    /\ UNCHANGED <<stream, holed, frame_buf, loopVars, pictureVars>>

CopyPixel ==
    /\ pc = "copy" /\ i < FRAME_SIZE
    /\ frame_buf' = frame_buf \cup (IF i = 0 THEN {} ELSE {picture[i]})
    /\ i' = i + 1
    /\ UNCHANGED <<pc, tpcb, held, loopVars, connVars, pictureVars>>
EndCopy ==
    /\ pc = "copy" /\ i = FRAME_SIZE
    /\ pc' = "send" /\ i' = 0
    /\ UNCHANGED <<tpcb, frame_buf, held, loopVars, connVars, pictureVars>>

\* A piece beyond the buffer is sent like any other.
Give(k) ==
    stream' = IF tpcb \in Watched /\ Len(stream[tpcb]) < CLIENT_CHUNKS
              THEN [stream EXCEPT ![tpcb] = Append(@, k)] ELSE stream

\* faulty: the counter moves on before the piece is sent
SendChunk_ahead ==
    /\ pc = "send" /\ i < CHUNKS
    /\ i' = i + 1
    /\ IF conn[tpcb].room > 0
       THEN /\ conn' = [conn EXCEPT ![tpcb].room = @ - 1]
            /\ Give(i')
            /\ UNCHANGED holed
       ELSE UNCHANGED <<conn, stream, holed>>
    /\ UNCHANGED <<pc, pbufs, tpcb, frame_buf, held, loopVars, pictureVars>>

\* faulty: room is waited for
SendChunk_waits ==
    /\ pc = "send" /\ i < CHUNKS
    /\ conn[tpcb].room > 0
    /\ i' = i + 1
    /\ conn' = [conn EXCEPT ![tpcb].room = @ - 1]
    /\ Give(i)
    /\ UNCHANGED <<holed, pc, pbufs, tpcb, frame_buf, held, loopVars, pictureVars>>

\* faulty: the room is not looked at
SendChunk_unchecked ==
    /\ pc = "send" /\ i < CHUNKS
    /\ i' = i + 1
    /\ conn' = [conn EXCEPT ![tpcb].room = @ - 1]
    /\ Give(i)
    /\ UNCHANGED <<holed, pc, pbufs, tpcb, frame_buf, held, loopVars, pictureVars>>

\* A piece there is no room for, or no memory, is counted as sent.
SendChunk ==
    /\ pc = "send" /\ i < CHUNKS
    /\ i' = i + 1
    /\ \/ /\ conn[tpcb].room > 0
          /\ conn' = [conn EXCEPT ![tpcb].room = @ - 1]
          /\ Give(i)
          /\ UNCHANGED holed
       \/ conn[tpcb].room = 0 /\ UNCHANGED <<conn, stream, holed>>
       \/ /\ conn[tpcb].room > 0 /\ holed' = holed \cup ({tpcb} \cap Watched)
          /\ UNCHANGED <<conn, stream>>
    /\ UNCHANGED <<pc, pbufs, tpcb, frame_buf, held, loopVars, pictureVars>>
RecvReturns ==
    /\ pc = "send" /\ i = CHUNKS
    /\ pc' = "fast" /\ i' = 0 /\ tpcb' = NULL
    /\ frame_buf' = {} /\ held' = FALSE
    /\ UNCHANGED <<loopVars, connVars, pictureVars>>

Main ==
    \/ start_application \/ start_object_detection
    \/ CheckTimer("fast", "slow") \/ ClearFlag("fast", "slow")
    \/ CheckTimer("slow", "input") \/ ClearFlag("slow", "input")
    \/ NoPacket
    \/ CopyPixel \/ EndCopy \/ SendChunk \/ RecvReturns

-----------------------------------------------------------------------------
(* Environment                                                              *)

\* The timer interrupt, and the detection and its picture memory, at any time.
TimerInterrupt(t) ==
    /\ tmrFlag' = tmrFlag \cup {t}
    /\ UNCHANGED <<pc, serving, started, connVars, copyVars, pictureVars>>
Detection ==
    /\ StorePixel \/ (started /\ AlarmChanges)
    /\ held' = (held /\ suspicious')
    /\ UNCHANGED <<pc, loopVars, connVars, tpcb, i, frame_buf>>

\* Packets: data of a client, the end of its data, the acknowledgement of a
\* piece, and a reset, which it also answers with when it has closed.
DataArrives(c) ==
    /\ pc = "input" /\ conn[c].state = "open"
    /\ BeginRecv(c, 1) /\ UNCHANGED conn
FinArrives(c) ==
    /\ pc = "input" /\ conn[c].state = "open"
    /\ BeginRecv(c, 0)
    /\ conn' = [conn EXCEPT ![c].state = "closed by peer"]
AckArrives(c) ==
    /\ pc = "input" /\ pc' = "fast"
    /\ conn[c].state \in {"open", "closed by peer"} /\ conn[c].room < SND_BUF
    /\ conn' = [conn EXCEPT ![c].room = @ + 1]
    /\ UNCHANGED <<stream, holed, pbufs, loopVars, copyVars, pictureVars>>
ResetArrives(c) ==
    /\ pc = "input" /\ pc' = "fast"
    /\ conn[c].state \in {"open", "closed by peer"}
    /\ conn' = [conn EXCEPT ![c] = [state |-> "none", room |-> 0]]
    /\ stream' = [stream EXCEPT ![c] = <<>>] /\ holed' = holed \ {c}
    /\ UNCHANGED <<pbufs, loopVars, copyVars, pictureVars>>

Packets ==
    \E c \in Client : \/ accept_callback(c) \/ DataArrives(c) \/ FinArrives(c)
                      \/ AckArrives(c) \/ ResetArrives(c)

BroadcastNext ==
    \/ Main
    \/ Packets
    \/ Detection
    \/ \E t \in {"fast", "slow"} : TimerInterrupt(t)

BroadcastSpec == BroadcastInit /\ [][BroadcastNext]_broadcastVars

\* The processor goes on.
BroadcastLiveSpec == BroadcastSpec /\ WF_broadcastVars(Main \/ Packets)

-----------------------------------------------------------------------------
(* Properties                                                               *)

Connection == [state : {"none", "open", "closed by peer"}, room : 0 .. SND_BUF]

BroadcastTypeOK ==
    /\ pc \in {"start", "configure", "fast", "fast_clear", "slow", "slow_clear",
               "input", "copy", "send"}
    /\ tmrFlag \subseteq {"fast", "slow"} /\ {serving, started, held} \subseteq BOOLEAN
    /\ conn \in [Client -> Connection]
    /\ \A c \in Client : Len(stream[c]) <= CLIENT_CHUNKS
    /\ holed \subseteq Client /\ tpcb \in Client \cup {NULL} /\ pbufs \in 0 .. PBUFS
    /\ i \in Nat
    /\ frame_buf \subseteq {0, 1}

\* What a client makes its picture of is the picture: the pieces of one call,
\* which gives all of them or none, from the first, in order, and none from
\* beyond the buffer - whatever other clients ask for meanwhile, and although
\* every packet is answered with a picture of its own.  A connection on which
\* the stack had no memory is excepted: it gets a picture with a hole.
ClientPictureIsWhole ==
    \A c \in Watched \ holed :
        /\ \A k \in 1 .. Len(stream[c]) : stream[c][k] = k - 1 /\ k <= WHOLE_CHUNKS
        /\ Len(stream[c]) \in {0, CLIENT_CHUNKS} \/ (pc = "send" /\ tpcb = c)

\* The copy in frame_buf is of one frame if the alarm has held the picture from
\* the first pixel of the copy to the last; without an alarm it may be of two.
\* (The first pixel of a held picture is always of the frame after.)
HeldCopyIsOneFrame ==
    pc = "send" /\ held => Cardinality(frame_buf) = 1

\* A timer that is due runs, however many packets and pictures are in between:
\* the callback does not wait for what only the main loop can bring about.
TimersRun == \A t \in {"fast", "slow"} : (t \in tmrFlag) ~> (pc = Clearing(t))
=============================================================================
