# Verification of the suspicious package detector

TLA+ specifications, TLC configurations and TLAPS proofs for the suspicious package
detection system: the hardware from the camera to the alarm (`design/`), its bus to
the processor, and the two network servers with their TCP stack (`sw/`).

## The system

A camera writes frames into a buffer; a downsampler copies every n-th frame, one
pixel per clock, to the object detection; that compares it with a reference frame
learnt at the start and with the frame before, and raises an alarm when the same
difference has been there long enough. The alarm freezes a picture, which a
server on the processor reads and sends to remote clients.

```
 OV7670 --I2C-- I2C_AV_Config, I2C_Controller        I2cConfig
   |  pclk 25 MHz
 ov7670_capture -> immediate frame buffer            CameraCapture
                        |  100 MHz                   (both clocks: CameraFrames)
                 frame_downsampler                   FrameDownsampler
                   |            |
     bw threshold, |            +--> downsampled frame buffer   AlertFrameBuffer
     obj_det_control                    ^ frozen by the alarm   (to software:
       | commands       ObjDetControl   |       |                PictureMemory)
     obj_det_datapath   ObjDetDatapath  +-------+ alarm
       |  status, thresholds            |  pixel port
     obj_det_axi_slave                S00_AXI        AxiLiteSlave (both)
                \                      /
                 processor, one program or the other
      status server + WiFi library + GPS             StatusServer
      frame broadcast server                         FrameBroadcast
            | callbacks, timers
      lwIP tcp.c                                     TcpPcb
```

| part | state | operations | what is hard | what makes it correct |
|---|---|---|---|---|
| frame downsampler | `cnt`, `tdata_addr`, `tvalid`, `transfer`, `vsync_cnt`, a pixel register | begin, shift, end of a transfer; counting vsync | two latencies undone by a subtraction; a counter running past the frame | the pixel shown is the pixel at the address shown |
| detection control | `curr_state`, `init_done` | six states | counts the frame on its own, with nothing to tell it that it lost step | lockstep with the downsampler; the reference is written once |
| detection datapath | delay lines, reference and difference memories, two counters, suspicion level | shift, compare, count, judge | memories with two clocks of latency, read and overwritten at once; counters judged one frame late; memories survive a reset | the counters are those of whole frames; the level counts the frames an object stood still |
| alarm picture buffer | a frame | store a pixel unless the alarm is up | the alarm rises while a frame is being stored | the frozen picture is one frame, and it shows the object |
| AXI register files | handshake, registers | one write and one read channel | one register rewritten by the hardware; skewed write channels; answers held back | every access ends, with the right value |
| camera capture | byte pairing, address, on the camera's clock | one per `pclk` | clock crossing; end of the buffer | address and pixel belong together; never past the end |
| camera configuration | table index, transfer state | walk the table, repeat what is not acknowledged | stale flags of the transfer before | done only after the last entry was acknowledged |
| status server | `state`, `alert`, a client | one per state of `DemoRun` | alert sampled long before it is acted on; a failed connection | an answer tells of an alarm seen since the client was accepted; every accepted socket goes back to the server, and it listens again |
| frame broadcast server | timer flags, `frame_buf`, the send buffer | receive callback, timers | chunks without room; the closing peer; a lost tick | what a client receives is a picture |
| lwIP `tcp.c` | lists of control blocks | open, close, timers | lists changed while they are walked; no free block | a block is in one list, and freed once |

`PROJECT.json` lists all components, the hazards at their lines, and the lines
each definition stands for.

## Modules

* `DetectorConstants`: parameters. `FRAME_SIZE` is 76800 in the design, a constant
  here, at least 7. `Bright` is the set of pixels that turn into a 1 (`rgb444_to_gray`
  and `grayscale8_to_bw` with the current threshold), `Scenes` what the camera can see.
* `FrameDownsampler`: `frame_downsampler.v`. One step is one rising edge of the
  100 MHz clock; a wire is a state function. `frame` is the content of the immediate
  frame buffer while it is being transferred.
* `ObjDetControl`: `obj_det_control.v` and `pulse_detector.v`. The outputs of the
  state machine are a record, the command to the datapath.
* `ObjDetDatapath`: `obj_det_datapath.v`. Block memories with output registers are
  three variables each: the cells, the latch, the register.
* `SuspiciousObjectDetector`: the three on one clock (`suspicious_object_detector.v`
  and the downsampler of `ov7670_top.v`, which share clock and reset in the block
  design), writes of the suspicion threshold, the reset. `Tick` is the clock edge:
  every component reads the wires as they were before it. History variables `before`,
  `now` and `compared` give names to whole frames; no code variable depends on them.
* `StationaryObject`: what the detection promises, one step per frame: learn a
  reference, then judge each frame. `SuspiciousObjectDetector!Watcher` maps the
  hardware to it.
* `AlertFrameBuffer`: the detector with the downsampled frame buffer of `ov7670_top.v`.
* `CameraCapture`: `ov7670_capture.v` on the camera's clock, with the camera as its
  environment and the write port of the immediate frame buffer.
* `I2cConfig`: `I2C_AV_Config.v` and `I2C_Controller.v`, a step per tick of the slow clock.
* `CameraFrames`: those two with the downsampler on its own clock. A tick of the camera
  falls on every `CLOCK_RATIO`-th tick of the reader, which samples address and vsync
  while they change. `frame`, an assumption of `FrameDownsampler`, is here what the
  camera is sending when a transfer begins.
* `AxiLiteSlave`: the handshake that `obj_det_axi_slave_v1_0_S00_AXI.v` and `S00_AXI.v`
  share, with the processor as its master and resets at any time; `port` says which of
  the two it is.
* `PictureMemory`: the alarm picture as the software sees it: pixels stored in order
  unless the alarm is up, an alarm that rises and falls with the frames. An abstraction of
  `AlertFrameBuffer` by hand, one pixel a step.
* `StatusServer`: `main.cc`, one action per state of `DemoRun`, a pass of the loop each
  (the wait for the GPS is its own step). Environment: clients that connect and are lost,
  the alarm, the GPS sentences of `gps.c` in the builds that set its interrupt up. A socket of the
  server is `listening`, `pending` (connected, not accepted) or the `ptcpClient` being
  served; `connected` are those with a live connection.
* `FrameBroadcast`: `main.c` and `send.c`, the main loop with its two timer flags and the
  receive callback, pixel by pixel and piece by piece, over `PictureMemory`; packets and
  the room of the send buffer are the environment.
* `TcpPcb`: `tcp.c`. Blocks with the fields that control their life, the four lists as
  sequences, and both timers cut where an application's callback runs, so that a call
  from a callback meets the walk halfway. Segments (`tcp_in.c`) and output (`tcp_out.c`)
  are not in the repository and are modelled by their calls into `tcp.c`. `Liberties` names
  what an application may do that those of the repository do not: call the stack from a
  callback, connect long after it took a block. Two fields are history: `lost`, the blocks
  that a failed `tcp_listen` made the application forget, and `reserved`, whether a
  listener was made of a block that had been bound.
* `DetectorProofs`, `CounterProofs`, `AlertProofs` (each extends the one before),
  `CameraProofs`, `AxiProofs`, `StatusProofs`, `BroadcastProofs`, `TcpProofs`: the theorems.
* `MCDetector`, `MCAlert`, `MCCamera`, `MCAxi`, `MCStatus`, `MCBroadcast`, `MCTcp`: values for
  TLC.

Operators marked `faulty` are single faults of the kind the code could have; nothing
in the specifications uses them. Each property that holds has one that violates it.

## Runs

| run | configuration | shows |
|---|---|---|
| detector | `MCDetector.cfg` | types, lockstep, pixels and addresses, the reference, counters of whole frames, refinement of `StationaryObject` |
| detector_live | `MCDetectorLive.cfg` | a standing object raises the alarm for good; without one it ends for good |
| alert_picture | `MCAlert.cfg` | the frozen picture is whole and shows the object |
| camera | `MCCamera.cfg` | frames are stored at their addresses; a transfer reads one frame; configured means acknowledged; the camera comes up |
| axi | `MCAxi.cfg` | no answer unasked, early or stale; the pixel port keeps up with the software; every access ends, resets included |
| status | `MCStatus.cfg` | a socket is in one hand and never lost; an answer is about the alarm since the client came; clients are accepted and, but for the wait for the GPS, let go |
| broadcast | `MCBroadcast.cfg` | a client's picture has no hole; a picture copied under an alarm is one frame; the timers go on |
| tcp_pool | `MCTcp.cfg` | two connections compete for a pool of two: lists and states agree, only `tcp_listen` loses a block, no victim is beaten, ports are reserved, the slow timer knows its place |
| tcp_block | `MCTcpBlock.cfg` | one connection with data and calls from callbacks: no handle outlives its block, silent peers are freed, refused data are offered again |
| status_busy | `MCStatusBusy.cfg` | violated: the server goes back to listening |
| late_start | `MCLateStart.cfg` | violated: the reference may lack its first pixel |
| status_gps | `MCStatusGps.cfg` | violated: an answer that reports an alarm is sent |

**Bounds.** *Detector.* Frames have 7 pixels. The pipeline is two clocks deep at both
ends, the last five addresses of a frame are never scored, and 7 is the smallest frame
with two scored addresses besides the first; a longer frame only adds clocks in which
every register shifts as in the clock before. Two colours suffice, as the detection
sees one bit. The scenes are an empty place, an object, the object elsewhere and a
place lit at its edges, so that an object comes, stays, moves and goes. The alarm
picture, whose state holds three frames more, is checked with the empty place and one
object. `MAX_VSYNC_CNT = 1` makes the downsampler wait; the level reaches its threshold
of 2 within a few frames, below the bound `SUSPICION_RANGE = 4` (512 in the design). A
threshold at or beyond that range is left out of the passing runs: the code never
reaches it. `Sampled` lets an input take both values where a register depends on it in
that state; where none does, one value stands for both.

*Camera.* A frame of 12 pixels in lines of 4 has what 76800 has: its last address can be
read out of mixed bits long before it is reached (7 to 8 may read 11, as 65535 to 65536
may read 76799). `ADDRESS_RANGE = 16` lets the address counter wrap in the longer frames of
a camera not configured yet. Two patterns differ at every address, so a pixel of the
wrong frame or place shows. The reader's clock is twice the camera's, closer than in the
design (four times), where a transfer has more room. The table has 4 entries, 2 of
them reads as in the code, and 2 refusals may fall anywhere.

*Bus.* A configuration register, the sampled register, and an address of none; the
master raises the two write channels in either order, takes answers at once or late.

*Status server.* The two sockets of the code. The alarm and the sentences change between
any two steps. `status` has the receiver's interrupt (`Interrupts`): no sentence is ever owed,
so its runs include those of the MicroBlaze, which `status_gps` and `status_busy` are about.

*Broadcast server.* Two clients, so that a packet of one falls into the other's picture;
the pictures of one are followed. Three pieces, of which the client reads the two that
lie in the buffer, with room for all three in a new connection, as 200000 bytes find
262144: room runs out in the second picture. One receive buffer: it is lost with the
first packet, data still come without one when they are the closing peer's.

*TCP.* `tcp_pool` has two blocks and two priorities, the least for which a full pool has a
weaker and a stronger, and one port, which is bound by name or given out as a local one, so
that two blocks meet on it soonest; its counters are short, as the races are about lists. `tcp_block`
has one block with every field, peers that fall silent, windows, refused data, and calls
from callbacks. Ages stop at `MAX_AGE`, past every time-out; `TIMER_CTR`, 256 in the code,
marks the blocks a timer walk has visited and needs two values. Callbacks with two
blocks are left out of `tcp_pool`, see below.

**Fairness.** The detector's liveness assumes that the clock runs, that the camera's
configuration finishes and the software sets the start bit (`start_object_detection`
does so at boot in both programs), that vsync keeps pulsing, and that the camera keeps
reaching the last pixel of a frame. All five are what a powered system with a working
camera does; reset is not part of `LiveSpec`. `CameraComesUp` removes the assumptions about
the camera on its own side: there only the clocks run (weak fairness of `Tick`), the
configuration moves whenever it could go on at a vsync (strong fairness of `AtVsync`: the
reduction joins its steps there, while its clock runs on its own in the design), and refusals
are finite. On the bus the clock runs, resets or not, and the
processor raises the channels of a write it has begun and takes answers. The status
server's loop runs (weak fairness of `Pass`). That sentences come from the GPS is not
assumed: on the MicroBlaze, the only target, the set-up of its interrupt is commented out. In the
broadcast server the main loop or a packet moves. In the TCP stack a timer that has
begun goes on (weak) and each of the two timers starts again and again (strong, as
applications and packets come between), which is what the main loop does.

**Environment.** The camera finishes the frames it begins, pauses at least two clocks
after a line, and its clock, which `ov7670_top.v` sends it, keeps its phase. `CameraFrames` has
no reset. What `FrameDownsampler` assumes, that the frame under a transfer does not
change, is what `TransferReadsOneFrame` checks. The bus master does one access at a time,
as the processor of the block design does: with two reads in flight the slave would
drop one (`axi_rvalid` blocks the second). The WiFi library accepts a connection on a
listening socket and gives it up when lost; handed a null reference, it turns it down or the
program is lost. For lwIP, the options are the defaults of
the sources (no address reuse, no backlog, keepalive off); segments are
well formed; applications do not abort a block that is only bound, nor use one they were
told is gone.

## What the runs found

* *Clients that nobody accepts* (`status_busy`). After CLOSE the server looks for a socket
  to listen on; when both already hold clients that connected during the last answer, it
  waits for a free one and accepts neither, until one gives up.
* *Start at the head of a frame* (`late_start`). The machine waits for address 0 with
  the write enable high; that is true in three consecutive clocks of a transfer, and in
  the third it is too late for address 0.
* *The wait for the GPS* (`status_gps`). With an alarm the answer waits at `main.cc:386` for a
  sentence. The interrupt that announces one is set up for a Zynq only (`gps.c:67-75`), so
  that, unless the one read before the wait completes a sentence, the client gets no answer,
  and the network stack, which moves at the end of a pass, never moves again.
* *A transfer begun on mixed bits.* The address crosses the clocks without a
  synchroniser. Where half of its bits change at once a sample can read as the end of the
  frame, and the transfer then overtakes the camera. `TransferReadsOneFrame` excepts such
  transfers (`early`), and TLC shows none other is torn.

Seen while reading and modelling, without a run of its own:

* Detection. The delay line is blanked between frames, the reference output is not; the
  first pixel of the reference is compared twice with a dark pixel. `DiffScore` counts what
  the hardware does, not the ideal difference: shifted by two, the first pixel three
  times, the last five addresses not at all. With thresholds of thousands of pixels this
  is harmless. The comment at `obj_det_unit_top.v:48` says `object_detected` goes low between
  frames, but it keeps its value. `obj_det_axi_slave_v1_0_S00_AXI.v:255` gives 40 as the
  default of a threshold set to `FRAME_SIZE >> 5`. The thresholds lose a bit on their way
  (17 to 16). At address 0 the frozen picture holds neither frame's pixel for sure: in the first
  clocks of the next transfer the write enable is up with address 0, and what is stored
  there is what the read port and the pixel register still held from before. The alarm is
  raised on equality: a threshold lowered below the level reached takes it away
  (`obj_det_datapath.v:156`), although `obj_det_unit_top.v:45` calls it the "time in seconds that
  image must be stable for to be considered suspicious". The driver's
  self-test expects register 1 to read back, which the hardware overwrites.
* Status server. A failed CONNECT goes to CLOSE with no client to close, and so does an
  announced client that is gone: `*ptcpClient` is handed to the server outside the check for
  NULL (`main.cc:509-511`). That is undefined; `CloseNothing` lets the server turn it
  down or the program be lost. After a failed CONNECT the server then waits for ever.
  `saw_alert` is never read, and the copied picture is sent to nobody;
  `tmp` is printed unassigned (`main.cc:397`).
* Broadcast server. 200000 bytes are sent from a buffer of 153600. A piece without room
  is counted as sent; a failed `tcp_write` is ignored. The end of the peer's data is
  answered with a picture, its connection is never closed, and received buffers are
  never freed. The tick flag is cleared after its handler, so a tick during it is
  lost. The result of `start_application` is ignored (`main.c:202`).
* `tcp.c`. When a callback changes the list, the slow timer starts over and skips visited
  blocks without renewing `prev` (`tcp.c:813-817`); with two blocks the assertions at 954
  and 958 then fail, and the fast timer can spin on a visited block (1056-1079). The
  applications here make no such calls. `tcp_close` of a block in CLOSE_WAIT
  with data unread frees it, though the comment at 181-182 says it must not.
  `tcp_kill_prio` may find neither the oldest block nor one of least priority (1211-1212). A failed `tcp_connect` leaves
  a port that is on no list, and `tcp_listen` does not ask for a block that is bound, so a listener
  may share its port with another or with a block that is bound. `tcp_listen` without a free
  listening block answers NULL and keeps the block, though 512-515 says that it is freed
  and that the answer is to be assigned; nothing searches the list of bound blocks to free one. FIN_WAIT_1 under a zero window is never freed; LAST_ACK and FIN_WAIT_2
  time out from the last activity. The check for a block already listening is
  unreachable, `tcp_accept_null` reports an abort it does not make, and blocks in TIME_WAIT
  are freed without notice to anyone.

## What is proved

`DetectorProofs`, for every frame size of at least 7, every set of scenes, pixels and
thresholds, and every vsync count:

* `TypeCorrect`, `StaysInLockstep`: the two machines never lose each other;
* `PixelsMatchAddresses`: the pixel at the address shown is shown;
* `ReferenceIsTheFrame`: a captured reference is the frame, at addresses 1 to `FRAME_SIZE - 2`;
* `ReferenceNeverRewritten`: and stays so.

None of them is inductive. `IInv` adds what the two registers between the camera's
buffer and the detection hold in clock `cnt` of a transfer (`ReadAhead`), and which
part of the reference has been written (`ReferenceSoFar`): the pixel shown depends on
the latch a clock before, and the finished reference on all the clocks of the frame.
The proof goes by component: the downsampler keeps its shape on its own; the state
machine's next state is compared with the downsampler's next count
(`LockstepStep`); the memories follow from the commands (`ReferenceWrite`).

`CounterProofs`, under the same assumptions:

* `CountersAreOfWholeFrames`: the two counters a frame is judged by are those of the
  difference image of the whole frame;
* `DetectorIsAWatcher`: every step of the hardware is a step of `StationaryObject` or none, if
  no threshold is beyond the range of the level (`ThresholdsInRange`: the level has 9 bits, and
  where it is compared with more, nothing it reaches is equal).

`CountInv` says of every register of the pipeline which pixel it holds in clock `cnt` of a
transfer, some fixed number of clocks behind the address shown (`PixelLine`, `DiffLine`), how far
the new difference image has replaced the old one (`DiffMemory`), and that the counters
are the `Ones` of the part passed so far, the pixel at address 0 counted once for every clock
it stands at the end of the line (`CountsSoFar`). One clock adds one address to a set, so the
cardinality grows by one or not at all, and no induction over the frame is needed beyond
that of the invariant.

`AlertProofs`, with a threshold that is left alone and not zero (`ThresholdLeftAlone`; a write to
it or a zero moves the alarm to any clock): `AlarmFreezesOneFrame`, `AlarmShowsItsObject`. The
alarm changes in the second clock of a transfer only, when no pixel but that of address
0 has been stored; in any other clock the buffer is the new frame up to the address
shown and the last complete one beyond it (`BufferFollowsTransfer`).

`CameraProofs`, for every size of frame and line, every pause of at least two clocks, every
table and every number of refusals: `FramesAreStored` and `OnlyAcknowledgedEntries`, each of its
component. The first needs what every register of the pipeline holds at every place
in a frame: which bytes are latched (`PairingShape`, `LatchShape`), how far the address is
behind the pixels sent (`AddressShape`), and what has reached the buffer (`BufferShape`). The
second needs that an acknowledgement still up belongs to the transfer of this entry
(`WireShape`, `AckShape`). `CameraTypesCorrect` are the types of all three parts.

`TransfersReadOneFrame` is about the two clocks together. A transfer that no false sample
began is `Finishing`, when the buffer lacks at most the last pixel of the frame and the reader is
far from it, or `Ahead`, when the camera has gone on to the next frame and the reader is
past every address it has overwritten. `ReaderKeepsBehind` is what the step from one to the
other needs: lines of two pixels or more, so that the last pixel comes without a
pause, and a frame of more than two pixels for each clock of the reader in one of the
camera. The design has lines of 320, four clocks to one, and 76800 pixels.

`AxiProofs`, for every set of registers and values: `AxiTypeCorrect`, `ResponsesAreOwed`,
`ReadsAnswerCurrentValues`, `PixelsAreAtTheirAddress`. `AxiInv` ties the slave's registers to
where the master is in its access (`WriteChannel`, `ReadChannel`), and says when the sampled
register is behind what it samples (`RegistersCurrent`, `WriteUnderWay`, `StatusUnderWay`).

`StatusProofs`, for every set of sockets: `StatusTypeCorrect`, `SocketsInOneHand`,
`NoSocketIsLost`, `AnswersAreAboutNow`. The invariant follows the sample from the top of the
pass to the answer: it was taken after the client was accepted (`SinceAccepted`), as no
pass both accepts and answers.

`BroadcastProofs`, for every number of clients, size of frame and number of pieces up to
the room of a new connection: `BroadcastTypeCorrect`, `PicturesAreWhole`, `HeldCopiesAreOneFrame`.
`StreamShape` ties the room left to the pieces sent, so that the first picture of a
connection always finds room; `PictureShape` and `CopyShape` say which frame each pixel of the
frozen and of the copied picture is of.

`TcpProofs`, for pools, ports, priorities and time-outs of any size. In any application that
`TcpPcb` allows, calls from callbacks included:

* `TcpTypesCorrect`: the types; retries and ages stay in their ranges;
* `HandlesStayLive`: no block is freed while an application refers to it;
* `BlocksAreLostByListenOnly`: a block taken from the pool and not connected is referred to by the
  application, unless a `tcp_listen` that found no listening block made it forget;
* `PortsStayReserved`: no two blocks that are bound, or listen in the place of a bound one, share
  a port, although `tcp_listen` also takes blocks whose port nothing reserves;
* `VictimNeverBeaten`: the victim of an allocation without room is beaten by no other.

In the applications of the repository (`AsInRepository`: no liberties; `send.c` registers no error
and no poll callback, and its receive callback refuses nothing, so that a timer runs no call of
theirs), also

* `ListsAlwaysAgree`: every block is on the list its state calls for, once;
* `SlowTimerKeepsPlace`: the slow timer unlinks the block it means to.

`TcpInv` says what holds of a block (`BlockOK`), of the ports (`Reserved`) and of a walk in progress:
its block is on the list and the one noted before it further ahead (`Place`). Nearly every
function changes one block and the lists that block is on (`OneBlock`), so the argument is
the same for all of them: `BlockOK` of that block is enough (`OneBlockKeeps`), and functions that
call one another compose (`Carries`). With callbacks that change the list the slow timer may drop
blocks that are alive, so `BlockOK` asks only that the list holds no others; `WalkInv` adds the
converse, and that a walk has dealt with exactly the blocks ahead of its place (`Halfway`). That is
why the lists agree only together with the timers: a removal takes out what lies between
two noted blocks, which is one block only if the note is right.

What a removal, an unlinking or a search does to a list of any length is shown from the
position it acts at: `RemoveFirst` and `Unlink` by the positions before and behind it, the pass of
`tcp_kill_prio` by the least length at which a claim about prefixes fails (`LeastNumber`). For
that pass the fold of `LastBest` is shown to be a function of the positions folded (`FoldExists`).

`TcpInv` and `WalkInv`, like `CountInv`, `AlertInv` and `ReaderInv`, were checked with TLC as invariants
of the runs' instances before they were proved.

Every proof starts from the assumptions named in the modules, which TLC evaluates, and from the
hypotheses named above, and nothing else. With these every invariant of the passing runs is
a theorem, and so are the action properties and the refinement.

Model-checked only: liveness, that is `StationaryObjectRaisesAlarm`, `AlarmEndsWithoutObject`,
`AccessesEnd`, `SilentPeersAreFreed`, `RefusedIsOffered`, `TimersRun`, `ClientIsLetGo`, `ClientIsAccepted` and
`CameraComesUp`. Their fairness is stated with ENABLED of large actions, which the provers
cannot reason about.

## Left to do

`PixelConversion`, the grey and black-and-white arithmetic over all 4096 colours;
thresholds beyond `SUSPICION_RANGE` (`obj_det_datapath.v:58`), a hazard without a
property; calls from callbacks with two blocks, where the slow timer's assertions fail; that `AlertFrameBuffer` implements `PictureMemory`, which the software's model
abstracts by hand. At most twelve runs are kept.

## Not modelled

The display (`vga444.v`), the unused debouncer, generated wrappers and the block
design: no property depends on them beyond clock and reset. The driver's self-test,
which nothing calls. NMEA parsing is in a library outside the repository, of which the ping flag is
modelled. Bringing the network interface up (addresses, DHCP) and `platform` code
are vendor calls before the loops begin. Segment input and output of lwIP are not in the
repository. Byte strobes of the bus (the software writes words), response codes (always
OKAY), the bits on the I2C wire between acknowledgements and resets during the
configuration, the frame counter and the debugging outputs of the datapath (nothing reads
them). The clients' display and files.
