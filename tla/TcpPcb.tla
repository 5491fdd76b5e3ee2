------------------------------- MODULE TcpPcb -------------------------------
(***************************************************************************)
(* Life of the control blocks of the TCP stack that the frame broadcast     *)
(* server is linked with: frame_broadcast_bsp/tcp.c, lwIP 1.4.1 with a      *)
(* larger send buffer.  The stack is single threaded: the application calls *)
(* it between segments and timers, and from the callbacks it is given.      *)
(*                                                                         *)
(* The stack is one record, tcp, so that the functions of tcp.c can be      *)
(* written as operators from stack to stack and call one another as the     *)
(* code does.  Segments come in through tcp_in.c, which is not in the       *)
(* repository: the actions under "Segments" say what it does to a block.    *)
(***************************************************************************)
EXTENDS Integers, FiniteSets, Sequences, SequencesExt

CONSTANTS
    Pcb,               \* blocks of the pool MEMP_TCP_PCB
    ListenPcb,         \* blocks of the pool MEMP_TCP_PCB_LISTEN
    NULL,
    ServerPorts,       \* ports an application names when it binds
    LocalPorts,        \* TCP_LOCAL_PORT_RANGE_START..TCP_LOCAL_PORT_RANGE_END
    Prios,             \* priorities in use, of TCP_PRIO_MIN..TCP_PRIO_MAX
    TCP_PRIO_NORMAL,   \* priority of tcp_new
    FIN_WAIT_TICKS,    \* TCP_FIN_WAIT_TIMEOUT / TCP_SLOW_INTERVAL
    SYN_RCVD_TICKS,    \* TCP_SYN_RCVD_TIMEOUT / TCP_SLOW_INTERVAL
    MSL2_TICKS,        \* 2 * TCP_MSL / TCP_SLOW_INTERVAL
    TCP_MAXRTX, TCP_SYNMAXRTX,
    TIMER_CTR,         \* values of tcp_timer_ctr, 256 in the code
    MAX_AGE,           \* ages from here on are not told apart
    DataPcb,           \* blocks whose connections carry data
    PeersMayDie,       \* whether the peers may fall silent
    Liberties          \* what an application may do that those of this repository do
                       \* not: calls from callbacks, a connect long after tcp_new

ASSUME TcpAssumption ==
    /\ NULL \notin Pcb /\ Pcb \cap ListenPcb = {}
    /\ Prios \subseteq 1..127 /\ {TCP_MAXRTX, MAX_AGE} \subseteq Nat
    /\ TCP_PRIO_NORMAL \in Prios /\ DataPcb \subseteq Pcb /\ PeersMayDie \in BOOLEAN
    /\ 0 \notin ServerPorts \cup LocalPorts
    /\ {FIN_WAIT_TICKS, SYN_RCVD_TICKS, MSL2_TICKS} \subseteq 0..(MAX_AGE - 1)
    /\ TCP_SYNMAXRTX \in 1..TCP_MAXRTX /\ TIMER_CTR \in Nat \ {0, 1}
    /\ Liberties \subseteq {"callbacks", "late_connect"}

VARIABLES
    tcp,       \* the stack: its blocks and lists, what the application refers to
               \* (held) and, as history, what a failed tcp_listen made it forget (lost)
    timer,     \* the timer or callback in progress
    silent     \* the peers have stopped sending for good

tcpVars == <<tcp, timer, silent>>

Active == {"SYN_SENT", "SYN_RCVD", "ESTABLISHED", "FIN_WAIT_1", "FIN_WAIT_2",
           "CLOSE_WAIT", "CLOSING", "LAST_ACK"}
TcpStates == Active \cup {"CLOSED", "TIME_WAIT"}

\* The fields of struct tcp_pcb_listen; reserved is history: the block it was
\* made of had been bound to its port.
Listener == [port : {0} \cup ServerPorts \cup LocalPorts, prio : Prios,
             reserved : BOOLEAN]

\* The fields of struct tcp_pcb the life of a block depends on.  age is
\* tcp_ticks - tmr, lag is tcp_timer_ctr - last_timer; output tells whether a
\* segment waits for its acknowledgement (retransmission timer) or for the
\* peer's window (persist timer); unread is rcv_wnd # TCP_WND.
Block == [state : TcpStates \cup {"FREE"}, port : {0} \cup ServerPorts \cup LocalPorts,
          prio : Prios, age : 0..MAX_AGE, lag : 0..(TIMER_CTR - 1),
          nrtx : 0..TCP_MAXRTX, output : {"idle", "unacked", "persist"},
          refused : {"none", "data", "fin"}, unread : BOOLEAN,
          rxclosed : BOOLEAN]

\* A block as tcp_alloc fills it in.
NewBlock(prio) ==
    [state |-> "CLOSED", port |-> 0, prio |-> prio, age |-> 0, lag |-> 0,
     nrtx |-> 0, output |-> "idle", refused |-> "none", unread |-> FALSE,
     rxclosed |-> FALSE]
FreeBlock == [NewBlock(TCP_PRIO_NORMAL) EXCEPT !.state = "FREE"]
FreeListener == [port |-> 0, prio |-> TCP_PRIO_NORMAL, reserved |-> FALSE]

NoTimer == [which |-> "none", cur |-> NULL, prev |-> NULL, callback |-> "none",
            who |-> NULL, fin |-> FALSE, aborted |-> FALSE]

TcpInit ==
    /\ tcp = [pcb |-> [p \in Pcb |-> FreeBlock],
              lpcb |-> [l \in ListenPcb |-> FreeListener],
              listen |-> {}, bound |-> {}, active |-> <<>>, tw |-> <<>>,
              changed |-> FALSE, held |-> {}, lost |-> {}]
    /\ timer = NoTimer
    /\ silent = FALSE

-----------------------------------------------------------------------------
(* Functions of tcp.c, from stack to stack                                  *)

Succ(list, p) ==
    LET later == {i \in 2..Len(list) : list[i - 1] = p}
    IN  IF later = {} THEN NULL ELSE list[CHOOSE i \in later : TRUE]
First(list) == IF list = <<>> THEN NULL ELSE Head(list)

TCP_REG_ACTIVE(t, p) == [t EXCEPT !.active = <<p>> \o @, !.changed = TRUE]
TCP_RMV_ACTIVE(t, p) == [t EXCEPT !.active = RemoveFirst(@, p), !.changed = TRUE]
memp_free(t, p) == [t EXCEPT !.pcb[p] = FreeBlock]
FreePcbs(t) == {p \in Pcb : t.pcb[p].state = "FREE"}

\* A purge drops what a block has queued, in every state in which it queues.
tcp_pcb_purge(t, p) ==
    IF t.pcb[p].state \in Active
    THEN [t EXCEPT !.pcb[p].refused = "none", !.pcb[p].output = "idle"]
    ELSE t

\* TCP_PCB_REMOVE_ACTIVE: off the list, purged, and CLOSED.
tcp_pcb_remove(t, p) ==
    [tcp_pcb_purge(TCP_RMV_ACTIVE(t, p), p) EXCEPT !.pcb[p].state = "CLOSED"]

\* The application is told of the end of a connection; the error callback
\* makes it forget the block.
TCP_EVENT_ERR(t, p) == [t EXCEPT !.held = @ \ {p}]

\* faulty: a block in TIME_WAIT is freed on its list
tcp_abandon_listed(t, p) ==
    IF t.pcb[p].state = "TIME_WAIT" THEN memp_free(t, p)
    ELSE TCP_EVENT_ERR(memp_free(tcp_pcb_remove(t, p), p), p)
\* faulty: an active block is taken off its list and not freed
tcp_abandon_kept(t, p) ==
    IF t.pcb[p].state = "TIME_WAIT" THEN memp_free([t EXCEPT !.tw = RemoveFirst(@, p)], p)
    ELSE TCP_EVENT_ERR(tcp_pcb_remove(t, p), p)
\* faulty: the application is not told
tcp_abandon_untold(t, p) ==
    IF t.pcb[p].state = "TIME_WAIT" THEN memp_free([t EXCEPT !.tw = RemoveFirst(@, p)], p)
    ELSE memp_free(tcp_pcb_remove(t, p), p)

\* Every state but TIME_WAIT is taken for one of the active list's.
tcp_abandon(t, p) ==
    IF t.pcb[p].state = "TIME_WAIT"
    THEN memp_free([t EXCEPT !.tw = RemoveFirst(@, p)], p)
    ELSE TCP_EVENT_ERR(memp_free(tcp_pcb_remove(t, p), p), p)

\* One pass over a list: a block that beats the best so far takes its place.
LastBest(list, beats) ==
    FoldLeft(LAMBDA best, p : IF <<best, p>> \in beats THEN p ELSE best, NULL, list)
Contests == (Pcb \cup {NULL}) \X Pcb

\* faulty: the last candidate of the list, whatever its age and priority
tcp_kill_prio_victim_last(t, prio) ==
    LastBest(t.active, {c \in Contests : t.pcb[c[2]].prio <= prio})

\* A candidate must be no more important than the victim so far, and no younger.
tcp_kill_prio_victim(t, prio) ==
    LastBest(t.active,
             {c \in Contests :
                 /\ t.pcb[c[2]].prio <= prio
                 /\ c[1] # NULL => /\ t.pcb[c[2]].prio <= t.pcb[c[1]].prio
                                   /\ t.pcb[c[2]].age >= t.pcb[c[1]].age})
tcp_kill_prio(t, prio) ==
    LET victim == tcp_kill_prio_victim(t, prio)
    IN  IF victim = NULL THEN t ELSE tcp_abandon(t, victim)

tcp_kill_timewait(t) ==
    LET victim == LastBest(t.tw, {c \in Contests :
                             c[1] # NULL => t.pcb[c[2]].age >= t.pcb[c[1]].age})
    IN  IF victim = NULL THEN t ELSE tcp_abandon(t, victim)

\* tcp_alloc up to its last memp_malloc: the stack in which it looks for a block.
tcp_alloc_room(t, prio) ==
    LET afterTimeWait == IF FreePcbs(t) = {} THEN tcp_kill_timewait(t) ELSE t
    IN  IF FreePcbs(afterTimeWait) = {} THEN tcp_kill_prio(afterTimeWait, prio)
                                        ELSE afterTimeWait

\* Data the application has not taken makes a close a reset.
ResetsOnClose(b) ==
    /\ b.state \in {"ESTABLISHED", "CLOSE_WAIT"}
    /\ b.refused # "none" \/ b.unread

\* tcp_send_fin may find no memory (finOk = FALSE); the block then stays.
NeedsFin(b) == b.state \in {"SYN_RCVD", "ESTABLISHED", "CLOSE_WAIT"}
SendFin(b) ==
    [b EXCEPT !.state = IF @ = "CLOSE_WAIT" THEN "LAST_ACK" ELSE "FIN_WAIT_1",
              !.output = IF @ = "persist" THEN "persist" ELSE "unacked"]

CloseFails(b, rst, finOk) == NeedsFin(b) /\ ~finOk /\ ~(rst /\ ResetsOnClose(b))

tcp_close_shutdown(t, p, rst, finOk) ==
    LET b == t.pcb[p]
        gone == TCP_RMV_ACTIVE(tcp_pcb_purge(t, p), p)
    IN  CASE rst /\ ResetsOnClose(b) /\ b.state = "ESTABLISHED" ->
                  [gone EXCEPT !.pcb[p].state = "TIME_WAIT", !.tw = <<p>> \o @]
          [] rst /\ ResetsOnClose(b) /\ b.state = "CLOSE_WAIT" -> memp_free(gone, p)
          [] ~(rst /\ ResetsOnClose(b)) /\ NeedsFin(b) ->
                  IF finOk THEN [t EXCEPT !.pcb[p] = SendFin(@)] ELSE t
          [] b.state = "CLOSED" -> memp_free([t EXCEPT !.bound = @ \ {p}], p)
          [] b.state = "SYN_SENT" -> memp_free(tcp_pcb_remove(t, p), p)
          [] OTHER -> t

tcp_close(t, p, finOk) ==
    tcp_close_shutdown([t EXCEPT !.pcb[p].rxclosed = TRUE], p, TRUE, finOk)

\* The default receive callback: takes data at once, closes on the peer's FIN.
tcp_recv_null(t, p, fin, finOk) ==
    IF fin THEN tcp_close(t, p, finOk) ELSE [t EXCEPT !.pcb[p].unread = FALSE]

\* faulty: listening blocks are not looked at
PortsInUse_connections(t) == {t.pcb[p].port : p \in t.bound \cup ToSet(t.tw \o t.active)}

\* Ports in use on any of the four lists, where tcp_bind and tcp_new_port look.
PortsInUse(t) ==
    {t.lpcb[l].port : l \in t.listen}
        \cup {t.pcb[p].port : p \in t.bound \cup ToSet(t.tw \o t.active)}
\* tcp_new_port takes the next free port after the last one it gave out.
tcp_new_port(t) == LocalPorts \ PortsInUse(t)

-----------------------------------------------------------------------------
(* Calls of the application                                                 *)

Idle == timer.which = "none"
InCallback == timer.callback # "none"
AppRuns == Idle \/ (InCallback /\ "callbacks" \in Liberties)

\* tcp_active_pcbs_changed is read after a callback only.
Becomes(t) == tcp' = [t EXCEPT !.changed = @ /\ InCallback]
Call(t) == Becomes(t) /\ UNCHANGED <<timer, silent>>

\* A null result leaves what was killed on the way killed.
tcp_new ==
    LET room == tcp_alloc_room(tcp, TCP_PRIO_NORMAL)
    IN  /\ AppRuns
        /\ IF FreePcbs(room) = {} THEN Call(room)
           ELSE \E p \in FreePcbs(room) :
                  Call([room EXCEPT !.pcb[p] = NewBlock(TCP_PRIO_NORMAL),
                                    !.held = @ \cup {p}])

\* Port 0 asks for a local port.  The application binds a block once: the
\* documentation says that tcp_bind does not check.
tcp_bind(p, port) ==
    /\ AppRuns /\ p \in tcp.held \ tcp.bound
    /\ tcp.pcb[p].state = "CLOSED"
    /\ port \in IF port \in ServerPorts THEN ServerPorts \ PortsInUse(tcp)
                                        ELSE tcp_new_port(tcp)
    /\ Call([tcp EXCEPT !.pcb[p].port = port, !.bound = @ \cup {p}])

\* The block is freed, a smaller one takes its place.  It need not be bound: it
\* may have no port, or one that a failed tcp_connect left and nothing reserves.
\* Without a listening block to take the answer is NULL, and the caller, which
\* assigns it as it is told to, has lost the block it had.
tcp_listen_with_backlog(p) ==
    /\ AppRuns /\ p \in tcp.held
    /\ tcp.pcb[p].state = "CLOSED"
    /\ ListenPcb = tcp.listen =>
         Call([tcp EXCEPT !.held = @ \ {p}, !.lost = @ \cup {p}])
    /\ ListenPcb # tcp.listen => \E l \in ListenPcb \ tcp.listen :
         Call(memp_free([tcp EXCEPT !.lpcb[l] = [port |-> tcp.pcb[p].port,
                                                 prio |-> tcp.pcb[p].prio,
                                                 reserved |-> p \in tcp.bound],
                                    !.listen = @ \cup {l}, !.bound = @ \ {p},
                                    !.held = @ \ {p}], p))

tcp_setprio(p, prio) ==
    /\ AppRuns /\ p \in tcp.held /\ prio # tcp.pcb[p].prio
    /\ Call([tcp EXCEPT !.pcb[p].prio = prio])

\* Without memory for the SYN the block keeps its new port, and stays
\* CLOSED and on the list it was on.
tcp_connect(p, port, synOk) ==
    /\ AppRuns /\ p \in tcp.held
    /\ tcp.pcb[p].state = "CLOSED"
    /\ port \in IF tcp.pcb[p].port = 0 THEN tcp_new_port(tcp) ELSE {tcp.pcb[p].port}
    /\ Call(IF synOk
            THEN TCP_REG_ACTIVE([tcp EXCEPT !.pcb[p].port = port,
                                            !.pcb[p].state = "SYN_SENT",
                                            !.pcb[p].output = "unacked",
                                            !.bound = @ \ {p}], p)
            ELSE [tcp EXCEPT !.pcb[p].port = port])

\* tcp_write and tcp_recved, for the data that matter here: all of it.
tcp_write(p) ==
    /\ AppRuns /\ p \in tcp.held \cap DataPcb
    /\ tcp.pcb[p].state \in {"ESTABLISHED", "CLOSE_WAIT"} /\ tcp.pcb[p].output = "idle"
    /\ Call([tcp EXCEPT !.pcb[p].output = "unacked"])
tcp_recved(p) ==
    /\ AppRuns /\ p \in tcp.held
    /\ tcp.pcb[p].unread /\ tcp.pcb[p].refused = "none"
    /\ Call([tcp EXCEPT !.pcb[p].unread = FALSE])

\* The application refers to a block no more once its close has succeeded.
Close(p, finOk) ==
    /\ AppRuns /\ p \in tcp.held
    /\ ~finOk => NeedsFin(tcp.pcb[p])
    /\ Call([tcp_close(tcp, p, finOk) EXCEPT
               !.held = IF CloseFails(tcp.pcb[p], TRUE, finOk) THEN @ ELSE @ \ {p}])
CloseListener(l) ==
    /\ AppRuns /\ l \in tcp.listen
    /\ Call([tcp EXCEPT !.listen = @ \ {l}, !.lpcb[l] = FreeListener])

\* One direction; both together are tcp_close, and end the block for the
\* application as a close does.
FinSent == {"FIN_WAIT_1", "FIN_WAIT_2", "CLOSING", "LAST_ACK"}
tcp_shutdown_rx(p) ==
    /\ AppRuns /\ p \in tcp.held /\ ~tcp.pcb[p].rxclosed
    /\ Call([tcp EXCEPT !.pcb[p].rxclosed = TRUE, !.pcb[p].refused = "none",
                        !.held = IF tcp.pcb[p].state \in FinSent THEN @ \ {p} ELSE @])
tcp_shutdown_tx(p, finOk) ==
    /\ AppRuns /\ p \in tcp.held
    /\ NeedsFin(tcp.pcb[p])
    /\ Call([tcp_close_shutdown(tcp, p, FALSE, finOk) EXCEPT
               !.held = IF finOk /\ tcp.pcb[p].rxclosed THEN @ \ {p} ELSE @])

\* tcp_abandon would leave a block that is only bound on its list; a block
\* without a connection is closed, not aborted.
tcp_abort(p) ==
    /\ AppRuns /\ p \in tcp.held
    /\ p \notin tcp.bound
    /\ Becomes([tcp_abandon(tcp, p) EXCEPT !.held = @ \ {p}])
    /\ timer' = [timer EXCEPT !.aborted = @ \/ (InCallback /\ p = timer.who)]
    /\ UNCHANGED silent

Application ==
    \/ tcp_new
    \/ \E l \in ListenPcb : CloseListener(l)
    \/ \E p \in Pcb :
         \/ \E port \in ServerPorts \cup LocalPorts :
              \/ tcp_bind(p, port)
              \/ \E ok \in BOOLEAN : tcp_connect(p, port, ok)
         \/ tcp_listen_with_backlog(p)
         \/ \E prio \in Prios : tcp_setprio(p, prio)
         \/ tcp_write(p) \/ tcp_recved(p)
         \/ \E ok \in BOOLEAN : Close(p, ok) \/ tcp_shutdown_tx(p, ok)
         \/ tcp_shutdown_rx(p) \/ tcp_abort(p)

-----------------------------------------------------------------------------
(* Segments: tcp_in.c, from a peer that may send anything its state allows  *)

Segment(p, states) == Idle /\ ~silent /\ tcp.pcb[p].state \in states

\* A segment renews the activity timer unless the receive side is closed.
Heard(t, p) == IF t.pcb[p].rxclosed THEN t ELSE [t EXCEPT !.pcb[p].age = 0]
Acknowledged(t, p) == [t EXCEPT !.pcb[p].output = "idle", !.pcb[p].nrtx = 0]

\* Both sides have closed: an application that has shut down one direction
\* only must let go here, as nothing tells it when the block is freed.
EnterTimeWait(t, p) ==
    [TCP_RMV_ACTIVE(tcp_pcb_purge(t, p), p) EXCEPT
        !.pcb[p].state = "TIME_WAIT", !.tw = <<p>> \o @, !.held = @ \ {p}]

SynArrives(l, synOk) ==
    LET room == tcp_alloc_room(tcp, tcp.lpcb[l].prio)
    IN  /\ Idle /\ ~silent /\ l \in tcp.listen
        /\ IF FreePcbs(room) = {} \/ ~synOk THEN Call(room)
           ELSE \E p \in FreePcbs(room) :
                  Call(TCP_REG_ACTIVE([room EXCEPT !.pcb[p] =
                         [NewBlock(tcp.lpcb[l].prio) EXCEPT
                            !.state = "SYN_RCVD", !.output = "unacked",
                            !.port = tcp.lpcb[l].port]], p))

SynAcked(p) ==
    /\ Segment(p, {"SYN_SENT"})
    /\ Call([Acknowledged(Heard(tcp, p), p) EXCEPT !.pcb[p].state = "ESTABLISHED"])

\* The application's accept callback takes the connection or refuses it.  The
\* one of a listener whose application has not set any yet, tcp_accept_null,
\* answers ERR_ABRT without an abort: nobody refers to the connection, and it
\* stays.
HandshakeEnds(p, answer) ==
    LET t == [Acknowledged(Heard(tcp, p), p) EXCEPT !.pcb[p].state = "ESTABLISHED"]
    IN  /\ Segment(p, {"SYN_RCVD"})
        /\ Call(CASE answer = "ok" -> [t EXCEPT !.held = @ \cup {p}]
                  [] answer = "error" -> tcp_abandon(t, p)
                  [] answer = "tcp_accept_null" -> t)

\* Data after the receive side was closed abort the connection.
DataArrives(p, taken) ==
    LET t == [Heard(tcp, p) EXCEPT !.pcb[p].unread = TRUE]
    IN  /\ Segment(p, {"ESTABLISHED", "FIN_WAIT_1", "FIN_WAIT_2"})
        /\ tcp.pcb[p].refused = "none" /\ p \in DataPcb
        /\ Call(IF tcp.pcb[p].rxclosed THEN tcp_abandon(tcp, p)
                ELSE IF p \notin tcp.held THEN tcp_recv_null(t, p, FALSE, TRUE)
                ELSE IF taken THEN t
                ELSE [t EXCEPT !.pcb[p].refused = "data"])

\* A FIN behind refused data is kept with them; in TIME_WAIT it has come before.
FinArrives(p, acked, finOk) ==
    LET b == tcp.pcb[p]
        t == [Heard(tcp, p) EXCEPT !.pcb[p].refused = IF @ = "none" THEN @ ELSE "fin"]
        waits == [t EXCEPT !.pcb[p].state = "CLOSE_WAIT"]
    IN  /\ Segment(p, {"ESTABLISHED", "FIN_WAIT_1", "FIN_WAIT_2", "TIME_WAIT"})
        /\ acked => b.state = "FIN_WAIT_1"
        /\ Call(CASE b.state = "ESTABLISHED" ->
                       IF p \in tcp.held \/ b.rxclosed THEN waits
                       ELSE tcp_recv_null(waits, p, TRUE, finOk)
                  [] b.state = "FIN_WAIT_1" /\ ~acked -> [t EXCEPT !.pcb[p].state = "CLOSING"]
                  [] b.state = "TIME_WAIT" -> [tcp EXCEPT !.pcb[p].age = 0]
                  [] OTHER -> EnterTimeWait(t, p))

\* Our FIN is acknowledged.  The last of a block in LAST_ACK is reported
\* unless the application has closed it.
FinAcked(p) ==
    LET t == Acknowledged(Heard(tcp, p), p)
        last == memp_free(tcp_pcb_remove(t, p), p)
    IN  /\ Segment(p, {"FIN_WAIT_1", "CLOSING", "LAST_ACK"})
        /\ Call(CASE tcp.pcb[p].state = "FIN_WAIT_1" -> [t EXCEPT !.pcb[p].state = "FIN_WAIT_2"]
                  [] tcp.pcb[p].state = "CLOSING" -> EnterTimeWait(t, p)
                  [] OTHER -> IF tcp.pcb[p].rxclosed THEN last ELSE TCP_EVENT_ERR(last, p))

ResetArrives(p) ==
    /\ Segment(p, Active)
    /\ Call(memp_free(tcp_pcb_remove(TCP_EVENT_ERR(tcp, p), p), p))

\* The window of the peer closes on data not sent yet, opens, and takes them.
DataAcked(p) ==
    /\ Segment(p, {"ESTABLISHED", "CLOSE_WAIT"}) /\ tcp.pcb[p].output = "unacked"
    /\ Call(Acknowledged(Heard(tcp, p), p))
WindowCloses(p) ==
    /\ Segment(p, Active \ {"SYN_SENT", "SYN_RCVD", "FIN_WAIT_2"}) /\ p \in DataPcb
    /\ tcp.pcb[p].output = "unacked"
    /\ Call([Heard(tcp, p) EXCEPT !.pcb[p].output = "persist"])
WindowOpens(p) ==
    /\ Segment(p, Active) /\ tcp.pcb[p].output = "persist"
    /\ Call([Heard(tcp, p) EXCEPT !.pcb[p].output = "unacked"])

PeersFallSilent == PeersMayDie /\ ~silent /\ silent' = TRUE /\ UNCHANGED <<tcp, timer>>

Segments ==
    \/ \E l \in ListenPcb, ok \in BOOLEAN : SynArrives(l, ok)
    \/ \E p \in Pcb :
         \/ SynAcked(p) \/ ResetArrives(p) \/ FinAcked(p)
         \/ DataAcked(p) \/ WindowCloses(p) \/ WindowOpens(p)
         \/ \E answer \in {"ok", "error", "tcp_accept_null"} : HandshakeEnds(p, answer)
         \/ \E taken \in BOOLEAN : DataArrives(p, taken)
         \/ \E acked, ok \in BOOLEAN : FinArrives(p, acked, ok)
    \/ PeersFallSilent

-----------------------------------------------------------------------------
(* The timers: tcp_slowtmr and tcp_fasttmr, called from the main loop       *)

\* The counter has 8 bits: a block left unconnected for 256 calls looks as if
\* it had just been dealt with.  Applications that connect in time never see it,
\* and lag need not run before the connection does.
Lag(b) ==
    IF b.state \in Active \/ (b.state = "CLOSED" /\ "late_connect" \in Liberties)
    THEN (b.lag + 1) % TIMER_CTR ELSE b.lag
Tick(t, older) ==
    [t EXCEPT !.pcb = [p \in Pcb |->
        IF t.pcb[p].state = "FREE" THEN t.pcb[p]
        ELSE [t.pcb[p] EXCEPT !.lag = Lag(t.pcb[p]),
                              !.age = IF older /\ @ < MAX_AGE THEN @ + 1 ELSE @]]]

\* Both timers count the call, then walk the active list from its head.
StartTimer(which) ==
    /\ Idle
    /\ tcp' = Tick(tcp, which = "slow")
    /\ timer' = [NoTimer EXCEPT !.which = which, !.cur = First(tcp.active)]
    /\ UNCHANGED silent

Walking(which) == timer.which = which /\ timer.callback = "none" /\ timer.cur # NULL
Visited(p) == tcp.pcb[p].lag = 0

\* Blocks already dealt with are passed over; the one before is not renewed.
SlowSkip ==
    /\ Walking("slow") /\ Visited(timer.cur)
    /\ timer' = [timer EXCEPT !.cur = Succ(tcp.active, @)]
    /\ UNCHANGED <<tcp, silent>>

\* faulty: removed one retry too late
RetriesExhausted_late(b) ==
    \/ b.state = "SYN_SENT" /\ b.nrtx = TCP_SYNMAXRTX
    \/ b.nrtx > TCP_MAXRTX
\* faulty: a peer that never closes its side is waited for
StayedTooLong_no_fin_wait(b) ==
    \/ b.state = "SYN_RCVD" /\ b.age > SYN_RCVD_TICKS
    \/ b.state = "LAST_ACK" /\ b.age > MSL2_TICKS

RetriesExhausted(b) ==
    \/ b.state = "SYN_SENT" /\ b.nrtx = TCP_SYNMAXRTX
    \/ b.nrtx = TCP_MAXRTX
StayedTooLong(b) ==
    \/ b.state = "FIN_WAIT_2" /\ b.rxclosed /\ b.age > FIN_WAIT_TICKS
    \/ b.state = "SYN_RCVD" /\ b.age > SYN_RCVD_TICKS
    \/ b.state = "LAST_ACK" /\ b.age > MSL2_TICKS
Expires(b) == RetriesExhausted(b) \/ StayedTooLong(b)

\* Every retransmission timeout lasts one tick here; back-off only delays it.
\* While the peer's window is shut there are probes instead, without number.
Retransmit(b) == [b EXCEPT !.lag = 0, !.nrtx = IF b.output = "unacked" THEN @ + 1 ELSE @]

\* faulty: a block that was removed is kept as the one before
Calls_prev_removed(kind, p, t) ==
    /\ tcp' = t
    /\ timer' = [timer EXCEPT !.prev = p, !.cur = Succ(tcp.active, p)]

Calls(kind, p, t) ==
    IF "callbacks" \in Liberties
    THEN /\ tcp' = [t EXCEPT !.changed = FALSE]
         /\ timer' = [timer EXCEPT !.callback = kind, !.who = p, !.aborted = FALSE,
                                   !.prev = IF kind = "poll" THEN p ELSE @,
                                   !.cur = Succ(tcp.active, p)]
    ELSE /\ tcp' = t
         /\ timer' = [timer EXCEPT !.prev = IF kind = "poll" THEN p ELSE @,
                                   !.cur = Succ(tcp.active, p)]

\* prev->next = pcb->next, or tcp_active_pcbs = pcb->next: what lay between
\* prev and pcb goes too.
Unlink(list, prev, p) ==
    LET at(q) == CHOOSE i \in 1..Len(list) : list[i] = q
        rest == SubSeq(list, at(p) + 1, Len(list))
    IN  IF prev = NULL THEN rest ELSE SubSeq(list, 1, at(prev)) \o rest

SlowRemove ==
    LET p == timer.cur
        purged == tcp_pcb_purge(tcp, p)
    IN  /\ Walking("slow") /\ ~Visited(p) /\ Expires(tcp.pcb[p])
        /\ Calls("err", p, TCP_EVENT_ERR(memp_free(
             [purged EXCEPT !.active = Unlink(@, timer.prev, p)], p), p))
        /\ UNCHANGED silent

\* The rest of the visit: retransmission, then the poll callback.
SlowPoll ==
    LET p == timer.cur
    IN  /\ Walking("slow") /\ ~Visited(p) /\ ~Expires(tcp.pcb[p])
        /\ Calls("poll", p, [tcp EXCEPT !.pcb[p] = Retransmit(@)])
        /\ UNCHANGED silent

\* The walk is over: the same for the list of TIME_WAIT, which calls nobody.
\* The blocks that are old go one after the other, in an order nobody sees.
OldInTimeWait == {p \in ToSet(tcp.tw) : tcp.pcb[p].age > MSL2_TICKS}
WalkedActive == timer.which = "slow" /\ timer.callback = "none" /\ timer.cur = NULL
SlowTimeWait ==
    /\ WalkedActive
    /\ \E p \in OldInTimeWait :
          tcp' = memp_free([tcp EXCEPT !.tw = RemoveFirst(@, p)], p)
    /\ UNCHANGED <<timer, silent>>
SlowEnd ==
    /\ WalkedActive /\ OldInTimeWait = {}
    /\ timer' = NoTimer
    /\ UNCHANGED <<tcp, silent>>

\* tcp_process_refused_data, called by the fast timer and by tcp_input.
OffersRefused(p, which, next, t) ==
    /\ tcp' = [t EXCEPT !.pcb[p].refused = "none", !.changed = FALSE]
    /\ timer' = [NoTimer EXCEPT !.which = which, !.callback = "recv", !.who = p,
                                !.cur = next, !.fin = tcp.pcb[p].refused = "fin"]
    /\ UNCHANGED silent

\* faulty: a FIN that was kept with refused data is not offered again
FastVisit_data_only ==
    LET p == timer.cur
        t == [tcp EXCEPT !.pcb[p].lag = 0]
    IN  /\ Walking("fast") /\ ~Visited(p)
        /\ IF tcp.pcb[p].refused = "data"
           THEN OffersRefused(p, "fast", Succ(tcp.active, p), t)
           ELSE /\ tcp' = t
                /\ timer' = [timer EXCEPT !.cur = Succ(tcp.active, p)]
                /\ UNCHANGED silent

FastVisit ==
    LET p == timer.cur
        t == [tcp EXCEPT !.pcb[p].lag = 0]
    IN  /\ Walking("fast") /\ ~Visited(p)
        /\ IF tcp.pcb[p].refused # "none"
           THEN OffersRefused(p, "fast", Succ(tcp.active, p), t)
           ELSE /\ tcp' = t
                /\ timer' = [timer EXCEPT !.cur = Succ(tcp.active, p)]
                /\ UNCHANGED silent

\* A block already dealt with is looked at again, and again.
FastSpin ==
    /\ Walking("fast") /\ Visited(timer.cur)
    /\ UNCHANGED tcpVars

FastEnd ==
    /\ timer.which = "fast" /\ timer.callback = "none" /\ timer.cur = NULL
    /\ timer' = NoTimer
    /\ UNCHANGED <<tcp, silent>>

\* A segment for a block with refused data offers them first.
SegmentMeetsRefused(p) ==
    /\ Segment(p, Active) /\ tcp.pcb[p].refused # "none"
    /\ OffersRefused(p, "input", NULL, tcp)

Resume ==
    IF timer.which = "input" THEN timer' = NoTimer
    ELSE timer' = [timer EXCEPT !.callback = "none", !.who = NULL, !.aborted = FALSE,
                     !.cur = IF tcp.changed THEN First(tcp.active) ELSE @,
                     !.prev = IF tcp.changed THEN NULL ELSE @,
                     !.fin = FALSE]

\* After ERR_OK the FIN behind the data is reported; after ERR_ABRT nothing is
\* done; any other answer refuses the data again.
CallbackReturns ==
    /\ InCallback /\ UNCHANGED silent
    /\ IF timer.callback = "recv" /\ ~timer.aborted /\ timer.fin
       THEN /\ timer' = [timer EXCEPT !.callback = "closed", !.fin = FALSE]
            /\ tcp' = tcp
       ELSE Resume /\ tcp' = [tcp EXCEPT !.changed = FALSE]
RecvRefuses ==
    /\ timer.callback = "recv" /\ ~timer.aborted /\ UNCHANGED silent
    /\ timer.who \in tcp.held
    /\ tcp' = [tcp EXCEPT !.pcb[timer.who].refused = IF timer.fin THEN "fin" ELSE "data",
                          !.changed = FALSE]
    /\ Resume

Timers ==
    \/ SlowSkip \/ SlowRemove \/ SlowPoll \/ SlowTimeWait \/ SlowEnd
    \/ FastVisit \/ FastSpin \/ FastEnd
    \/ CallbackReturns

TcpNext ==
    \/ Application
    \/ Segments
    \/ \E which \in {"slow", "fast"} : StartTimer(which)
    \/ Timers
    \/ \E p \in Pcb : SegmentMeetsRefused(p)
    \/ RecvRefuses

TcpSpec == TcpInit /\ [][TcpNext]_tcpVars

\* The main loop goes on calling both timers, and what runs comes to its end.
TcpLiveSpec ==
    /\ TcpSpec
    /\ WF_tcpVars(Timers)
    /\ \A which \in {"slow", "fast"} : SF_tcpVars(StartTimer(which))

-----------------------------------------------------------------------------
(* Properties                                                               *)

TcpTypeOK ==
    /\ tcp.pcb \in [Pcb -> Block]
    /\ tcp.lpcb \in [ListenPcb -> Listener]
    /\ tcp.listen \subseteq ListenPcb
    /\ tcp.bound \cup tcp.held \cup tcp.lost \subseteq Pcb
    /\ {tcp.active, tcp.tw} \subseteq Seq(Pcb) /\ tcp.changed \in BOOLEAN
    /\ timer \in [which : {"none", "slow", "fast", "input"}, cur : Pcb \cup {NULL},
                  prev : Pcb \cup {NULL}, callback : {"none", "err", "poll", "recv", "closed"},
                  who : Pcb \cup {NULL}, fin : BOOLEAN, aborted : BOOLEAN]
    /\ silent \in BOOLEAN

\* What tcp_pcbs_sane asserts, and the converse: a block is on the list its
\* state calls for, once, and a block in no state of a list is on none.
ListsAgree ==
    /\ IsInjective(tcp.active) /\ IsInjective(tcp.tw)
    /\ \A p \in Pcb :
         /\ p \in ToSet(tcp.active) <=> tcp.pcb[p].state \in Active
         /\ p \in ToSet(tcp.tw) <=> tcp.pcb[p].state = "TIME_WAIT"
         /\ p \in tcp.bound => tcp.pcb[p].state = "CLOSED" /\ tcp.pcb[p].port # 0

\* A block is free, connected, or referred to by the application, which can
\* free it: no timer and no caller of tcp_alloc looks for one that is CLOSED,
\* bound or not.  There is one way to lose it for good, a tcp_listen that finds
\* no listening block: the stack has kept the block, the caller NULL.
LostOnlyByListen ==
    \A p \in Pcb : tcp.pcb[p].state = "CLOSED" => p \in tcp.held \cup tcp.lost

\* The victim of an allocation without room: no other candidate is both less
\* important and older, in whatever order the list has them.
VictimIsUnbeaten ==
    \A prio \in Prios :
        LET v == tcp_kill_prio_victim(tcp, prio)
            candidates == {p \in ToSet(tcp.active) : tcp.pcb[p].prio <= prio}
        IN  /\ v = NULL <=> candidates = {}
            /\ v # NULL =>
                 /\ v \in candidates
                 /\ ~\E p \in candidates : /\ tcp.pcb[p].prio < tcp.pcb[v].prio
                                           /\ tcp.pcb[p].age > tcp.pcb[v].age

\* Of the blocks that are bound, and those that listen in the place of a bound
\* one, no two have the same port.  A block that listens without having been
\* bound is not among them: tcp_listen does not ask for it, nor looks whether the
\* port that a failed tcp_connect left the block is anybody's.
PortsReserved ==
    LET reserved == {[b |-> p, port |-> tcp.pcb[p].port] : p \in tcp.bound}
                 \cup {[b |-> l, port |-> tcp.lpcb[l].port] :
                          l \in {k \in tcp.listen : tcp.lpcb[k].reserved}}
    IN  \A r, s \in reserved : r.port = s.port => r = s

\* A block the application refers to is not freed behind its back: its error
\* callback comes first.
HandlesAreLive == \A p \in tcp.held : tcp.pcb[p].state # "FREE"

\* The timers come back to the main loop, as the two properties below need:
\* the fast timer does not when a callback changes the list (FastSpin).
TimersReturn == []<>Idle

\* Half-open, closing and waiting blocks do not depend on their peers: once
\* these have fallen silent, retries and time-outs free every one of them.  (No
\* call and no segment takes them elsewhere; a free block may be taken again at
\* once.)  A zero window is excepted: it is probed for ever.
Ends(b) ==
    \/ b.state \in {"SYN_SENT", "SYN_RCVD", "LAST_ACK", "TIME_WAIT"}
    \/ b.state = "FIN_WAIT_2" /\ b.rxclosed
    \/ b.state \in {"FIN_WAIT_1", "CLOSING"} /\ b.output = "unacked"
SilentPeersAreFreed ==
    TimersReturn => \A p \in Pcb :
        (silent /\ Ends(tcp.pcb[p])) ~> ~Ends(tcp.pcb[p])

\* While a connection lasts, data its application would not take, and a FIN
\* behind them, are offered again, with or without a further segment of the peer.
RefusedIsOffered ==
    TimersReturn => \A p \in Pcb :
        LET kept == tcp.pcb[p].state \in Active /\ tcp.pcb[p].refused # "none"
        IN  kept ~> ~kept

\* The slow timer knows where in the list it is when it takes a block out,
\* which its assertions at lines 954 and 958 ask: the block noted as the one
\* before is, and with none noted the block is the first.
SlowTimerKnowsPlace ==
    Walking("slow") => IF timer.prev = NULL THEN timer.cur = First(tcp.active)
                                            ELSE timer.cur = Succ(tcp.active, timer.prev)
=============================================================================
