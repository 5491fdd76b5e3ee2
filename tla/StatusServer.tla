---------------------------- MODULE StatusServer ----------------------------
(***************************************************************************)
(* The status server of gps_wifi: main.cc, a state machine in an endless     *)
(* loop on the processor, over the WiFi library's TCP server, the alarm bit  *)
(* of the object detection and the GPS receiver.  A client that connects is  *)
(* told whether there is an alarm and, if so, where.                        *)
(*                                                                         *)
(* A pass of the loop samples the alarm, runs one state, and ends with       *)
(* periodicTasks, in which alone the network moves.  The library, the        *)
(* receiver and the detection are under "Environment".                      *)
(***************************************************************************)
EXTENDS Naturals, FiniteSets

CONSTANTS
    Socket,      \* rgTcpClient
    NULL,
    Interrupts   \* the build sets the receiver's interrupt up: not on a MicroBlaze

ASSUME SocketAssumption == NULL \notin Socket
ASSUME InterruptsAssumption == Interrupts \in BOOLEAN

VARIABLES
    state,        \* the state variable of main.cc
    at,           \* where the pass is: at its top, in the switch, or in WRITE;
                  \* "undefined" once the program has used a null reference
    alert,        \* the alarm as sampled at the top of the pass
    saw_alert,    \* an alarm was sampled and not reported yet
    send_gps,     \* the answer has a position
    answer,       \* what the answer says of an alarm
    ptcpClient,   \* the client being served, or the last one
    listening,    \* sockets of the server that wait for a connection
    pending,      \* sockets of the server with a connection nobody accepted yet
    connected,    \* sockets with a live connection
    suspicious,   \* bit object_susp_offset of the status register
    ping,         \* GPS.ping: a complete sentence has come
    since         \* history: the values of suspicious since the client was accepted

loop == <<state, at>>
report == <<alert, saw_alert, send_gps, answer>>
sockets == <<ptcpClient, listening, pending, connected>>
statusVars == <<loop, report, sockets, suspicious, ping, since>>

\* NONE, READ, EXIT and DONE are never entered.
States == {"CONNECT", "LISTEN", "ISLISTENING", "WAITISLISTENING", "AVAILABLECLIENT",
           "ACCEPTCLIENT", "WRITE", "CLOSE"}

StatusInit ==
    /\ state = "CONNECT" /\ at = "top"
    /\ alert = FALSE /\ saw_alert = FALSE /\ send_gps = FALSE /\ answer = "none"
    /\ ptcpClient = NULL /\ listening = {} /\ pending = {} /\ connected = {}
    /\ suspicious = FALSE /\ ping = FALSE /\ since = {}

-----------------------------------------------------------------------------
(* The loop                                                                 *)

In(s) == at = "switch" /\ state = s
GoTo(s) == state' = s /\ at' = "top"

\* faulty: an alarm sampled once is not sampled again
SampleAlarm_once ==
    /\ at = "top" /\ at' = "switch" /\ UNCHANGED state
    /\ alert' = (alert \/ suspicious)
    /\ saw_alert' = (saw_alert \/ alert')
    /\ UNCHANGED <<send_gps, answer, sockets, suspicious, ping, since>>

SampleAlarm ==
    /\ at = "top" /\ at' = "switch" /\ UNCHANGED state
    /\ alert' = suspicious
    /\ saw_alert' = (saw_alert \/ suspicious)
    /\ UNCHANGED <<send_gps, answer, sockets, suspicious, ping, since>>

\* The access point is asked again until it answers or the attempt fails.
Connect ==
    /\ In("CONNECT")
    /\ \E next \in {"LISTEN", "CLOSE", "CONNECT"} : GoTo(next)
    /\ UNCHANGED <<report, sockets, suspicious, ping, since>>

\* Without leave to listen no socket is added, and the next state is the same.
Listen ==
    /\ In("LISTEN") /\ GoTo("ISLISTENING")
    /\ listening' \in {listening, Socket}
    /\ UNCHANGED <<report, ptcpClient, pending, connected, suspicious, ping, since>>

\* faulty: one listening socket is not enough
IsListening_more_than_one ==
    /\ In("ISLISTENING")
    /\ GoTo(IF Cardinality(listening) > 1 THEN "AVAILABLECLIENT" ELSE "WAITISLISTENING")
    /\ UNCHANGED <<report, sockets, suspicious, ping, since>>

IsListening ==
    /\ In("ISLISTENING")
    /\ GoTo(IF listening # {} THEN "AVAILABLECLIENT" ELSE "WAITISLISTENING")
    /\ UNCHANGED <<report, sockets, suspicious, ping, since>>

WaitIsListening ==
    /\ In("WAITISLISTENING")
    /\ GoTo(IF listening # {} THEN "ISLISTENING" ELSE "WAITISLISTENING")
    /\ UNCHANGED <<report, sockets, suspicious, ping, since>>

AvailableClient ==
    /\ In("AVAILABLECLIENT")
    /\ GoTo(IF pending # {} THEN "ACCEPTCLIENT" ELSE "AVAILABLECLIENT")
    /\ UNCHANGED <<report, sockets, suspicious, ping, since>>

\* faulty: the accepted client's socket stays with the server
AcceptClient_kept ==
    /\ In("ACCEPTCLIENT")
    /\ ptcpClient' \in IF pending = {} THEN {NULL} ELSE pending
    /\ GoTo(IF ptcpClient' \in connected THEN "WRITE" ELSE "CLOSE")
    /\ since' = {suspicious}
    /\ UNCHANGED <<report, listening, pending, connected, suspicious, ping>>

\* The client may be gone, or its connection dropped, since it was announced.
AcceptClient ==
    /\ In("ACCEPTCLIENT")
    /\ ptcpClient' \in IF pending = {} THEN {NULL} ELSE pending
    /\ pending' = pending \ {ptcpClient'}
    /\ GoTo(IF ptcpClient' \in connected THEN "WRITE" ELSE "CLOSE")
    /\ since' = {suspicious}
    /\ UNCHANGED <<report, listening, connected, suspicious, ping>>

\* The answer is begun according to the sample.  For an alarm the receiver is
\* read once, which may complete a sentence, and then waited for.
BeginAnswer ==
    /\ In("WRITE") /\ ptcpClient \in connected
    /\ at' = IF alert THEN "gps" ELSE "send"
    /\ answer' = IF alert THEN "alarm" ELSE "nothing"
    /\ ping' \in IF alert THEN {ping, TRUE} ELSE {ping}
    /\ saw_alert' = (saw_alert /\ ~alert)
    /\ send_gps' = FALSE
    /\ UNCHANGED <<state, alert, sockets, suspicious, since>>

\* faulty: a lost client is waited for
ClientLost_stays ==
    /\ In("WRITE") /\ ptcpClient \notin connected
    /\ GoTo("WRITE") /\ send_gps' = FALSE
    /\ UNCHANGED <<alert, saw_alert, answer, sockets, suspicious, ping, since>>

ClientLost ==
    /\ In("WRITE") /\ ptcpClient \notin connected
    /\ GoTo("CLOSE") /\ send_gps' = FALSE
    /\ UNCHANGED <<alert, saw_alert, answer, sockets, suspicious, ping, since>>

\* The busy wait ends; the position goes into the answer if there is a fix.
\* The copy of the picture that follows is sent to nobody.
AppendPosition ==
    /\ at = "gps" /\ ping
    /\ at' = "send" /\ ping' = FALSE
    /\ send_gps' \in BOOLEAN
    /\ UNCHANGED <<state, alert, saw_alert, answer, sockets, suspicious, since>>

\* faulty: a state that was commented out is still entered
SendAnswer_then_read ==
    /\ at = "send" /\ GoTo("READ")
    /\ UNCHANGED <<report, sockets, suspicious, ping, since>>

SendAnswer ==
    /\ at = "send" /\ GoTo("CLOSE")
    /\ UNCHANGED <<report, sockets, suspicious, ping, since>>

\* faulty: a socket is closed and not handed back
Close_not_added ==
    /\ In("CLOSE") /\ ptcpClient # NULL /\ GoTo("ISLISTENING")
    /\ connected' = connected \ {ptcpClient}
    /\ UNCHANGED <<report, ptcpClient, listening, pending, suspicious, ping, since>>

Close ==
    /\ In("CLOSE") /\ ptcpClient # NULL /\ GoTo("ISLISTENING")
    /\ connected' = connected \ {ptcpClient}
    /\ listening' = listening \cup {ptcpClient}
    /\ UNCHANGED <<report, ptcpClient, pending, suspicious, ping, since>>

\* Without a client the server is handed *ptcpClient all the same, outside of
\* the check for NULL.  That is undefined: the server may turn it down, or the
\* program is lost.
CloseNothing ==
    /\ In("CLOSE") /\ ptcpClient = NULL
    /\ GoTo("ISLISTENING") \/ (at' = "undefined" /\ UNCHANGED state)
    /\ UNCHANGED <<report, sockets, suspicious, ping, since>>

Pass ==
    \/ SampleAlarm \/ Connect \/ Listen \/ IsListening \/ WaitIsListening
    \/ AvailableClient \/ AcceptClient \/ BeginAnswer \/ ClientLost
    \/ AppendPosition \/ SendAnswer \/ Close \/ CloseNothing

-----------------------------------------------------------------------------
(* Environment                                                              *)

\* periodicTasks: a client connects, a connection is lost.  Of a client that
\* was not accepted yet the server may notice, and listen again.
ClientConnects(s) ==
    /\ at = "top" /\ s \in listening
    /\ listening' = listening \ {s} /\ pending' = pending \cup {s}
    /\ connected' = connected \cup {s}
    /\ UNCHANGED <<loop, report, ptcpClient, suspicious, ping, since>>
ConnectionLost(s) ==
    /\ at = "top" /\ s \in connected
    /\ connected' = connected \ {s}
    /\ \/ UNCHANGED <<listening, pending>>
       \/ /\ s \in pending
          /\ pending' = pending \ {s} /\ listening' = listening \cup {s}
    /\ UNCHANGED <<loop, report, ptcpClient, suspicious, ping, since>>

\* The alarm comes and goes on its own clock, and so do the sentences of the
\* receiver, where its interrupt has been set up.
AlarmChanges ==
    /\ suspicious' = ~suspicious
    /\ since' = since \cup {suspicious'}
    /\ UNCHANGED <<loop, report, sockets, ping>>
SentenceComes ==
    /\ Interrupts /\ ~ping /\ ping' = TRUE
    /\ UNCHANGED <<loop, report, sockets, suspicious, since>>

Environment ==
    \/ \E s \in Socket : ClientConnects(s) \/ ConnectionLost(s)
    \/ AlarmChanges
    \/ SentenceComes

StatusNext == Pass \/ Environment

StatusSpec == StatusInit /\ [][StatusNext]_statusVars

\* The processor goes on.  Nothing is assumed of the receiver: on a MicroBlaze,
\* where this program runs, the set-up of its interrupt is commented out, and
\* elsewhere it may be without a signal or unplugged.
StatusLiveSpec == StatusSpec /\ WF_statusVars(Pass)

-----------------------------------------------------------------------------
(* Properties                                                               *)

StatusTypeOK ==
    /\ state \in States
    /\ at \in {"top", "switch", "gps", "send", "undefined"}
    /\ {alert, saw_alert, send_gps, suspicious, ping} \subseteq BOOLEAN
    /\ answer \in {"none", "alarm", "nothing"}
    /\ ptcpClient \in Socket \cup {NULL}
    /\ listening \subseteq Socket /\ pending \subseteq Socket /\ connected \subseteq Socket
    /\ since \subseteq BOOLEAN

\* A socket is never in two hands: it waits for a connection, or has one that
\* nobody accepted, or serves the client of the loop, which hands it back once.
Serving == IF state \in {"WRITE", "CLOSE"} THEN {ptcpClient} \ {NULL} ELSE {}
SocketInOneHand ==
    /\ listening \cap pending = {}
    /\ Serving \cap (listening \cup pending) = {}

\* None is lost either: from the moment the server listens, every socket is in
\* one of these hands, so that one client after another can be served for ever.
NoSocketLost == listening \cup pending \cup Serving \in {{}, Socket}

\* A client is told of an alarm only if there was one since it was accepted,
\* and that there is none only if there was none at some time since: no answer
\* is about what was before the client came.
AnswerIsAboutNow ==
    at \in {"gps", "send"} => /\ answer = "alarm" => TRUE \in since
                              /\ answer = "nothing" => FALSE \in since

\* Whatever happens to its connection or to the alarm, a client that was
\* accepted is let go, unless the answer waits for the receiver: that wait, in
\* which the network does not move either, is the only one there is.
ClientIsLetGo == (state = "WRITE") ~> (state = "ISLISTENING" \/ at = "gps")

\* A client that has connected is accepted, or gives up, as long as the server
\* has another of its two sockets to listen on and the program is not lost.
ClientIsAccepted ==
    (pending # {}) ~> \/ state = "ACCEPTCLIENT" \/ pending = {} \/ listening = {}
                      \/ at = "undefined"

\* README.md, line 5: "A remote user can request status updates", which tell
\* "whether an object has been detected" and the position.  An answer that
\* reports an alarm, once begun, is sent.
AlarmIsReported == (at = "gps") ~> (at = "send")

\* main.cc, line 506: "Close our tcpClient and go back to listening".  After a
\* client it served the server waits for the next, unless one of those that
\* have connected meanwhile goes away again.
GoesBackToListening ==
    (state = "CLOSE" /\ ptcpClient # NULL)
        ~> (state = "AVAILABLECLIENT" \/ ~(pending \subseteq connected))
=============================================================================
