---------------------------- MODULE StatusProofs ----------------------------
(***************************************************************************)
(* Proofs about the status server, for every set of sockets.                *)
(***************************************************************************)
EXTENDS StatusServer, TLAPS

\* Before the server listens no socket is in play, and the client of WRITE is
\* one of the sockets.
BeforeListening ==
    state \in {"CONNECT", "LISTEN"} =>
        listening = {} /\ pending = {} /\ ptcpClient = NULL
ClientIsSocket == state = "WRITE" => ptcpClient \in Socket

\* Within WRITE, what is sampled is a value the alarm had since the client came.
InWrite == at \in {"gps", "send"} => state = "WRITE"
SinceAccepted ==
    state = "WRITE" => /\ suspicious \in since
                       /\ at # "top" => alert \in since

StatusInv ==
    /\ StatusTypeOK
    /\ SocketInOneHand /\ NoSocketLost /\ BeforeListening /\ ClientIsSocket
    /\ InWrite /\ SinceAccepted /\ AnswerIsAboutNow

LEMMA StatusInitial == StatusInit => StatusInv
  BY DEF StatusInit, StatusInv, StatusTypeOK, States, SocketInOneHand, NoSocketLost,
         Serving, BeforeListening, ClientIsSocket, InWrite, SinceAccepted, AnswerIsAboutNow

\* A pass of the loop, by the part of it that a step is.
LEMMA PassKeepsInv ==
    ASSUME StatusInv, Pass
    PROVE  StatusInv'
<1> USE SocketAssumption
<1> USE DEF StatusInv, StatusTypeOK, States, SocketInOneHand, NoSocketLost, Serving,
            BeforeListening, ClientIsSocket, InWrite, SinceAccepted, AnswerIsAboutNow,
            In, GoTo, loop, report, sockets
\* Sampling is what makes the sample one of the values since the client came.
<1>1. CASE SampleAlarm
  BY <1>1 DEF SampleAlarm
\* Only LISTEN puts sockets into play, all of them.
<1>2. CASE Connect
  BY <1>2 DEF Connect
<1>3. CASE Listen
  BY <1>3 DEF Listen
<1>4. CASE IsListening
  BY <1>4 DEF IsListening
<1>5. CASE WaitIsListening
  BY <1>5 DEF WaitIsListening
<1>6. CASE AvailableClient
  BY <1>6 DEF AvailableClient
\* The client accepted passes from pending to the loop's hand; a client that is
\* not connected is handed back by CLOSE, and one that is not there is NULL.
<1>7. CASE AcceptClient
  <2>1. /\ state = "ACCEPTCLIENT" /\ at = "switch" /\ at' = "top"
        /\ since' = {suspicious} /\ listening' = listening /\ connected' = connected
        /\ pending' = pending \ {ptcpClient'}
        /\ UNCHANGED <<alert, saw_alert, send_gps, answer, suspicious, ping>>
    BY <1>7 DEF AcceptClient
  <2>2. CASE pending = {}
    <3>1. ptcpClient' = NULL /\ state' = "CLOSE"
      BY <1>7, <2>2 DEF AcceptClient
    <3> QED  BY <2>1, <2>2, <3>1
  <2>3. CASE pending # {}
    <3>1. /\ ptcpClient' \in pending
          /\ state' = IF ptcpClient' \in connected THEN "WRITE" ELSE "CLOSE"
      BY <1>7, <2>3 DEF AcceptClient
    <3> QED  BY <2>1, <3>1
  <2> QED  BY <2>2, <2>3
<1>8. CASE BeginAnswer
  BY <1>8 DEF BeginAnswer
<1>9. CASE ClientLost
  BY <1>9 DEF ClientLost
<1>10. CASE AppendPosition
  BY <1>10 DEF AppendPosition
<1>11. CASE SendAnswer
  BY <1>11 DEF SendAnswer
<1>12. CASE Close
  BY <1>12 DEF Close
\* Without a client no socket changes hands, whatever becomes of the program.
<1>13. CASE CloseNothing
  BY <1>13 DEF CloseNothing
<1> QED
  BY <1>1, <1>2, <1>3, <1>4, <1>5, <1>6, <1>7, <1>8, <1>9, <1>10, <1>11, <1>12, <1>13
     DEF Pass

\* The network moves sockets between the server's two hands only, and what it
\* does to the alarm is recorded in since.
LEMMA EnvironmentKeepsInv ==
    ASSUME StatusInv, Environment
    PROVE  StatusInv'
<1> USE SocketAssumption
<1> USE DEF StatusInv, StatusTypeOK, States, SocketInOneHand, NoSocketLost, Serving,
            BeforeListening, ClientIsSocket, InWrite, SinceAccepted, AnswerIsAboutNow,
            loop, report, sockets
<1>1. ASSUME NEW s \in Socket, ClientConnects(s)
      PROVE  StatusInv'
  BY <1>1 DEF ClientConnects
<1>2. ASSUME NEW s \in Socket, ConnectionLost(s)
      PROVE  StatusInv'
  BY <1>2 DEF ConnectionLost
<1>3. CASE AlarmChanges
  BY <1>3 DEF AlarmChanges
<1>4. CASE SentenceComes
  BY <1>4 DEF SentenceComes
<1> QED
  BY <1>1, <1>2, <1>3, <1>4 DEF Environment

LEMMA StutterKeepsInv ==
    ASSUME StatusInv, UNCHANGED statusVars
    PROVE  StatusInv'
  BY DEF StatusInv, StatusTypeOK, States, SocketInOneHand, NoSocketLost, Serving,
         BeforeListening, ClientIsSocket, InWrite, SinceAccepted, AnswerIsAboutNow,
         statusVars, loop, report, sockets

LEMMA StatusInvariant == StatusSpec => []StatusInv
<1>1. StatusInv /\ [StatusNext]_statusVars => StatusInv'
  BY PassKeepsInv, EnvironmentKeepsInv, StutterKeepsInv DEF StatusNext
<1> QED
  BY <1>1, StatusInitial, PTL DEF StatusSpec

-----------------------------------------------------------------------------
\* Every variable of the server and of its environment keeps its type.
THEOREM StatusTypeCorrect == StatusSpec => []StatusTypeOK
<1>1. StatusInv => StatusTypeOK
  BY DEF StatusInv
<1> QED
  BY <1>1, StatusInvariant, PTL

\* With any number of sockets, none is ever in two hands: a client that is
\* being served, or was lost, is not at the same time given a new connection.
THEOREM SocketsInOneHand == StatusSpec => []SocketInOneHand
<1>1. StatusInv => SocketInOneHand
  BY DEF StatusInv
<1> QED
  BY <1>1, StatusInvariant, PTL

\* None is ever lost: CLOSE hands back what ACCEPTCLIENT took.
THEOREM NoSocketIsLost == StatusSpec => []NoSocketLost
<1>1. StatusInv => NoSocketLost
  BY DEF StatusInv
<1> QED
  BY <1>1, StatusInvariant, PTL

\* No client is answered about an alarm that was over when it came.
THEOREM AnswersAreAboutNow == StatusSpec => []AnswerIsAboutNow
<1>1. StatusInv => AnswerIsAboutNow
  BY DEF StatusInv
<1> QED
  BY <1>1, StatusInvariant, PTL
=============================================================================
