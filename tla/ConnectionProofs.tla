-------------------------- MODULE ConnectionProofs --------------------------
(***************************************************************************)
(* Proofs about Connection: the type invariant, that an entry of           *)
(* Connections[] has one owner, and that its input buffer is never written *)
(* while the game thread reads it, for any number of clients, threads and  *)
(* packets, whether or not data may come early or the game may end.        *)
(*                                                                         *)
(* The properties follow from what the controls of the two threads say     *)
(* about the fields they share: who has the entry (Ownership), in which    *)
(* state it is before the game thread knows it (Phases), what is in the    *)
(* buffer while the communication thread has it (Filling) and while the    *)
(* game thread has it (HandedOver).  Each step preserves each of the parts *)
(* by what it changes; most of them change little.                         *)
(***************************************************************************)
EXTENDS Connection, TLAPS

\* A thread with one of these controls has the entry.
Using == {"connect", "mask", "receive", "login", "register", "call", "signal", "loop", "wait", "close"}

\* An entry in use has a thread that uses it or has just taken it, and only that
\* one does; the entry of one that has just taken it still has the name of
\* a thread that has ended.
Ownership ==
    /\ State \notin {"FREE", "ASSIGNED"} => ThreadID \in Client /\ cpc[ThreadID] \in Using
    /\ State = "ASSIGNED" => \E k \in Client : cpc[k] \in {"take", "connect"}
    /\ \A k \in Client : cpc[k] \in Using => ThreadID = k /\ State # "FREE"
    /\ \A k \in Client : cpc[k] = "take" =>
          /\ State = "ASSIGNED"
          /\ \A j \in Client : cpc[j] \notin Using /\ (cpc[j] = "take" => j = k)
    /\ ThreadID \in Client => cpc[ThreadID] \in Using \cup {"ended"}

\* Until the login is complete the state is the communication thread's.
Phases ==
    /\ \A k \in Client : cpc[k] = "connect" => State = "ASSIGNED"
    /\ \A k \in Client : cpc[k] \in {"mask", "login", "register"} => State = "CONNECTED"

\* Between reading a packet and call_game_thread the buffer is the thread's.
Filling ==
    \A k \in Client : cpc[k] \in {"login", "register", "call"} =>
        ~WaitingForACK /\ InData = <<k, read[k]>>

\* From then on it holds the packet that was handed over, and the game thread
\* parses it only if nobody can take the entry away.
HandedOver ==
    /\ \A k \in Client : cpc[k] \in Using \ {"connect"} /\ WaitingForACK => InData = <<k, handed[k]>>
    /\ gpc = "parse" => WaitingForACK /\ State \in Live

IInv == TypeOK /\ Ownership /\ Phases /\ Filling /\ HandedOver

-----------------------------------------------------------------------------
(* The parts of the type invariant, by the thread that changes them.       *)

EntryType ==
    /\ State \in {"FREE", "ASSIGNED", "CONNECTED", "DISCONNECTED"} \cup Live
    /\ WaitingForACK \in BOOLEAN /\ SigIOPending \in BOOLEAN /\ ConnectionIsOk \in BOOLEAN
    /\ ThreadID \in Client \cup {NoClient}
    /\ LoginTimer \in BOOLEAN
    /\ InData \in (Client \cup {NoClient}) \X (0 .. MaxPackets)

CommType ==
    /\ cpc \in [Client -> {"none", "assign", "take", "ended"} \cup Using]
    /\ started \in [Client -> BOOLEAN]

PendingType == pending \in [Client -> SUBSET Signal]

CountType ==
    /\ sent \in [Client -> 0 .. MaxPackets] /\ read \in [Client -> 0 .. MaxPackets]
    /\ handed \in [Client -> 0 .. MaxPackets] /\ parsed \in [Client -> 0 .. MaxPackets]
    /\ \A k \in Client : parsed[k] <= handed[k] /\ handed[k] <= read[k] /\ read[k] <= sent[k]

ThreadsType ==
    /\ peer \in [Client -> BOOLEAN]
    /\ apc \in {"test", "accept", "finish", "done"} /\ listening \in BOOLEAN
    /\ running \in BOOLEAN
    /\ gpc \in {"idle", "scan", "parse", "hangup", "ack", "acksignal",
                "logoutall", "hangupall", "lastround", "join", "exited"}
    /\ gnext \in {"idle", "ack", "join"}
    /\ usr1 \in BOOLEAN
    /\ timerError \in BOOLEAN

\* The parts together are the type invariant.
LEMMA TypeParts ==
  /\ TypeOK <=> EntryType /\ CommType /\ PendingType /\ CountType /\ ThreadsType
  BY DEF TypeOK, EntryType, CommType, PendingType, CountType, ThreadsType, Using

\* ... and so they are after a step.
LEMMA TypePartsNext ==
  /\ TypeOK' <=> EntryType' /\ CommType' /\ PendingType' /\ CountType' /\ ThreadsType'
  BY DEF TypeOK, EntryType, CommType, PendingType, CountType, ThreadsType, Using

\* A signal leaves the pending signals well-formed.
LEMMA KillType ==
  ASSUME PendingType, NEW k, NEW s \in Signal, Kill(k, s) \/ UNCHANGED pending
  PROVE  PendingType'
  BY DEF PendingType, Kill

\* The packet that the game thread parses is the last one handed over by the owner
\* of the entry.
LEMMA BufferFacts ==
  ASSUME IInv, gpc = "parse"
  PROVE  ThreadID \in Client /\ WaitingForACK /\ InData = <<ThreadID, handed[ThreadID]>>
<1>1. WaitingForACK /\ State \in Live
  BY DEF IInv, HandedOver
<1>2. ThreadID \in Client /\ cpc[ThreadID] \in Using /\ cpc[ThreadID] # "connect"
  BY <1>1 DEF IInv, Ownership, Phases, Live
<1> QED
  BY <1>1, <1>2 DEF IInv, HandedOver

\* The fields of the entry keep their types.
LEMMA EntryTypeStep == IInv /\ [Next]_vars => EntryType'
<1> SUFFICES ASSUME IInv, [Next]_vars PROVE EntryType'
  OBVIOUS
<1>1. EntryType /\ CommType /\ PendingType /\ CountType /\ ThreadsType
  BY TypeParts DEF IInv
<1>2. CASE UNCHANGED <<State, WaitingForACK, SigIOPending, ConnectionIsOk, ThreadID, LoginTimer, InData>>
  BY <1>2, <1>1 DEF EntryType
<1>3. ASSUME NEW k \in Client,
            Send(k) \/ Leave(k) \/ Accept(k) \/ TimerExpires(k) \/ CheckLogin(k) \/
                SignalGameThread(k) \/ LoopTest(k)
      PROVE  EntryType'
  BY <1>3, <1>2 DEF Send, entry, Leave, Accept, TimerExpires, CheckLogin, SignalGameThread,
      LoopTest
<1>4. CASE \/ UNCHANGED vars
            \/ AcceptorTest \/ AcceptFails \/ AcceptorEnds \/ OnSigUsr1 \/ Scan \/ Hangup \/
                AckSignal \/ LeaveLoop \/ HangupAll \/ CloseSocket \/ JoinAcceptor \/ OtherPacket
                \/ EndGame
  BY <1>4, <1>2 DEF vars, AcceptorTest, entry, AcceptFails, AcceptorEnds, OnSigUsr1, Scan, Hangup,
      AckSignal, LeaveLoop, HangupAll, CloseSocket, JoinAcceptor, OtherPacket, EndGame
<1>5. ASSUME NEW k \in Client, AssignFreeConnection(k) PROVE EntryType'
  BY <1>5, <1>1 DEF EntryType, AssignFreeConnection, TakeEntry, SetThread
<1>6. ASSUME NEW k \in Client, Connect(k) PROVE EntryType'
  BY <1>6, <1>1 DEF EntryType, Connect
<1>7. ASSUME NEW k \in Client, Start(k) PROVE EntryType'
  BY <1>7, <1>1 DEF EntryType, Start
<1>8. ASSUME NEW k \in Client, StartFails(k) PROVE EntryType'
  BY <1>8, <1>1 DEF EntryType, StartFails
<1>9. ASSUME NEW k \in Client, ReceiveLater(k) PROVE EntryType'
  BY <1>9, <1>1 DEF EntryType, CommType, ReceiveLater
<1>10. ASSUME NEW k \in Client, ReceiveNothing(k) PROVE EntryType'
  BY <1>10, <1>1 DEF EntryType, CommType, ReceiveNothing
<1>11. ASSUME NEW k \in Client, ReceiveFails(k) PROVE EntryType'
  BY <1>11, <1>1 DEF EntryType, CommType, ReceiveFails, CloseConnection
<1>12. ASSUME NEW k \in Client, ReceivePacket(k) PROVE EntryType'
  <2>1. read[k] + 1 \in 0 .. MaxPackets
    BY <1>12, <1>1, ConnectionAssumption DEF CountType, ReceivePacket, Unread
  <2>2. InData' \in (Client \cup {NoClient}) \X (0 .. MaxPackets)
    BY <1>12, <2>1 DEF ReceivePacket
  <2>3. LoginTimer' \in BOOLEAN
    BY <1>12, <1>1 DEF ReceivePacket, StopLoginTimer, EntryType
  <2> QED
    BY <1>12, <1>1, <2>2, <2>3 DEF ReceivePacket, EntryType
<1>13. ASSUME NEW k \in Client, Login(k) PROVE EntryType'
  BY <1>13, <1>1 DEF EntryType, Live, Login
<1>14. ASSUME NEW k \in Client, LoginFails(k) PROVE EntryType'
  BY <1>14, <1>1 DEF EntryType, CommType, LoginFails, CloseConnection
<1>15. ASSUME NEW k \in Client, CallGameThread(k) PROVE EntryType'
  BY <1>15, <1>1 DEF EntryType, CallGameThread
<1>16. ASSUME NEW k \in Client, OnHangup(k) PROVE EntryType'
  BY <1>16, <1>1 DEF EntryType, OnHangup, CloseConnection
<1>17. ASSUME NEW k \in Client, OnInput(k) PROVE EntryType'
  BY <1>17, <1>1 DEF EntryType, OnInput
<1>18. ASSUME NEW k \in Client, OnOutput(k) PROVE EntryType'
  BY <1>18, <1>1 DEF EntryType, OnOutput, CloseConnection
<1>19. ASSUME NEW k \in Client, OnAlarm(k) PROVE EntryType'
  BY <1>19, <1>1 DEF EntryType, OnAlarm, StopLoginTimer, CloseConnection
<1>20. ASSUME NEW k \in Client, FreeConnection(k) PROVE EntryType'
  BY <1>20, <1>1 DEF EntryType, FreeConnection
<1>21. CASE Parse
  BY <1>21, <1>1 DEF EntryType, Live, Parse, Disconnect
<1>22. CASE Ack
  BY <1>22, <1>1 DEF EntryType, Ack
<1>23. CASE LogoutAllPlayers
  BY <1>23, <1>1 DEF EntryType, Live, LogoutAllPlayers
<1>24. CASE LastRound
  BY <1>24, <1>1 DEF EntryType, Live, LastRound, Process, Disconnect, entry
<1>25. CASE Round(TRUE)
  BY <1>25, <1>1 DEF EntryType, Live, Round, Process, Disconnect
<1>26. CASE PlayerEvent
  BY <1>26, <1>1 DEF EntryType, Live, PlayerEvent
<1> QED
  BY <1>3, <1>4, <1>5, <1>6, <1>7, <1>8, <1>9, <1>10, <1>11, <1>12, <1>13, <1>14, <1>15, <1>16,
      <1>17, <1>18, <1>19, <1>20, <1>21, <1>22, <1>23, <1>24, <1>25, <1>26 DEF Next, AcceptorStep,
      CommStep, ReceiveCommand, GameStep

\* So do the controls of the communication threads.
LEMMA CommTypeStep == IInv /\ [Next]_vars => CommType'
<1> SUFFICES ASSUME IInv, [Next]_vars PROVE CommType'
  OBVIOUS
<1>1. EntryType /\ CommType /\ PendingType /\ CountType /\ ThreadsType
  BY TypeParts DEF IInv
<1>2. CASE UNCHANGED <<cpc, started>>
  BY <1>2, <1>1 DEF CommType
<1>3. ASSUME NEW k \in Client,
            Send(k) \/ Leave(k) \/ TimerExpires(k)
      PROVE  CommType'
  BY <1>3, <1>2 DEF Send, comm, Leave, TimerExpires
<1>4. CASE \/ UNCHANGED vars
            \/ AcceptorTest \/ AcceptFails \/ AcceptorEnds \/ OnSigUsr1 \/ Scan \/ Parse \/ Hangup
                \/ Ack \/ AckSignal \/ LeaveLoop \/ LogoutAllPlayers \/ HangupAll \/ LastRound \/
                CloseSocket \/ JoinAcceptor \/ Round(TRUE) \/ OtherPacket \/ PlayerEvent \/
                EndGame
  BY <1>4, <1>2 DEF vars, AcceptorTest, comm, AcceptFails, AcceptorEnds, OnSigUsr1, Scan, Parse,
      Disconnect, Hangup, Ack, AckSignal, LeaveLoop, LogoutAllPlayers, HangupAll, LastRound,
      Process, CloseSocket, JoinAcceptor, Round, OtherPacket, PlayerEvent, EndGame
<1>5. ASSUME NEW k \in Client, Accept(k) PROVE CommType'
  BY <1>5, <1>1 DEF CommType, Using, Accept, Goto
<1>6. ASSUME NEW k \in Client, AssignFreeConnection(k) PROVE CommType'
  BY <1>6, <1>1 DEF CommType, Using, AssignFreeConnection, TakeEntry, SetThread, Goto
<1>7. ASSUME NEW k \in Client, Connect(k) PROVE CommType'
  BY <1>7, <1>1 DEF CommType, Using, Connect, Goto
<1>8. ASSUME NEW k \in Client, Start(k) PROVE CommType'
  BY <1>8, <1>1 DEF CommType, Using, Start, Goto
<1>9. ASSUME NEW k \in Client, StartFails(k) PROVE CommType'
  BY <1>9, <1>1 DEF CommType, Using, StartFails, Goto
<1>10. ASSUME NEW k \in Client, ReceiveLater(k) PROVE CommType'
  BY <1>10, <1>1 DEF CommType, Using, ReceiveLater, Return, Goto
<1>11. ASSUME NEW k \in Client, ReceiveNothing(k) PROVE CommType'
  BY <1>11, <1>1 DEF CommType, Using, ReceiveNothing, Return, Goto
<1>12. ASSUME NEW k \in Client, ReceiveFails(k) PROVE CommType'
  BY <1>12, <1>1 DEF CommType, Using, ReceiveFails, Return, Goto
<1>13. ASSUME NEW k \in Client, ReceivePacket(k) PROVE CommType'
  BY <1>13, <1>1 DEF CommType, Using, ReceivePacket, Goto
<1>14. ASSUME NEW k \in Client, CheckLogin(k) PROVE CommType'
  BY <1>14, <1>1 DEF CommType, Using, CheckLogin, Goto
<1>15. ASSUME NEW k \in Client, Login(k) PROVE CommType'
  BY <1>15, <1>1 DEF CommType, Using, Login, Goto
<1>16. ASSUME NEW k \in Client, LoginFails(k) PROVE CommType'
  BY <1>16, <1>1 DEF CommType, Using, LoginFails, Goto
<1>17. ASSUME NEW k \in Client, CallGameThread(k) PROVE CommType'
  BY <1>17, <1>1 DEF CommType, Using, CallGameThread, Goto
<1>18. ASSUME NEW k \in Client, SignalGameThread(k) PROVE CommType'
  BY <1>18, <1>1 DEF CommType, Using, SignalGameThread, Goto
<1>19. ASSUME NEW k \in Client, LoopTest(k) PROVE CommType'
  BY <1>19, <1>1 DEF CommType, Using, LoopTest, Goto
<1>20. ASSUME NEW k \in Client, OnHangup(k) PROVE CommType'
  BY <1>20, <1>1 DEF CommType, Using, OnHangup, Fetch, Goto
<1>21. ASSUME NEW k \in Client, OnInput(k) PROVE CommType'
  BY <1>21, <1>1 DEF CommType, Using, OnInput, Fetch, Goto
<1>22. ASSUME NEW k \in Client, OnOutput(k) PROVE CommType'
  BY <1>22, <1>1 DEF CommType, Using, OnOutput, Fetch, Goto
<1>23. ASSUME NEW k \in Client, OnAlarm(k) PROVE CommType'
  BY <1>23, <1>1 DEF CommType, Using, OnAlarm, Fetch, Goto
<1>24. ASSUME NEW k \in Client, FreeConnection(k) PROVE CommType'
  BY <1>24, <1>1 DEF CommType, Using, FreeConnection, Goto
<1> QED
  BY <1>3, <1>4, <1>5, <1>6, <1>7, <1>8, <1>9, <1>10, <1>11, <1>12, <1>13, <1>14, <1>15, <1>16,
      <1>17, <1>18, <1>19, <1>20, <1>21, <1>22, <1>23, <1>24 DEF Next, AcceptorStep, CommStep,
      ReceiveCommand, GameStep

\* So do the pending signals.
LEMMA PendingTypeStep == IInv /\ [Next]_vars => PendingType'
<1> SUFFICES ASSUME IInv, [Next]_vars PROVE PendingType'
  OBVIOUS
<1>1. EntryType /\ CommType /\ PendingType /\ CountType /\ ThreadsType
  BY TypeParts DEF IInv
<1>2. CASE UNCHANGED <<pending>>
  BY <1>2, <1>1 DEF PendingType
<1>3. ASSUME NEW k \in Client,
            Accept(k) \/ AssignFreeConnection(k) \/ Connect(k) \/ Start(k) \/ StartFails(k) \/
                ReceiveLater(k) \/ ReceiveNothing(k) \/ ReceiveFails(k) \/ ReceivePacket(k) \/
                CheckLogin(k) \/ Login(k) \/ LoginFails(k) \/ CallGameThread(k) \/
                SignalGameThread(k) \/ LoopTest(k)
      PROVE  PendingType'
  BY <1>3, <1>2 DEF Accept, AssignFreeConnection, TakeEntry, SetThread, Connect, Start, StartFails, ReceiveLater,
      ReceiveNothing, ReceiveFails, ReceivePacket, CheckLogin, Login, LoginFails, CallGameThread,
      SignalGameThread, LoopTest
<1>4. CASE \/ UNCHANGED vars
            \/ AcceptorTest \/ AcceptFails \/ AcceptorEnds \/ OnSigUsr1 \/ Scan \/ Parse \/ Ack \/
                LeaveLoop \/ LogoutAllPlayers \/ LastRound \/ CloseSocket \/ JoinAcceptor \/
                Round(TRUE) \/ OtherPacket \/ EndGame
  BY <1>4, <1>2 DEF vars, AcceptorTest, AcceptFails, AcceptorEnds, OnSigUsr1, Scan, Parse,
      Disconnect, Ack, LeaveLoop, LogoutAllPlayers, LastRound, Process, CloseSocket, JoinAcceptor,
      Round, OtherPacket, EndGame
<1>5. ASSUME NEW k \in Client, Send(k) PROVE PendingType'
  BY <1>5, <1>1, KillType DEF Signal, Send
<1>6. ASSUME NEW k \in Client, Leave(k) PROVE PendingType'
  BY <1>6, <1>1, KillType DEF Signal, Leave
<1>7. ASSUME NEW k \in Client, TimerExpires(k) PROVE PendingType'
  BY <1>7, <1>1, KillType DEF Signal, TimerExpires
<1>8. ASSUME NEW k \in Client, OnHangup(k) PROVE PendingType'
  BY <1>8, <1>1 DEF PendingType, OnHangup, Fetch
<1>9. ASSUME NEW k \in Client, OnInput(k) PROVE PendingType'
  BY <1>9, <1>1 DEF PendingType, OnInput, Fetch
<1>10. ASSUME NEW k \in Client, OnOutput(k) PROVE PendingType'
  BY <1>10, <1>1 DEF PendingType, OnOutput, Fetch
<1>11. ASSUME NEW k \in Client, OnAlarm(k) PROVE PendingType'
  BY <1>11, <1>1 DEF PendingType, OnAlarm, Fetch
<1>12. ASSUME NEW k \in Client, FreeConnection(k) PROVE PendingType'
  BY <1>12, <1>1 DEF PendingType, FreeConnection
<1>13. CASE Hangup
  BY <1>13, <1>1, KillType DEF Signal, Hangup
<1>14. CASE AckSignal
  BY <1>14, <1>1, KillType DEF Signal, AckSignal
<1>15. CASE HangupAll
  BY <1>15, <1>1, KillType DEF Signal, HangupAll
<1>16. CASE PlayerEvent
  BY <1>16, <1>1, KillType DEF Signal, PlayerEvent
<1> QED
  BY <1>3, <1>4, <1>5, <1>6, <1>7, <1>8, <1>9, <1>10, <1>11, <1>12, <1>13, <1>14, <1>15, <1>16 DEF
      Next, AcceptorStep, CommStep, ReceiveCommand, GameStep

\* The packets are counted in order: parsed, handed over, read, sent.
LEMMA CountTypeStep == IInv /\ [Next]_vars => CountType'
<1> SUFFICES ASSUME IInv, [Next]_vars PROVE CountType'
  OBVIOUS
<1>1. EntryType /\ CommType /\ PendingType /\ CountType /\ ThreadsType
  BY TypeParts DEF IInv
<1>2. Filling /\ HandedOver /\ Ownership /\ Phases
  BY DEF IInv
<1>3. CASE UNCHANGED <<sent, read, handed, parsed>>
  BY <1>3, <1>1 DEF CountType
<1>4. ASSUME NEW k \in Client,
            Leave(k) \/ Accept(k) \/ TimerExpires(k) \/ AssignFreeConnection(k) \/ Connect(k) \/
                Start(k) \/ StartFails(k) \/ ReceiveLater(k) \/ ReceiveNothing(k) \/ CheckLogin(k)
                \/ Login(k) \/ LoginFails(k) \/ SignalGameThread(k) \/ LoopTest(k) \/ OnHangup(k)
                \/ OnInput(k) \/ OnOutput(k) \/ OnAlarm(k) \/ FreeConnection(k)
      PROVE  CountType'
  BY <1>4, <1>3 DEF Leave, history, Accept, sockets, TimerExpires, AssignFreeConnection, TakeEntry, SetThread, Connect,
      Start, StartFails, ReceiveLater, ReceiveNothing, CheckLogin, Login, LoginFails,
      SignalGameThread, LoopTest, OnHangup, OnInput, OnOutput, OnAlarm, FreeConnection
<1>5. CASE \/ UNCHANGED vars
            \/ AcceptorTest \/ AcceptFails \/ AcceptorEnds \/ OnSigUsr1 \/ Scan \/ Hangup \/ Ack
                \/ AckSignal \/ LeaveLoop \/ LogoutAllPlayers \/ HangupAll \/ LastRound \/
                CloseSocket \/ JoinAcceptor \/ Round(TRUE) \/ OtherPacket \/ PlayerEvent \/
                EndGame
  BY <1>5, <1>3 DEF vars, AcceptorTest, sockets, history, AcceptFails, AcceptorEnds, OnSigUsr1,
      Scan, Hangup, Ack, AckSignal, LeaveLoop, LogoutAllPlayers, HangupAll, LastRound, Process,
      Disconnect, CloseSocket, JoinAcceptor, Round, OtherPacket, PlayerEvent, EndGame
<1>6. ASSUME NEW k \in Client, Send(k) PROVE CountType'
  BY <1>6, <1>1, ConnectionAssumption DEF CountType, Send, history
<1>7. ASSUME NEW k \in Client, ReceiveFails(k) PROVE CountType'
  BY <1>7, <1>1, ConnectionAssumption DEF CountType, Unread, ReceiveFails, history
<1>8. ASSUME NEW k \in Client, ReceivePacket(k) PROVE CountType'
  BY <1>8, <1>1, ConnectionAssumption DEF CountType, ReceivePacket, Unread
<1>9. ASSUME NEW k \in Client, CallGameThread(k) PROVE CountType'
  BY <1>9, <1>1, <1>2 DEF CountType, Filling, Goto, CallGameThread, sockets
<1>10. CASE Parse
  BY <1>10, <1>1, <1>2, BufferFacts DEF CountType, Parse, Disconnect, sockets
<1> QED
  BY <1>4, <1>5, <1>6, <1>7, <1>8, <1>9, <1>10 DEF Next, AcceptorStep, CommStep, ReceiveCommand,
      GameStep

\* So are the other threads.
LEMMA ThreadsTypeStep == IInv /\ [Next]_vars => ThreadsType'
<1> SUFFICES ASSUME IInv, [Next]_vars PROVE ThreadsType'
  OBVIOUS
<1>1. EntryType /\ CommType /\ PendingType /\ CountType /\ ThreadsType
  BY TypeParts DEF IInv
<1>2. CASE UNCHANGED <<peer, apc, listening, running, gpc, gnext, usr1, timerError>>
  BY <1>2, <1>1 DEF ThreadsType
<1>3. ASSUME NEW k \in Client,
            Send(k) \/ TimerExpires(k) \/ AssignFreeConnection(k) \/ Connect(k) \/ Start(k) \/
                StartFails(k) \/ ReceiveLater(k) \/ ReceiveNothing(k) \/ ReceiveFails(k) \/
                CheckLogin(k) \/ Login(k) \/ LoginFails(k) \/ CallGameThread(k) \/ LoopTest(k) \/
                OnHangup(k) \/ OnInput(k) \/ OnOutput(k) \/ FreeConnection(k)
      PROVE  ThreadsType'
  BY <1>3, <1>2 DEF Send, acceptor, game, history, TimerExpires, sockets, AssignFreeConnection, TakeEntry, SetThread,
      Connect, Start, StartFails, ReceiveLater, ReceiveNothing, ReceiveFails, CheckLogin, Login,
      LoginFails, CallGameThread, LoopTest, OnHangup, OnInput, OnOutput, FreeConnection
<1>4. CASE \/ UNCHANGED vars
            \/ PlayerEvent
  BY <1>4, <1>2 DEF vars, PlayerEvent, sockets, acceptor, game, history
<1>5. ASSUME NEW k \in Client, Leave(k) PROVE ThreadsType'
  BY <1>5, <1>1 DEF ThreadsType, Leave, acceptor, game, history
<1>6. ASSUME NEW k \in Client, Accept(k) PROVE ThreadsType'
  BY <1>6, <1>1 DEF ThreadsType, Accept, sockets, game, history
<1>7. ASSUME NEW k \in Client, ReceivePacket(k) PROVE ThreadsType'
  <2>1. timerError' \in {timerError, timerError \/ ~LoginTimer}
        /\ UNCHANGED <<peer, apc, listening, running, gpc, gnext, usr1>>
    BY <1>7 DEF ReceivePacket, StopLoginTimer, acceptor, game
  <2>2. timerError' \in BOOLEAN
    BY <2>1, <1>1 DEF ThreadsType
  <2> QED
    BY <2>1, <2>2, <1>1 DEF ThreadsType
<1>8. ASSUME NEW k \in Client, SignalGameThread(k) PROVE ThreadsType'
  BY <1>8, <1>1 DEF ThreadsType, SignalGameThread, sockets, acceptor, game, history
<1>9. ASSUME NEW k \in Client, OnAlarm(k) PROVE ThreadsType'
  BY <1>9, <1>1 DEF ThreadsType, OnAlarm, StopLoginTimer, sockets, acceptor, game
<1>10. CASE AcceptorTest
  BY <1>10, <1>1 DEF ThreadsType, AcceptorTest, sockets, game, history
<1>11. CASE AcceptFails
  BY <1>11, <1>1 DEF ThreadsType, AcceptFails, sockets, game, history
<1>12. CASE AcceptorEnds
  BY <1>12, <1>1 DEF ThreadsType, AcceptorEnds, sockets, game, history
<1>13. CASE OnSigUsr1
  BY <1>13, <1>1 DEF ThreadsType, OnSigUsr1, sockets, acceptor, history
<1>14. CASE Scan
  BY <1>14, <1>1 DEF ThreadsType, Scan, sockets, acceptor, history
<1>15. CASE Parse
  BY <1>15, <1>1 DEF ThreadsType, Parse, Disconnect, sockets, acceptor
<1>16. CASE Hangup
  BY <1>16, <1>1 DEF ThreadsType, Hangup, sockets, acceptor, history
<1>17. CASE Ack
  BY <1>17, <1>1 DEF ThreadsType, Ack, sockets, acceptor, history
<1>18. CASE AckSignal
  BY <1>18, <1>1 DEF ThreadsType, AckSignal, sockets, acceptor, history
<1>19. CASE LeaveLoop
  BY <1>19, <1>1 DEF ThreadsType, LeaveLoop, sockets, acceptor, history
<1>20. CASE LogoutAllPlayers
  BY <1>20, <1>1 DEF ThreadsType, LogoutAllPlayers, sockets, acceptor, history
<1>21. CASE HangupAll
  BY <1>21, <1>1 DEF ThreadsType, HangupAll, sockets, acceptor, history
<1>22. CASE LastRound
  BY <1>22, <1>1 DEF ThreadsType, LastRound, Process, Disconnect, sockets, acceptor, history
<1>23. CASE CloseSocket
  BY <1>23, <1>1 DEF ThreadsType, CloseSocket, sockets, game, history
<1>24. CASE JoinAcceptor
  BY <1>24, <1>1 DEF ThreadsType, JoinAcceptor, sockets, acceptor, history
<1>25. CASE Round(TRUE)
  BY <1>25, <1>1 DEF ThreadsType, Round, Process, Disconnect, sockets, acceptor, history
<1>26. CASE OtherPacket
  BY <1>26, <1>1 DEF ThreadsType, OtherPacket, sockets, acceptor, game, history
<1>27. CASE EndGame
  BY <1>27, <1>1 DEF ThreadsType, EndGame, sockets, acceptor, history
<1> QED
  BY <1>3, <1>4, <1>5, <1>6, <1>7, <1>8, <1>9, <1>10, <1>11, <1>12, <1>13, <1>14, <1>15, <1>16,
      <1>17, <1>18, <1>19, <1>20, <1>21, <1>22, <1>23, <1>24, <1>25, <1>26, <1>27 DEF Next,
      AcceptorStep, CommStep, ReceiveCommand, GameStep

\* The entry keeps its one owner.
LEMMA OwnershipStep == IInv /\ [Next]_vars => Ownership'
<1> SUFFICES ASSUME IInv, [Next]_vars PROVE Ownership'
  OBVIOUS
<1>1. EntryType /\ CommType /\ PendingType /\ CountType /\ ThreadsType
  BY TypeParts DEF IInv
<1>2. Ownership /\ Phases /\ Filling /\ HandedOver
  BY DEF IInv
<1>3. CASE UNCHANGED <<State, ThreadID, cpc>>
  BY <1>3, <1>2 DEF Ownership
<1>4. ASSUME NEW k \in Client,
            Send(k) \/ Leave(k) \/ TimerExpires(k)
      PROVE  Ownership'
  BY <1>4, <1>3 DEF Send, entry, comm, Leave, TimerExpires
<1>5. CASE \/ UNCHANGED vars
            \/ AcceptorTest \/ AcceptFails \/ AcceptorEnds \/ OnSigUsr1 \/ Scan \/ Hangup \/ Ack
                \/ AckSignal \/ LeaveLoop \/ HangupAll \/ CloseSocket \/ JoinAcceptor \/
                OtherPacket \/ EndGame
  BY <1>5, <1>3 DEF vars, AcceptorTest, entry, comm, AcceptFails, AcceptorEnds, OnSigUsr1, Scan,
      Hangup, Ack, AckSignal, LeaveLoop, HangupAll, CloseSocket, JoinAcceptor, OtherPacket,
      EndGame
<1>6. ASSUME NEW k \in Client, Accept(k) PROVE Ownership'
  BY <1>6, <1>1, <1>2 DEF Ownership, Phases, HandedOver, EntryType, CommType, Using, Live, InGame,
      Accept, Goto, entry
<1>7. ASSUME NEW k \in Client, AssignFreeConnection(k) PROVE Ownership'
  BY <1>7, <1>1, <1>2 DEF Ownership, Phases, HandedOver, EntryType, CommType, Using, Live, InGame,
      AssignFreeConnection, TakeEntry, SetThread, Goto
<1>8. ASSUME NEW k \in Client, Connect(k) PROVE Ownership'
  BY <1>8, <1>1, <1>2 DEF Ownership, Phases, HandedOver, EntryType, CommType, Using, Live, InGame,
      Connect, Goto
<1>9. ASSUME NEW k \in Client, Start(k) PROVE Ownership'
  BY <1>9, <1>1, <1>2 DEF Ownership, Phases, HandedOver, EntryType, CommType, Using, Live, InGame,
      Start, Goto
<1>10. ASSUME NEW k \in Client, StartFails(k) PROVE Ownership'
  BY <1>10, <1>1, <1>2 DEF Ownership, Phases, HandedOver, EntryType, CommType, Using, Live,
      InGame, StartFails, Goto
<1>11. ASSUME NEW k \in Client, ReceiveLater(k) PROVE Ownership'
  BY <1>11, <1>1, <1>2 DEF Ownership, Phases, HandedOver, EntryType, CommType, Using, Live,
      InGame, ReceiveLater, Return, Goto
<1>12. ASSUME NEW k \in Client, ReceiveNothing(k) PROVE Ownership'
  BY <1>12, <1>1, <1>2 DEF Ownership, Phases, HandedOver, EntryType, CommType, Using, Live,
      InGame, ReceiveNothing, Return, Goto
<1>13. ASSUME NEW k \in Client, ReceiveFails(k) PROVE Ownership'
  BY <1>13, <1>1, <1>2 DEF Ownership, Phases, HandedOver, EntryType, CommType, Using, Live,
      InGame, ReceiveFails, Return, Goto, CloseConnection
<1>14. ASSUME NEW k \in Client, ReceivePacket(k) PROVE Ownership'
  BY <1>14, <1>1, <1>2 DEF Ownership, Phases, HandedOver, EntryType, CommType, Using, Live,
      InGame, ReceivePacket, Goto
<1>15. ASSUME NEW k \in Client, CheckLogin(k) PROVE Ownership'
  BY <1>15, <1>1, <1>2 DEF Ownership, Phases, HandedOver, EntryType, CommType, Using, Live,
      InGame, CheckLogin, Goto, entry
<1>16. ASSUME NEW k \in Client, Login(k) PROVE Ownership'
  BY <1>16, <1>1, <1>2 DEF Ownership, Phases, HandedOver, EntryType, CommType, Using, Live,
      InGame, Login, Goto
<1>17. ASSUME NEW k \in Client, LoginFails(k) PROVE Ownership'
  BY <1>17, <1>1, <1>2 DEF Ownership, Phases, HandedOver, EntryType, CommType, Using, Live,
      InGame, LoginFails, Goto, CloseConnection
<1>18. ASSUME NEW k \in Client, CallGameThread(k) PROVE Ownership'
  BY <1>18, <1>1, <1>2 DEF Ownership, Phases, HandedOver, EntryType, CommType, Using, Live,
      InGame, CallGameThread, Goto
<1>19. ASSUME NEW k \in Client, SignalGameThread(k) PROVE Ownership'
  BY <1>19, <1>1, <1>2 DEF Ownership, Phases, HandedOver, EntryType, CommType, Using, Live,
      InGame, SignalGameThread, Goto, entry
<1>20. ASSUME NEW k \in Client, LoopTest(k) PROVE Ownership'
  BY <1>20, <1>1, <1>2 DEF Ownership, Phases, HandedOver, EntryType, CommType, Using, Live,
      InGame, LoopTest, Goto, entry
<1>21. ASSUME NEW k \in Client, OnHangup(k) PROVE Ownership'
  BY <1>21, <1>1, <1>2 DEF Ownership, Phases, HandedOver, EntryType, CommType, Using, Live,
      InGame, OnHangup, Fetch, Goto, CloseConnection
<1>22. ASSUME NEW k \in Client, OnInput(k) PROVE Ownership'
  BY <1>22, <1>1, <1>2 DEF Ownership, Phases, HandedOver, EntryType, CommType, Using, Live,
      InGame, OnInput, Fetch, Goto
<1>23. ASSUME NEW k \in Client, OnOutput(k) PROVE Ownership'
  BY <1>23, <1>1, <1>2 DEF Ownership, Phases, HandedOver, EntryType, CommType, Using, Live,
      InGame, OnOutput, Fetch, Goto, CloseConnection
<1>24. ASSUME NEW k \in Client, OnAlarm(k) PROVE Ownership'
  BY <1>24, <1>1, <1>2 DEF Ownership, Phases, HandedOver, EntryType, CommType, Using, Live,
      InGame, OnAlarm, Fetch, Goto, CloseConnection
<1>25. ASSUME NEW k \in Client, FreeConnection(k) PROVE Ownership'
  BY <1>25, <1>1, <1>2 DEF Ownership, Phases, HandedOver, EntryType, CommType, Using, Live,
      InGame, FreeConnection, Goto
<1>26. CASE Parse
  BY <1>26, <1>1, <1>2 DEF Ownership, Phases, HandedOver, EntryType, CommType, Using, Live,
      InGame, Parse, Disconnect, comm
<1>27. CASE LogoutAllPlayers
  BY <1>27, <1>1, <1>2 DEF Ownership, Phases, HandedOver, EntryType, CommType, Using, Live,
      InGame, LogoutAllPlayers, comm
<1>28. CASE LastRound
  BY <1>28, <1>1, <1>2 DEF Ownership, Phases, HandedOver, EntryType, CommType, Using, Live,
      InGame, LastRound, Process, Disconnect, entry, comm
<1>29. CASE Round(TRUE)
  BY <1>29, <1>1, <1>2 DEF Ownership, Phases, HandedOver, EntryType, CommType, Using, Live,
      InGame, Round, Process, Disconnect, comm
<1>30. CASE PlayerEvent
  BY <1>30, <1>1, <1>2 DEF Ownership, Phases, HandedOver, EntryType, CommType, Using, Live,
      InGame, PlayerEvent, comm
<1> QED
  BY <1>4, <1>5, <1>6, <1>7, <1>8, <1>9, <1>10, <1>11, <1>12, <1>13, <1>14, <1>15, <1>16, <1>17,
      <1>18, <1>19, <1>20, <1>21, <1>22, <1>23, <1>24, <1>25, <1>26, <1>27, <1>28, <1>29, <1>30
      DEF Next, AcceptorStep, CommStep, ReceiveCommand, GameStep

\* The state follows the control of the owner.
LEMMA PhasesStep == IInv /\ [Next]_vars => Phases'
<1> SUFFICES ASSUME IInv, [Next]_vars PROVE Phases'
  OBVIOUS
<1>1. EntryType /\ CommType /\ PendingType /\ CountType /\ ThreadsType
  BY TypeParts DEF IInv
<1>2. Ownership /\ Phases /\ Filling /\ HandedOver
  BY DEF IInv
<1>3. CASE UNCHANGED <<State, cpc>>
  BY <1>3, <1>2 DEF Phases
<1>4. ASSUME NEW k \in Client,
            Send(k) \/ Leave(k) \/ TimerExpires(k)
      PROVE  Phases'
  BY <1>4, <1>3 DEF Send, entry, comm, Leave, TimerExpires
<1>5. CASE \/ UNCHANGED vars
            \/ AcceptorTest \/ AcceptFails \/ AcceptorEnds \/ OnSigUsr1 \/ Scan \/ Hangup \/ Ack
                \/ AckSignal \/ LeaveLoop \/ HangupAll \/ CloseSocket \/ JoinAcceptor \/
                OtherPacket \/ EndGame
  BY <1>5, <1>3 DEF vars, AcceptorTest, entry, comm, AcceptFails, AcceptorEnds, OnSigUsr1, Scan,
      Hangup, Ack, AckSignal, LeaveLoop, HangupAll, CloseSocket, JoinAcceptor, OtherPacket,
      EndGame
<1>6. ASSUME NEW k \in Client, Accept(k) PROVE Phases'
  BY <1>6, <1>1, <1>2 DEF Ownership, Phases, HandedOver, EntryType, CommType, Using, Live, InGame,
      Accept, Goto, entry
<1>7. ASSUME NEW k \in Client, AssignFreeConnection(k) PROVE Phases'
  BY <1>7, <1>1, <1>2 DEF Ownership, Phases, HandedOver, EntryType, CommType, Using, Live, InGame,
      AssignFreeConnection, TakeEntry, SetThread, Goto
<1>8. ASSUME NEW k \in Client, Connect(k) PROVE Phases'
  BY <1>8, <1>1, <1>2 DEF Ownership, Phases, HandedOver, EntryType, CommType, Using, Live, InGame,
      Connect, Goto
<1>9. ASSUME NEW k \in Client, Start(k) PROVE Phases'
  BY <1>9, <1>1, <1>2 DEF Ownership, Phases, HandedOver, EntryType, CommType, Using, Live, InGame,
      Start, Goto
<1>10. ASSUME NEW k \in Client, StartFails(k) PROVE Phases'
  BY <1>10, <1>1, <1>2 DEF Ownership, Phases, HandedOver, EntryType, CommType, Using, Live,
      InGame, StartFails, Goto
<1>11. ASSUME NEW k \in Client, ReceiveLater(k) PROVE Phases'
  BY <1>11, <1>1, <1>2 DEF Ownership, Phases, HandedOver, EntryType, CommType, Using, Live,
      InGame, ReceiveLater, Return, Goto
<1>12. ASSUME NEW k \in Client, ReceiveNothing(k) PROVE Phases'
  BY <1>12, <1>1, <1>2 DEF Ownership, Phases, HandedOver, EntryType, CommType, Using, Live,
      InGame, ReceiveNothing, Return, Goto
<1>13. ASSUME NEW k \in Client, ReceiveFails(k) PROVE Phases'
  BY <1>13, <1>1, <1>2 DEF Ownership, Phases, HandedOver, EntryType, CommType, Using, Live,
      InGame, ReceiveFails, Return, Goto, CloseConnection
<1>14. ASSUME NEW k \in Client, ReceivePacket(k) PROVE Phases'
  BY <1>14, <1>1, <1>2 DEF Ownership, Phases, HandedOver, EntryType, CommType, Using, Live,
      InGame, ReceivePacket, Goto
<1>15. ASSUME NEW k \in Client, CheckLogin(k) PROVE Phases'
  BY <1>15, <1>1, <1>2 DEF Ownership, Phases, HandedOver, EntryType, CommType, Using, Live,
      InGame, CheckLogin, Goto, entry
<1>16. ASSUME NEW k \in Client, Login(k) PROVE Phases'
  BY <1>16, <1>1, <1>2 DEF Ownership, Phases, HandedOver, EntryType, CommType, Using, Live,
      InGame, Login, Goto
<1>17. ASSUME NEW k \in Client, LoginFails(k) PROVE Phases'
  BY <1>17, <1>1, <1>2 DEF Ownership, Phases, HandedOver, EntryType, CommType, Using, Live,
      InGame, LoginFails, Goto, CloseConnection
<1>18. ASSUME NEW k \in Client, CallGameThread(k) PROVE Phases'
  BY <1>18, <1>1, <1>2 DEF Ownership, Phases, HandedOver, EntryType, CommType, Using, Live,
      InGame, CallGameThread, Goto
<1>19. ASSUME NEW k \in Client, SignalGameThread(k) PROVE Phases'
  BY <1>19, <1>1, <1>2 DEF Ownership, Phases, HandedOver, EntryType, CommType, Using, Live,
      InGame, SignalGameThread, Goto, entry
<1>20. ASSUME NEW k \in Client, LoopTest(k) PROVE Phases'
  BY <1>20, <1>1, <1>2 DEF Ownership, Phases, HandedOver, EntryType, CommType, Using, Live,
      InGame, LoopTest, Goto, entry
<1>21. ASSUME NEW k \in Client, OnHangup(k) PROVE Phases'
  BY <1>21, <1>1, <1>2 DEF Ownership, Phases, HandedOver, EntryType, CommType, Using, Live,
      InGame, OnHangup, Fetch, Goto, CloseConnection
<1>22. ASSUME NEW k \in Client, OnInput(k) PROVE Phases'
  BY <1>22, <1>1, <1>2 DEF Ownership, Phases, HandedOver, EntryType, CommType, Using, Live,
      InGame, OnInput, Fetch, Goto
<1>23. ASSUME NEW k \in Client, OnOutput(k) PROVE Phases'
  BY <1>23, <1>1, <1>2 DEF Ownership, Phases, HandedOver, EntryType, CommType, Using, Live,
      InGame, OnOutput, Fetch, Goto, CloseConnection
<1>24. ASSUME NEW k \in Client, OnAlarm(k) PROVE Phases'
  BY <1>24, <1>1, <1>2 DEF Ownership, Phases, HandedOver, EntryType, CommType, Using, Live,
      InGame, OnAlarm, Fetch, Goto, CloseConnection
<1>25. ASSUME NEW k \in Client, FreeConnection(k) PROVE Phases'
  BY <1>25, <1>1, <1>2 DEF Ownership, Phases, HandedOver, EntryType, CommType, Using, Live,
      InGame, FreeConnection, Goto
<1>26. CASE Parse
  BY <1>26, <1>1, <1>2 DEF Ownership, Phases, HandedOver, EntryType, CommType, Using, Live,
      InGame, Parse, Disconnect, comm
<1>27. CASE LogoutAllPlayers
  BY <1>27, <1>1, <1>2 DEF Ownership, Phases, HandedOver, EntryType, CommType, Using, Live,
      InGame, LogoutAllPlayers, comm
<1>28. CASE LastRound
  BY <1>28, <1>1, <1>2 DEF Ownership, Phases, HandedOver, EntryType, CommType, Using, Live,
      InGame, LastRound, Process, Disconnect, entry, comm
<1>29. CASE Round(TRUE)
  BY <1>29, <1>1, <1>2 DEF Ownership, Phases, HandedOver, EntryType, CommType, Using, Live,
      InGame, Round, Process, Disconnect, comm
<1>30. CASE PlayerEvent
  BY <1>30, <1>1, <1>2 DEF Ownership, Phases, HandedOver, EntryType, CommType, Using, Live,
      InGame, PlayerEvent, comm
<1> QED
  BY <1>4, <1>5, <1>6, <1>7, <1>8, <1>9, <1>10, <1>11, <1>12, <1>13, <1>14, <1>15, <1>16, <1>17,
      <1>18, <1>19, <1>20, <1>21, <1>22, <1>23, <1>24, <1>25, <1>26, <1>27, <1>28, <1>29, <1>30
      DEF Next, AcceptorStep, CommStep, ReceiveCommand, GameStep

\* The buffer is the communication thread's until it calls the game thread.
LEMMA FillingStep == IInv /\ [Next]_vars => Filling'
<1> SUFFICES ASSUME IInv, [Next]_vars PROVE Filling'
  OBVIOUS
<1>1. EntryType /\ CommType /\ PendingType /\ CountType /\ ThreadsType
  BY TypeParts DEF IInv
<1>2. Ownership /\ Phases /\ Filling /\ HandedOver
  BY DEF IInv
<1>3. CASE UNCHANGED <<cpc, WaitingForACK, InData, read>>
  BY <1>3, <1>2 DEF Filling
<1>4. ASSUME NEW k \in Client,
            Send(k) \/ Leave(k) \/ TimerExpires(k)
      PROVE  Filling'
  BY <1>4, <1>3 DEF Send, entry, comm, Leave, TimerExpires, sockets
<1>5. CASE \/ UNCHANGED vars
            \/ AcceptorTest \/ AcceptFails \/ AcceptorEnds \/ OnSigUsr1 \/ Scan \/ Parse \/ Hangup
                \/ AckSignal \/ LeaveLoop \/ LogoutAllPlayers \/ HangupAll \/ LastRound \/
                CloseSocket \/ JoinAcceptor \/ Round(TRUE) \/ OtherPacket \/ PlayerEvent \/
                EndGame
  BY <1>5, <1>3 DEF vars, AcceptorTest, entry, comm, sockets, AcceptFails, AcceptorEnds,
      OnSigUsr1, Scan, Parse, Disconnect, Hangup, AckSignal, LeaveLoop, LogoutAllPlayers,
      HangupAll, LastRound, Process, CloseSocket, JoinAcceptor, Round, OtherPacket, PlayerEvent,
      EndGame
<1>6. ASSUME NEW k \in Client, Accept(k) PROVE Filling'
  BY <1>6, <1>1, <1>2 DEF Ownership, Filling, CommType, CountType, Using, Accept, Goto, entry,
      sockets
<1>7. ASSUME NEW k \in Client, AssignFreeConnection(k) PROVE Filling'
  BY <1>7, <1>1, <1>2 DEF Ownership, Filling, CommType, CountType, Using, AssignFreeConnection, TakeEntry, SetThread,
      Goto, sockets
<1>8. ASSUME NEW k \in Client, Connect(k) PROVE Filling'
  BY <1>8, <1>1, <1>2 DEF Ownership, Filling, CommType, CountType, Using, Connect, Goto, sockets
<1>9. ASSUME NEW k \in Client, Start(k) PROVE Filling'
  BY <1>9, <1>1, <1>2 DEF Ownership, Filling, CommType, CountType, Using, Start, Goto, sockets
<1>10. ASSUME NEW k \in Client, StartFails(k) PROVE Filling'
  BY <1>10, <1>1, <1>2 DEF Ownership, Filling, CommType, CountType, Using, StartFails, Goto,
      sockets
<1>11. ASSUME NEW k \in Client, ReceiveLater(k) PROVE Filling'
  BY <1>11, <1>1, <1>2 DEF Ownership, Filling, CommType, CountType, Using, ReceiveLater, Return,
      Goto, sockets
<1>12. ASSUME NEW k \in Client, ReceiveNothing(k) PROVE Filling'
  BY <1>12, <1>1, <1>2 DEF Ownership, Filling, CommType, CountType, Using, ReceiveNothing, Return,
      Goto, sockets
<1>13. ASSUME NEW k \in Client, ReceiveFails(k) PROVE Filling'
  BY <1>13, <1>1, <1>2 DEF Ownership, Filling, CommType, CountType, Using, ReceiveFails, Return,
      Goto
<1>14. ASSUME NEW k \in Client, ReceivePacket(k) PROVE Filling'
  BY <1>14, <1>1, <1>2 DEF Ownership, Filling, CommType, CountType, Using, ReceivePacket, Goto,
      Unread
<1>15. ASSUME NEW k \in Client, CheckLogin(k) PROVE Filling'
  BY <1>15, <1>1, <1>2 DEF Ownership, Filling, CommType, CountType, Using, CheckLogin, Goto,
      entry, sockets
<1>16. ASSUME NEW k \in Client, Login(k) PROVE Filling'
  BY <1>16, <1>1, <1>2 DEF Ownership, Filling, CommType, CountType, Using, Login, Goto, sockets
<1>17. ASSUME NEW k \in Client, LoginFails(k) PROVE Filling'
  BY <1>17, <1>1, <1>2 DEF Ownership, Filling, CommType, CountType, Using, LoginFails, Goto,
      sockets
<1>18. ASSUME NEW k \in Client, CallGameThread(k) PROVE Filling'
  BY <1>18, <1>1, <1>2 DEF Ownership, Filling, CommType, CountType, Using, CallGameThread, Goto,
      sockets
<1>19. ASSUME NEW k \in Client, SignalGameThread(k) PROVE Filling'
  BY <1>19, <1>1, <1>2 DEF Ownership, Filling, CommType, CountType, Using, SignalGameThread, Goto,
      entry, sockets
<1>20. ASSUME NEW k \in Client, LoopTest(k) PROVE Filling'
  BY <1>20, <1>1, <1>2 DEF Ownership, Filling, CommType, CountType, Using, LoopTest, Goto, entry,
      sockets
<1>21. ASSUME NEW k \in Client, OnHangup(k) PROVE Filling'
  BY <1>21, <1>1, <1>2 DEF Ownership, Filling, CommType, CountType, Using, OnHangup, Fetch, Goto,
      sockets
<1>22. ASSUME NEW k \in Client, OnInput(k) PROVE Filling'
  BY <1>22, <1>1, <1>2 DEF Ownership, Filling, CommType, CountType, Using, OnInput, Fetch, Goto,
      sockets
<1>23. ASSUME NEW k \in Client, OnOutput(k) PROVE Filling'
  BY <1>23, <1>1, <1>2 DEF Ownership, Filling, CommType, CountType, Using, OnOutput, Fetch, Goto,
      sockets
<1>24. ASSUME NEW k \in Client, OnAlarm(k) PROVE Filling'
  BY <1>24, <1>1, <1>2 DEF Ownership, Filling, CommType, CountType, Using, OnAlarm, Fetch, Goto,
      sockets
<1>25. ASSUME NEW k \in Client, FreeConnection(k) PROVE Filling'
  BY <1>25, <1>1, <1>2 DEF Ownership, Filling, CommType, CountType, Using, FreeConnection, Goto,
      sockets
<1>26. CASE Ack
  BY <1>26, <1>1, <1>2 DEF Ownership, Filling, CommType, CountType, Using, Ack, comm, sockets
<1> QED
  BY <1>4, <1>5, <1>6, <1>7, <1>8, <1>9, <1>10, <1>11, <1>12, <1>13, <1>14, <1>15, <1>16, <1>17,
      <1>18, <1>19, <1>20, <1>21, <1>22, <1>23, <1>24, <1>25, <1>26 DEF Next, AcceptorStep,
      CommStep, ReceiveCommand, GameStep

\* And the game thread's until it has acknowledged the packet.
LEMMA HandedOverStep == IInv /\ [Next]_vars => HandedOver'
<1> SUFFICES ASSUME IInv, [Next]_vars PROVE HandedOver'
  OBVIOUS
<1>1. EntryType /\ CommType /\ PendingType /\ CountType /\ ThreadsType
  BY TypeParts DEF IInv
<1>2. Ownership /\ Phases /\ Filling /\ HandedOver
  BY DEF IInv
<1>3. CASE UNCHANGED <<cpc, WaitingForACK, InData, handed, gpc, State>>
  BY <1>3, <1>2 DEF HandedOver
<1>4. ASSUME NEW k \in Client,
            Send(k) \/ Leave(k) \/ TimerExpires(k)
      PROVE  HandedOver'
  BY <1>4, <1>3 DEF Send, entry, comm, game, history, Leave, TimerExpires
<1>5. CASE \/ UNCHANGED vars
            \/ AcceptorTest \/ AcceptFails \/ AcceptorEnds \/ CloseSocket \/ OtherPacket \/
                EndGame
  BY <1>5, <1>3 DEF vars, AcceptorTest, entry, comm, game, history, AcceptFails, AcceptorEnds,
      CloseSocket, OtherPacket, EndGame
<1>6. ASSUME NEW k \in Client, Accept(k) PROVE HandedOver'
  BY <1>6, <1>1, <1>2 DEF Ownership, Phases, Filling, HandedOver, CommType, EntryType, CountType,
      Using, Live, InGame, Accept, Goto, entry, game, history
<1>7. ASSUME NEW k \in Client, AssignFreeConnection(k) PROVE HandedOver'
  BY <1>7, <1>1, <1>2 DEF Ownership, Phases, Filling, HandedOver, CommType, EntryType, CountType,
      Using, Live, InGame, AssignFreeConnection, TakeEntry, SetThread, Goto, game, history
<1>8. ASSUME NEW k \in Client, Connect(k) PROVE HandedOver'
  BY <1>8, <1>1, <1>2 DEF Ownership, Phases, Filling, HandedOver, CommType, EntryType, CountType,
      Using, Live, InGame, Connect, Goto, game, history
<1>9. ASSUME NEW k \in Client, Start(k) PROVE HandedOver'
  BY <1>9, <1>1, <1>2 DEF Ownership, Phases, Filling, HandedOver, CommType, EntryType, CountType,
      Using, Live, InGame, Start, Goto, game, history
<1>10. ASSUME NEW k \in Client, StartFails(k) PROVE HandedOver'
  BY <1>10, <1>1, <1>2 DEF Ownership, Phases, Filling, HandedOver, CommType, EntryType, CountType,
      Using, Live, InGame, StartFails, Goto, game, history
<1>11. ASSUME NEW k \in Client, ReceiveLater(k) PROVE HandedOver'
  BY <1>11, <1>1, <1>2 DEF Ownership, Phases, Filling, HandedOver, CommType, EntryType, CountType,
      Using, Live, InGame, ReceiveLater, Return, Goto, game, history
<1>12. ASSUME NEW k \in Client, ReceiveNothing(k) PROVE HandedOver'
  BY <1>12, <1>1, <1>2 DEF Ownership, Phases, Filling, HandedOver, CommType, EntryType, CountType,
      Using, Live, InGame, ReceiveNothing, Return, Goto, game, history
<1>13. ASSUME NEW k \in Client, ReceiveFails(k) PROVE HandedOver'
  BY <1>13, <1>1, <1>2 DEF Ownership, Phases, Filling, HandedOver, CommType, EntryType, CountType,
      Using, Live, InGame, ReceiveFails, Return, Goto, CloseConnection, game, history
<1>14. ASSUME NEW k \in Client, ReceivePacket(k) PROVE HandedOver'
  BY <1>14, <1>1, <1>2 DEF Ownership, Phases, Filling, HandedOver, CommType, EntryType, CountType,
      Using, Live, InGame, ReceivePacket, Goto, game
<1>15. ASSUME NEW k \in Client, CheckLogin(k) PROVE HandedOver'
  BY <1>15, <1>1, <1>2 DEF Ownership, Phases, Filling, HandedOver, CommType, EntryType, CountType,
      Using, Live, InGame, CheckLogin, Goto, entry, game, history
<1>16. ASSUME NEW k \in Client, Login(k) PROVE HandedOver'
  BY <1>16, <1>1, <1>2 DEF Ownership, Phases, Filling, HandedOver, CommType, EntryType, CountType,
      Using, Live, InGame, Login, Goto, game, history
<1>17. ASSUME NEW k \in Client, LoginFails(k) PROVE HandedOver'
  BY <1>17, <1>1, <1>2 DEF Ownership, Phases, Filling, HandedOver, CommType, EntryType, CountType,
      Using, Live, InGame, LoginFails, Goto, CloseConnection, game, history
<1>18. ASSUME NEW k \in Client, CallGameThread(k) PROVE HandedOver'
  BY <1>18, <1>1, <1>2 DEF Ownership, Phases, Filling, HandedOver, CommType, EntryType, CountType,
      Using, Live, InGame, CallGameThread, Goto, game
<1>19. ASSUME NEW k \in Client, SignalGameThread(k) PROVE HandedOver'
  BY <1>19, <1>1, <1>2 DEF Ownership, Phases, Filling, HandedOver, CommType, EntryType, CountType,
      Using, Live, InGame, SignalGameThread, Goto, entry, game, history
<1>20. ASSUME NEW k \in Client, LoopTest(k) PROVE HandedOver'
  BY <1>20, <1>1, <1>2 DEF Ownership, Phases, Filling, HandedOver, CommType, EntryType, CountType,
      Using, Live, InGame, LoopTest, Goto, entry, game, history
<1>21. ASSUME NEW k \in Client, OnHangup(k) PROVE HandedOver'
  BY <1>21, <1>1, <1>2 DEF Ownership, Phases, Filling, HandedOver, CommType, EntryType, CountType,
      Using, Live, InGame, OnHangup, Fetch, Goto, CloseConnection, game, history
<1>22. ASSUME NEW k \in Client, OnInput(k) PROVE HandedOver'
  BY <1>22, <1>1, <1>2 DEF Ownership, Phases, Filling, HandedOver, CommType, EntryType, CountType,
      Using, Live, InGame, OnInput, Fetch, Goto, game, history
<1>23. ASSUME NEW k \in Client, OnOutput(k) PROVE HandedOver'
  BY <1>23, <1>1, <1>2 DEF Ownership, Phases, Filling, HandedOver, CommType, EntryType, CountType,
      Using, Live, InGame, OnOutput, Fetch, Goto, CloseConnection, game, history
<1>24. ASSUME NEW k \in Client, OnAlarm(k) PROVE HandedOver'
  BY <1>24, <1>1, <1>2 DEF Ownership, Phases, Filling, HandedOver, CommType, EntryType, CountType,
      Using, Live, InGame, OnAlarm, Fetch, Goto, CloseConnection, game
<1>25. ASSUME NEW k \in Client, FreeConnection(k) PROVE HandedOver'
  BY <1>25, <1>1, <1>2 DEF Ownership, Phases, Filling, HandedOver, CommType, EntryType, CountType,
      Using, Live, InGame, FreeConnection, Goto, game, history
<1>26. CASE OnSigUsr1
  BY <1>26, <1>1, <1>2 DEF Ownership, Phases, Filling, HandedOver, CommType, EntryType, CountType,
      Using, Live, InGame, OnSigUsr1, entry, comm, history
<1>27. CASE Scan
  BY <1>27, <1>1, <1>2 DEF Ownership, Phases, Filling, HandedOver, CommType, EntryType, CountType,
      Using, Live, InGame, Scan, entry, comm, history
<1>28. CASE Parse
  BY <1>28, <1>1, <1>2 DEF Ownership, Phases, Filling, HandedOver, CommType, EntryType, CountType,
      Using, Live, InGame, Parse, Disconnect, comm
<1>29. CASE Hangup
  BY <1>29, <1>1, <1>2 DEF Ownership, Phases, Filling, HandedOver, CommType, EntryType, CountType,
      Using, Live, InGame, ThreadsType, Hangup, entry, comm, history
<1>30. CASE Ack
  BY <1>30, <1>1, <1>2 DEF Ownership, Phases, Filling, HandedOver, CommType, EntryType, CountType,
      Using, Live, InGame, Ack, comm, history
<1>31. CASE AckSignal
  BY <1>31, <1>1, <1>2 DEF Ownership, Phases, Filling, HandedOver, CommType, EntryType, CountType,
      Using, Live, InGame, AckSignal, entry, comm, history
<1>32. CASE LeaveLoop
  BY <1>32, <1>1, <1>2 DEF Ownership, Phases, Filling, HandedOver, CommType, EntryType, CountType,
      Using, Live, InGame, LeaveLoop, entry, comm, history
<1>33. CASE LogoutAllPlayers
  BY <1>33, <1>1, <1>2 DEF Ownership, Phases, Filling, HandedOver, CommType, EntryType, CountType,
      Using, Live, InGame, LogoutAllPlayers, comm, history
<1>34. CASE HangupAll
  BY <1>34, <1>1, <1>2 DEF Ownership, Phases, Filling, HandedOver, CommType, EntryType, CountType,
      Using, Live, InGame, HangupAll, entry, comm, history
<1>35. CASE LastRound
  BY <1>35, <1>1, <1>2 DEF Ownership, Phases, Filling, HandedOver, CommType, EntryType, CountType,
      Using, Live, InGame, LastRound, Process, Disconnect, entry, comm, history
<1>36. CASE JoinAcceptor
  BY <1>36, <1>1, <1>2 DEF Ownership, Phases, Filling, HandedOver, CommType, EntryType, CountType,
      Using, Live, InGame, JoinAcceptor, entry, comm, history
<1>37. CASE Round(TRUE)
  BY <1>37, <1>1, <1>2 DEF Ownership, Phases, Filling, HandedOver, CommType, EntryType, CountType,
      Using, Live, InGame, Round, Process, Disconnect, comm, history
<1>38. CASE PlayerEvent
  BY <1>38, <1>1, <1>2 DEF Ownership, Phases, Filling, HandedOver, CommType, EntryType, CountType,
      Using, Live, InGame, PlayerEvent, comm, game, history
<1> QED
  BY <1>4, <1>5, <1>6, <1>7, <1>8, <1>9, <1>10, <1>11, <1>12, <1>13, <1>14, <1>15, <1>16, <1>17,
      <1>18, <1>19, <1>20, <1>21, <1>22, <1>23, <1>24, <1>25, <1>26, <1>27, <1>28, <1>29, <1>30,
      <1>31, <1>32, <1>33, <1>34, <1>35, <1>36, <1>37, <1>38 DEF Next, AcceptorStep, CommStep,
      ReceiveCommand, GameStep


\* The invariant holds in the beginning.
LEMMA InitIInv == Init => IInv
<1> SUFFICES ASSUME Init PROVE IInv
  OBVIOUS
<1>1. TypeOK
  <2>1. 0 \in 0 .. MaxPackets
    BY ConnectionAssumption
  <2>2. EntryType
    BY <2>1, Zenon DEF Init, EntryType
  <2>3. CommType /\ PendingType
    BY Zenon DEF Init, CommType, PendingType
  <2>4. CountType
    BY <2>1 DEF Init, CountType
  <2>5. ThreadsType
    BY Zenon DEF Init, ThreadsType
  <2> QED
    BY <2>2, <2>3, <2>4, <2>5, TypeParts
<1>2. Ownership /\ Phases /\ Filling /\ HandedOver
  BY ConnectionAssumption DEF Init, Ownership, Phases, Filling, HandedOver, Using
<1> QED
  BY <1>1, <1>2 DEF IInv

-----------------------------------------------------------------------------
(* The theorems.                                                           *)

\* The controls of the threads and the fields they share agree, always.
THEOREM Invariance == Spec => []IInv
<1>1. IInv /\ [Next]_vars => IInv'
  <2> SUFFICES ASSUME IInv, [Next]_vars PROVE IInv'
    OBVIOUS
  <2>1. TypeOK'
    BY TypePartsNext, EntryTypeStep, CommTypeStep, PendingTypeStep, CountTypeStep, ThreadsTypeStep
  <2> QED
    BY <2>1, OwnershipStep, PhasesStep, FillingStep, HandedOverStep DEF IInv
<1> QED
  BY InitIInv, <1>1, PTL DEF Spec

\* The shared fields of an entry, the signals and the counts of packets have
\* their types, and no packet is parsed that was not handed over, or handed over
\* that was not read.
THEOREM TypeCorrect == Spec => []TypeOK
<1>1. IInv => TypeOK
  BY DEF IInv
<1> QED
  BY <1>1, Invariance, PTL

\* An entry of Connections[] belongs to one communication thread, which is there
\* as long as the entry is in use, and whose name is in it from connect() on
\* (assign_free_connection, assign, free_connection).
THEOREM EntryHasOneOwner == Spec => []OneOwner
<1>1. IInv => OneOwner
  <2> SUFFICES ASSUME IInv PROVE OneOwner
    OBVIOUS
  <2>1. Ownership /\ Phases /\ CommType /\ EntryType
    BY TypeParts DEF IInv
  <2>2. CASE State = "FREE"
    BY <2>1, <2>2 DEF Ownership, CommType, OneOwner, Owners, Active, Using
  <2>3. CASE State = "ASSIGNED"
    <3>1. PICK k \in Client : cpc[k] \in {"take", "connect"}
      BY <2>1, <2>3 DEF Ownership
    <3>2. Owners = {k}
      BY <2>1, <3>1 DEF Ownership, CommType, Owners, Using
    <3>3. IF cpc[k] = "take" THEN ThreadID \notin Active ELSE ThreadID = k
      BY <2>1, <3>1 DEF Ownership, Active, Using
    <3> QED
      BY <2>3, <3>2, <3>3 DEF OneOwner
  <2>4. CASE State \notin {"FREE", "ASSIGNED"}
    <3>1. ThreadID \in Client /\ Owners = {ThreadID} /\ cpc[ThreadID] # "take"
      BY <2>1, <2>4 DEF Ownership, CommType, Owners, Using
    <3> QED
      BY <2>4, <3>1 DEF OneOwner
  <2> QED
    BY <2>2, <2>3, <2>4
<1> QED
  BY <1>1, Invariance, PTL

\* While the game thread parses InData the communication thread is not writing
\* it, and the packet is the owner's (receive_command, receive_data).
THEOREM BufferNotShared == Spec => []NoBufferRace
<1>1. IInv => NoBufferRace
  <2> SUFFICES ASSUME IInv, gpc = "parse"
               PROVE  cpc[ThreadID] \notin {"login", "register", "call"} /\ InData[1] = ThreadID
    BY DEF NoBufferRace
  <2>1. InData = <<ThreadID, handed[ThreadID]>> /\ ThreadID \in Client /\ WaitingForACK
    BY BufferFacts
  <2>2. cpc[ThreadID] \notin {"login", "register", "call"}
    BY <2>1 DEF IInv, Filling
  <2> QED
    BY <2>1, <2>2
<1> QED
  BY <1>1, Invariance, PTL

-----------------------------------------------------------------------------
(* Acknowledgements.  disconnect lets the entry be freed and taken by      *)
(* another client before receive_data acknowledges the packet it parsed,   *)
(* and the acknowledgement is then the other client's.  This is the only   *)
(* way in which a packet can be acknowledged that was not parsed.          *)

\* The game thread has parsed a packet and is going to acknowledge it.
Returning == gpc = "ack" \/ (gpc = "hangup" /\ gnext = "ack")

\* What the code does not ensure: the entry does not change hands meanwhile.
Steady == Returning => ThreadID' = ThreadID

\* A new thread has not handed over anything.
Unheard == \A k \in Client : cpc[k] \in {"none", "assign", "take", "connect", "mask"} => handed[k] = 0

\* The packet of a thread that was not parsed is marked as waiting.
Outstanding == \A k \in Client : cpc[k] \in Using /\ handed[k] # parsed[k] => WaitingForACK

\* What is going to be acknowledged was parsed.
AckDue ==
    Returning => /\ WaitingForACK /\ ThreadID \in Client
                 /\ cpc[ThreadID] \in (Using \ {"connect"}) \cup {"ended"}
                 /\ handed[ThreadID] = parsed[ThreadID]

AckInv == Unheard /\ Outstanding /\ AckDue

\* Nothing is handed over before the thread is ready.
LEMMA UnheardStep == IInv /\ AckInv /\ [Next]_vars => Unheard'
<1> SUFFICES ASSUME IInv, AckInv, [Next]_vars PROVE Unheard'
  OBVIOUS
<1>1. EntryType /\ CommType /\ CountType /\ ThreadsType
  BY TypeParts DEF IInv
<1>2. Ownership /\ Phases /\ Filling /\ HandedOver /\ Unheard /\ Outstanding /\ AckDue
  BY DEF IInv, AckInv
<1>3. CASE UNCHANGED <<cpc, handed>>
  BY <1>3, <1>2 DEF Unheard
<1>4. ASSUME NEW k \in Client,
            Send(k) \/ Leave(k) \/ TimerExpires(k)
      PROVE  Unheard'
  BY <1>4, <1>3 DEF Send, comm, history, Leave, TimerExpires
<1>5. CASE \/ UNCHANGED vars
            \/ AcceptorTest \/ AcceptFails \/ AcceptorEnds \/ OnSigUsr1 \/ Scan \/ Parse \/ Hangup
                \/ Ack \/ AckSignal \/ LeaveLoop \/ LogoutAllPlayers \/ HangupAll \/ LastRound \/
                CloseSocket \/ JoinAcceptor \/ Round(TRUE) \/ OtherPacket \/ PlayerEvent \/
                EndGame
  BY <1>5, <1>3 DEF vars, AcceptorTest, comm, history, AcceptFails, AcceptorEnds, OnSigUsr1, Scan,
      Parse, Disconnect, Hangup, Ack, AckSignal, LeaveLoop, LogoutAllPlayers, HangupAll,
      LastRound, Process, CloseSocket, JoinAcceptor, Round, OtherPacket, PlayerEvent, EndGame
<1>6. ASSUME NEW k \in Client, Accept(k) PROVE Unheard'
  BY <1>6, <1>1, <1>2 DEF Unheard, CommType, Accept, Goto, history
<1>7. ASSUME NEW k \in Client, AssignFreeConnection(k) PROVE Unheard'
  BY <1>7, <1>1, <1>2 DEF Unheard, CommType, AssignFreeConnection, TakeEntry, SetThread, Goto, history
<1>8. ASSUME NEW k \in Client, Connect(k) PROVE Unheard'
  BY <1>8, <1>1, <1>2 DEF Unheard, CommType, Connect, Goto, history
<1>9. ASSUME NEW k \in Client, Start(k) PROVE Unheard'
  BY <1>9, <1>1, <1>2 DEF Unheard, CommType, Start, Goto, history
<1>10. ASSUME NEW k \in Client, StartFails(k) PROVE Unheard'
  BY <1>10, <1>1, <1>2 DEF Unheard, CommType, StartFails, Goto, history
<1>11. ASSUME NEW k \in Client, ReceiveLater(k) PROVE Unheard'
  BY <1>11, <1>1, <1>2 DEF Unheard, CommType, ReceiveLater, Return, Goto, history
<1>12. ASSUME NEW k \in Client, ReceiveNothing(k) PROVE Unheard'
  BY <1>12, <1>1, <1>2 DEF Unheard, CommType, ReceiveNothing, Return, Goto, history
<1>13. ASSUME NEW k \in Client, ReceiveFails(k) PROVE Unheard'
  BY <1>13, <1>1, <1>2 DEF Unheard, CommType, ReceiveFails, Return, Goto, history
<1>14. ASSUME NEW k \in Client, ReceivePacket(k) PROVE Unheard'
  BY <1>14, <1>1, <1>2 DEF Unheard, CommType, ReceivePacket, Goto
<1>15. ASSUME NEW k \in Client, CheckLogin(k) PROVE Unheard'
  BY <1>15, <1>1, <1>2 DEF Unheard, CommType, CheckLogin, Goto, history
<1>16. ASSUME NEW k \in Client, Login(k) PROVE Unheard'
  BY <1>16, <1>1, <1>2 DEF Unheard, CommType, Login, Goto, history
<1>17. ASSUME NEW k \in Client, LoginFails(k) PROVE Unheard'
  BY <1>17, <1>1, <1>2 DEF Unheard, CommType, LoginFails, Goto, history
<1>18. ASSUME NEW k \in Client, CallGameThread(k) PROVE Unheard'
  BY <1>18, <1>1, <1>2 DEF Unheard, CommType, CountType, CallGameThread, Goto
<1>19. ASSUME NEW k \in Client, SignalGameThread(k) PROVE Unheard'
  BY <1>19, <1>1, <1>2 DEF Unheard, CommType, SignalGameThread, Goto, history
<1>20. ASSUME NEW k \in Client, LoopTest(k) PROVE Unheard'
  BY <1>20, <1>1, <1>2 DEF Unheard, CommType, LoopTest, Goto, history
<1>21. ASSUME NEW k \in Client, OnHangup(k) PROVE Unheard'
  BY <1>21, <1>1, <1>2 DEF Unheard, CommType, OnHangup, Fetch, Goto, history
<1>22. ASSUME NEW k \in Client, OnInput(k) PROVE Unheard'
  BY <1>22, <1>1, <1>2 DEF Unheard, CommType, OnInput, Fetch, Goto, history
<1>23. ASSUME NEW k \in Client, OnOutput(k) PROVE Unheard'
  BY <1>23, <1>1, <1>2 DEF Unheard, CommType, OnOutput, Fetch, Goto, history
<1>24. ASSUME NEW k \in Client, OnAlarm(k) PROVE Unheard'
  BY <1>24, <1>1, <1>2 DEF Unheard, CommType, OnAlarm, Fetch, Goto
<1>25. ASSUME NEW k \in Client, FreeConnection(k) PROVE Unheard'
  BY <1>25, <1>1, <1>2 DEF Unheard, CommType, FreeConnection, Goto, history
<1> QED
  BY <1>4, <1>5, <1>6, <1>7, <1>8, <1>9, <1>10, <1>11, <1>12, <1>13, <1>14, <1>15, <1>16, <1>17,
      <1>18, <1>19, <1>20, <1>21, <1>22, <1>23, <1>24, <1>25 DEF Next, AcceptorStep, CommStep,
      ReceiveCommand, GameStep

\* A packet stays marked until it is parsed.
LEMMA OutstandingStep == IInv /\ AckInv /\ [Next]_vars => Outstanding'
<1> SUFFICES ASSUME IInv, AckInv, [Next]_vars PROVE Outstanding'
  OBVIOUS
<1>1. EntryType /\ CommType /\ CountType /\ ThreadsType
  BY TypeParts DEF IInv
<1>2. Ownership /\ Phases /\ Filling /\ HandedOver /\ Unheard /\ Outstanding /\ AckDue
  BY DEF IInv, AckInv
<1>3. CASE UNCHANGED <<cpc, handed, parsed, WaitingForACK>>
  BY <1>3, <1>2 DEF Outstanding
<1>4. ASSUME NEW k \in Client,
            Send(k) \/ Leave(k) \/ TimerExpires(k)
      PROVE  Outstanding'
  BY <1>4, <1>3 DEF Send, entry, comm, history, Leave, TimerExpires
<1>5. CASE \/ UNCHANGED vars
            \/ AcceptorTest \/ AcceptFails \/ AcceptorEnds \/ OnSigUsr1 \/ Scan \/ Hangup \/
                AckSignal \/ LeaveLoop \/ LogoutAllPlayers \/ HangupAll \/ LastRound \/
                CloseSocket \/ JoinAcceptor \/ Round(TRUE) \/ OtherPacket \/ PlayerEvent \/
                EndGame
  BY <1>5, <1>3 DEF vars, AcceptorTest, entry, comm, history, AcceptFails, AcceptorEnds,
      OnSigUsr1, Scan, Hangup, AckSignal, LeaveLoop, LogoutAllPlayers, HangupAll, LastRound,
      Process, Disconnect, CloseSocket, JoinAcceptor, Round, OtherPacket, PlayerEvent, EndGame
<1>6. ASSUME NEW k \in Client, Accept(k) PROVE Outstanding'
  BY <1>6, <1>1, <1>2 DEF Outstanding, Unheard, Ownership, CommType, CountType, Using, Accept,
      Goto, entry, history
<1>7. ASSUME NEW k \in Client, AssignFreeConnection(k) PROVE Outstanding'
  BY <1>7, <1>1, <1>2 DEF Outstanding, Unheard, Ownership, CommType, CountType, Using,
      AssignFreeConnection, TakeEntry, SetThread, Goto, history
<1>8. ASSUME NEW k \in Client, Connect(k) PROVE Outstanding'
  BY <1>8, <1>1, <1>2 DEF Outstanding, Unheard, Ownership, CommType, CountType, Using, Connect,
      Goto, history
<1>9. ASSUME NEW k \in Client, Start(k) PROVE Outstanding'
  BY <1>9, <1>1, <1>2 DEF Outstanding, Unheard, Ownership, CommType, CountType, Using, Start,
      Goto, history
<1>10. ASSUME NEW k \in Client, StartFails(k) PROVE Outstanding'
  BY <1>10, <1>1, <1>2 DEF Outstanding, Unheard, Ownership, CommType, CountType, Using,
      StartFails, Goto, history
<1>11. ASSUME NEW k \in Client, ReceiveLater(k) PROVE Outstanding'
  BY <1>11, <1>1, <1>2 DEF Outstanding, Unheard, Ownership, CommType, CountType, Using,
      ReceiveLater, Return, Goto, history
<1>12. ASSUME NEW k \in Client, ReceiveNothing(k) PROVE Outstanding'
  BY <1>12, <1>1, <1>2 DEF Outstanding, Unheard, Ownership, CommType, CountType, Using,
      ReceiveNothing, Return, Goto, history
<1>13. ASSUME NEW k \in Client, ReceiveFails(k) PROVE Outstanding'
  BY <1>13, <1>1, <1>2 DEF Outstanding, Unheard, Ownership, CommType, CountType, Using,
      ReceiveFails, Return, Goto, history
<1>14. ASSUME NEW k \in Client, ReceivePacket(k) PROVE Outstanding'
  BY <1>14, <1>1, <1>2 DEF Outstanding, Unheard, Ownership, CommType, CountType, Using,
      ReceivePacket, Goto
<1>15. ASSUME NEW k \in Client, CheckLogin(k) PROVE Outstanding'
  BY <1>15, <1>1, <1>2 DEF Outstanding, Unheard, Ownership, CommType, CountType, Using,
      CheckLogin, Goto, entry, history
<1>16. ASSUME NEW k \in Client, Login(k) PROVE Outstanding'
  BY <1>16, <1>1, <1>2 DEF Outstanding, Unheard, Ownership, CommType, CountType, Using, Login,
      Goto, history
<1>17. ASSUME NEW k \in Client, LoginFails(k) PROVE Outstanding'
  BY <1>17, <1>1, <1>2 DEF Outstanding, Unheard, Ownership, CommType, CountType, Using,
      LoginFails, Goto, history
<1>18. ASSUME NEW k \in Client, CallGameThread(k) PROVE Outstanding'
  BY <1>18, <1>1, <1>2 DEF Outstanding, Unheard, Ownership, CommType, CountType, Using,
      CallGameThread, Goto
<1>19. ASSUME NEW k \in Client, SignalGameThread(k) PROVE Outstanding'
  BY <1>19, <1>1, <1>2 DEF Outstanding, Unheard, Ownership, CommType, CountType, Using,
      SignalGameThread, Goto, entry, history
<1>20. ASSUME NEW k \in Client, LoopTest(k) PROVE Outstanding'
  BY <1>20, <1>1, <1>2 DEF Outstanding, Unheard, Ownership, CommType, CountType, Using, LoopTest,
      Goto, entry, history
<1>21. ASSUME NEW k \in Client, OnHangup(k) PROVE Outstanding'
  BY <1>21, <1>1, <1>2 DEF Outstanding, Unheard, Ownership, CommType, CountType, Using, OnHangup,
      Fetch, Goto, history
<1>22. ASSUME NEW k \in Client, OnInput(k) PROVE Outstanding'
  BY <1>22, <1>1, <1>2 DEF Outstanding, Unheard, Ownership, CommType, CountType, Using, OnInput,
      Fetch, Goto, history
<1>23. ASSUME NEW k \in Client, OnOutput(k) PROVE Outstanding'
  BY <1>23, <1>1, <1>2 DEF Outstanding, Unheard, Ownership, CommType, CountType, Using, OnOutput,
      Fetch, Goto, history
<1>24. ASSUME NEW k \in Client, OnAlarm(k) PROVE Outstanding'
  BY <1>24, <1>1, <1>2 DEF Outstanding, Unheard, Ownership, CommType, CountType, Using, OnAlarm,
      Fetch, Goto
<1>25. ASSUME NEW k \in Client, FreeConnection(k) PROVE Outstanding'
  BY <1>25, <1>1, <1>2 DEF Outstanding, Unheard, Ownership, CommType, CountType, Using,
      FreeConnection, Goto, history
<1>26. CASE Parse
  BY <1>26, <1>1, <1>2, BufferFacts DEF Outstanding, CountType, Parse, Disconnect, comm
<1>27. CASE Ack
  BY <1>27, <1>1, <1>2 DEF Outstanding, Ownership, AckDue, Returning, Ack, comm, history
<1> QED
  BY <1>4, <1>5, <1>6, <1>7, <1>8, <1>9, <1>10, <1>11, <1>12, <1>13, <1>14, <1>15, <1>16, <1>17,
      <1>18, <1>19, <1>20, <1>21, <1>22, <1>23, <1>24, <1>25, <1>26, <1>27 DEF Next, AcceptorStep,
      CommStep, ReceiveCommand, GameStep

\* A packet that was parsed stays so until it is acknowledged.
LEMMA AckDueStep == IInv /\ AckInv /\ [Steady]_vars /\ [Next]_vars => AckDue'
<1> SUFFICES ASSUME IInv, AckInv, [Steady]_vars, [Next]_vars PROVE AckDue'
  OBVIOUS
<1>1. EntryType /\ CommType /\ CountType /\ ThreadsType
  BY TypeParts DEF IInv
<1>2. Ownership /\ Phases /\ Filling /\ HandedOver /\ Unheard /\ Outstanding /\ AckDue
  BY DEF IInv, AckInv
<1>3. CASE UNCHANGED <<gpc, gnext, WaitingForACK, ThreadID, cpc, handed, parsed>>
  BY <1>3, <1>2 DEF AckDue, Returning
<1>4. ASSUME NEW k \in Client,
            Send(k) \/ Leave(k) \/ TimerExpires(k)
      PROVE  AckDue'
  BY <1>4, <1>3 DEF Send, entry, comm, game, history, Leave, TimerExpires
<1>5. CASE \/ UNCHANGED vars
            \/ AcceptorTest \/ AcceptFails \/ AcceptorEnds \/ CloseSocket \/ OtherPacket \/
                PlayerEvent \/ EndGame
  BY <1>5, <1>3 DEF vars, AcceptorTest, entry, comm, game, history, AcceptFails, AcceptorEnds,
      CloseSocket, OtherPacket, PlayerEvent, EndGame
<1>6. ASSUME NEW k \in Client, Accept(k) PROVE AckDue'
  BY <1>6, <1>1, <1>2 DEF AckDue, Returning, Filling, CommType, Using, Accept, Goto, entry, game,
      history
<1>7. ASSUME NEW k \in Client, AssignFreeConnection(k) PROVE AckDue'
  <2>1. cpc[k] \in {"assign", "take"} /\ cpc' # cpc
    BY <1>7, <1>1 DEF AssignFreeConnection, TakeEntry, SetThread, Goto, CommType
  <2>2. Steady
    BY <2>1 DEF vars, comm
  <2>3. Returning => k # ThreadID /\ ThreadID' = ThreadID
    BY <2>1, <2>2, <1>2 DEF Steady, AckDue, Using
  <2> QED
    BY <1>7, <1>1, <1>2, <2>3 DEF AckDue, Returning, CommType, AssignFreeConnection, TakeEntry,
        SetThread, Goto, game, history
<1>8. ASSUME NEW k \in Client, Connect(k) PROVE AckDue'
  BY <1>8, <1>1, <1>2 DEF AckDue, Returning, Ownership, Using, Connect, Goto, game, history
<1>9. ASSUME NEW k \in Client, Start(k) PROVE AckDue'
  BY <1>9, <1>1, <1>2 DEF AckDue, Returning, Filling, CommType, Using, Start, Goto, game, history
<1>10. ASSUME NEW k \in Client, StartFails(k) PROVE AckDue'
  BY <1>10, <1>1, <1>2 DEF AckDue, Returning, Filling, CommType, Using, StartFails, Goto, game,
      history
<1>11. ASSUME NEW k \in Client, ReceiveLater(k) PROVE AckDue'
  BY <1>11, <1>1, <1>2 DEF AckDue, Returning, Filling, CommType, Using, ReceiveLater, Return,
      Goto, game, history
<1>12. ASSUME NEW k \in Client, ReceiveNothing(k) PROVE AckDue'
  BY <1>12, <1>1, <1>2 DEF AckDue, Returning, Filling, CommType, Using, ReceiveNothing, Return,
      Goto, game, history
<1>13. ASSUME NEW k \in Client, ReceiveFails(k) PROVE AckDue'
  BY <1>13, <1>1, <1>2 DEF AckDue, Returning, Filling, CommType, Using, ReceiveFails, Return,
      Goto, game, history
<1>14. ASSUME NEW k \in Client, ReceivePacket(k) PROVE AckDue'
  BY <1>14, <1>1, <1>2 DEF AckDue, Returning, Filling, CommType, Using, ReceivePacket, Goto, game
<1>15. ASSUME NEW k \in Client, CheckLogin(k) PROVE AckDue'
  BY <1>15, <1>1, <1>2 DEF AckDue, Returning, Filling, CommType, Using, CheckLogin, Goto, entry,
      game, history
<1>16. ASSUME NEW k \in Client, Login(k) PROVE AckDue'
  BY <1>16, <1>1, <1>2 DEF AckDue, Returning, Filling, CommType, Using, Login, Goto, game, history
<1>17. ASSUME NEW k \in Client, LoginFails(k) PROVE AckDue'
  BY <1>17, <1>1, <1>2 DEF AckDue, Returning, Filling, CommType, Using, LoginFails, Goto, game,
      history
<1>18. ASSUME NEW k \in Client, CallGameThread(k) PROVE AckDue'
  BY <1>18, <1>1, <1>2 DEF AckDue, Returning, Filling, CommType, Using, CallGameThread, Goto, game
<1>19. ASSUME NEW k \in Client, SignalGameThread(k) PROVE AckDue'
  BY <1>19, <1>1, <1>2 DEF AckDue, Returning, Filling, CommType, Using, SignalGameThread, Goto,
      entry, game, history
<1>20. ASSUME NEW k \in Client, LoopTest(k) PROVE AckDue'
  BY <1>20, <1>1, <1>2 DEF AckDue, Returning, Filling, CommType, Using, LoopTest, Goto, entry,
      game, history
<1>21. ASSUME NEW k \in Client, OnHangup(k) PROVE AckDue'
  BY <1>21, <1>1, <1>2 DEF AckDue, Returning, Filling, CommType, Using, OnHangup, Fetch, Goto,
      game, history
<1>22. ASSUME NEW k \in Client, OnInput(k) PROVE AckDue'
  BY <1>22, <1>1, <1>2 DEF AckDue, Returning, Filling, CommType, Using, OnInput, Fetch, Goto,
      game, history
<1>23. ASSUME NEW k \in Client, OnOutput(k) PROVE AckDue'
  BY <1>23, <1>1, <1>2 DEF AckDue, Returning, Filling, CommType, Using, OnOutput, Fetch, Goto,
      game, history
<1>24. ASSUME NEW k \in Client, OnAlarm(k) PROVE AckDue'
  BY <1>24, <1>1, <1>2 DEF AckDue, Returning, Filling, CommType, Using, OnAlarm, Fetch, Goto, game
<1>25. ASSUME NEW k \in Client, FreeConnection(k) PROVE AckDue'
  BY <1>25, <1>1, <1>2 DEF AckDue, Returning, Filling, CommType, Using, FreeConnection, Goto,
      game, history
<1>26. CASE OnSigUsr1
  BY <1>26, <1>1, <1>2 DEF AckDue, Returning, Filling, CommType, Using, OnSigUsr1, entry, comm,
      history
<1>27. CASE Scan
  BY <1>27, <1>1, <1>2 DEF AckDue, Returning, Filling, CommType, Using, Scan, entry, comm, history
<1>28. CASE Parse
  BY <1>28, <1>1, <1>2, BufferFacts DEF AckDue, Returning, Ownership, Phases, HandedOver,
      CountType, Live, Parse, Disconnect, comm
<1>29. CASE Hangup
  BY <1>29, <1>1, <1>2 DEF AckDue, Returning, Filling, CommType, Using, Hangup, entry, comm,
      history
<1>30. CASE Ack
  BY <1>30, <1>1, <1>2 DEF AckDue, Returning, Filling, CommType, Using, Ack, comm, history
<1>31. CASE AckSignal
  BY <1>31, <1>1, <1>2 DEF AckDue, Returning, Filling, CommType, Using, AckSignal, entry, comm,
      history
<1>32. CASE LeaveLoop
  BY <1>32, <1>1, <1>2 DEF AckDue, Returning, Filling, CommType, Using, LeaveLoop, entry, comm,
      history
<1>33. CASE LogoutAllPlayers
  BY <1>33, <1>1, <1>2 DEF AckDue, Returning, Filling, CommType, Using, LogoutAllPlayers, comm,
      history
<1>34. CASE HangupAll
  BY <1>34, <1>1, <1>2 DEF AckDue, Returning, Filling, CommType, Using, HangupAll, entry, comm,
      history
<1>35. CASE LastRound
  BY <1>35, <1>1, <1>2 DEF AckDue, Returning, Filling, CommType, Using, LastRound, Process,
      Disconnect, entry, comm, history
<1>36. CASE JoinAcceptor
  BY <1>36, <1>1, <1>2 DEF AckDue, Returning, Filling, CommType, Using, JoinAcceptor, entry, comm,
      history
<1>37. CASE Round(TRUE)
  BY <1>37, <1>1, <1>2 DEF AckDue, Returning, Filling, CommType, Using, Round, Process,
      Disconnect, comm, history
<1> QED
  BY <1>4, <1>5, <1>6, <1>7, <1>8, <1>9, <1>10, <1>11, <1>12, <1>13, <1>14, <1>15, <1>16, <1>17,
      <1>18, <1>19, <1>20, <1>21, <1>22, <1>23, <1>24, <1>25, <1>26, <1>27, <1>28, <1>29, <1>30,
      <1>31, <1>32, <1>33, <1>34, <1>35, <1>36, <1>37 DEF Next, AcceptorStep, CommStep,
      ReceiveCommand, GameStep

\* The invariant holds in the beginning.
LEMMA InitAckInv == Init => AckInv
  BY DEF Init, AckInv, Unheard, Outstanding, AckDue, Returning, Using

\* As long as no entry changes hands between the parsing of a packet and its
\* acknowledgement, every packet handed over is acknowledged only after it was
\* parsed (receive_data), and none is overwritten before.
THEOREM AcknowledgedIsParsed == Spec /\ [][Steady]_vars => []AckedIsParsed
<1>1. IInv /\ AckInv /\ [Next]_vars /\ [Steady]_vars => AckInv'
  BY UnheardStep, OutstandingStep, AckDueStep DEF AckInv
<1>2. IInv /\ AckInv => AckedIsParsed
  <2> SUFFICES ASSUME IInv, AckInv, NEW k \in Active, handed[k] > parsed[k]
               PROVE  WaitingForACK /\ InData = <<k, handed[k]>>
    BY DEF AckedIsParsed
  <2>1. CommType /\ CountType
    BY TypeParts DEF IInv
  <2>2. k \in Client /\ handed[k] # parsed[k] /\ handed[k] # 0
    BY <2>1 DEF Active, CountType
  <2>3. cpc[k] \in Using /\ cpc[k] # "connect"
    BY <2>1, <2>2 DEF CommType, Active, AckInv, Unheard
  <2>4. WaitingForACK
    BY <2>2, <2>3 DEF AckInv, Outstanding
  <2> QED
    BY <2>2, <2>3, <2>4 DEF IInv, HandedOver
<1> QED
  BY <1>1, <1>2, InitAckInv, Invariance, PTL DEF Spec

=============================================================================
