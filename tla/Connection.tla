----------------------------- MODULE Connection -----------------------------
(***************************************************************************)
(* One entry of Connections[] (network/connection) and the threads that    *)
(* use it: the acceptor, one communication thread per client               *)
(* (protocol/communication) and the game thread (protocol/receiving,       *)
(* main).  The threads share the entry's fields without a lock and wake    *)
(* each other with signals, of which a thread has at most one of each      *)
(* kind pending.                                                           *)
(*                                                                         *)
(* State belongs to the communication thread until it is LOGIN, then to    *)
(* the game thread until it is DISCONNECTED.  InData belongs to the game   *)
(* thread while WaitingForACK is set.                                      *)
(*                                                                         *)
(* Packets are numbered per client; the first one is the login packet.     *)
(* Delays (ClosingIsDelayed, the delay of logout) are left out: they only  *)
(* say when a step happens.                                                *)
(***************************************************************************)
EXTENDS Integers, FiniteSets

CONSTANTS
    Client, NoClient,   \* clients; each has a communication thread of its own
    MaxPackets,         \* bound on the packets of a client
    MaxThreads,         \* MAX_COMMUNICATION_THREADS
    EarlyData,          \* whether data may arrive before the thread blocks signals
    MayEnd              \* whether the operator may end the game

ASSUME ConnectionAssumption ==
    /\ NoClient \notin Client
    /\ MaxPackets \in Nat /\ MaxThreads \in Nat
    /\ EarlyData \in BOOLEAN /\ MayEnd \in BOOLEAN

VARIABLES
    State, WaitingForACK, SigIOPending, ConnectionIsOk, ThreadID, LoginTimer,
    InData,             \* the packet in the input buffer: <<client, number>>
    cpc,                \* control of the communication threads
    started,            \* the thread's first call of receive_command is over
    pending,            \* signals pending for the communication threads
    sent, read, peer,   \* sockets: packets sent and read, whether the peer is there
    apc, listening,     \* acceptor thread; whether its socket is open
    running,            \* GameRunning()
    gpc, gnext, usr1,   \* game thread: control, return point, SigUsr1Counter > 0
    handed, parsed,     \* history: packets given to and taken by the game thread
    timerError          \* history: stop_login_timer was called without a timer

entry == <<State, WaitingForACK, SigIOPending, ConnectionIsOk, ThreadID, LoginTimer, InData>>
comm == <<cpc, started>>
sockets == <<sent, read, peer>>
acceptor == <<apc, listening>>
game == <<gpc, gnext, running>>
history == <<handed, parsed, timerError>>
vars == <<entry, comm, pending, sockets, acceptor, game, usr1, history>>

InGame == {"GAME", "DEAD"}
Live == {"LOGIN", "GAME", "DEAD", "LOGOUT"}
Signal == {"SIGIO", "SIGUSR1", "SIGUSR2", "SIGALRM", "SIGHUP"}

TypeOK ==
    /\ State \in {"FREE", "ASSIGNED", "CONNECTED", "DISCONNECTED"} \cup Live
    /\ WaitingForACK \in BOOLEAN /\ SigIOPending \in BOOLEAN /\ ConnectionIsOk \in BOOLEAN
    /\ ThreadID \in Client \cup {NoClient}
    /\ LoginTimer \in BOOLEAN
    /\ InData \in (Client \cup {NoClient}) \X (0 .. MaxPackets)
    /\ cpc \in [Client -> {"none", "assign", "take", "connect", "mask", "receive", "login",
                           "register", "call", "signal", "loop", "wait", "close", "ended"}]
    /\ started \in [Client -> BOOLEAN]
    /\ pending \in [Client -> SUBSET Signal]
    /\ sent \in [Client -> 0 .. MaxPackets]
    /\ read \in [Client -> 0 .. MaxPackets]
    /\ peer \in [Client -> BOOLEAN]
    /\ apc \in {"test", "accept", "finish", "done"} /\ listening \in BOOLEAN
    /\ running \in BOOLEAN
    /\ gpc \in {"idle", "scan", "parse", "hangup", "ack", "acksignal",
                "logoutall", "hangupall", "lastround", "join", "exited"}
    /\ gnext \in {"idle", "ack", "join"}
    /\ usr1 \in BOOLEAN
    /\ handed \in [Client -> 0 .. MaxPackets]
    /\ parsed \in [Client -> 0 .. MaxPackets]
    /\ timerError \in BOOLEAN
    /\ \A k \in Client : parsed[k] <= handed[k] /\ handed[k] <= read[k] /\ read[k] <= sent[k]

Init ==
    /\ State = "FREE"
    /\ WaitingForACK = FALSE /\ SigIOPending = FALSE /\ ConnectionIsOk = FALSE
    /\ ThreadID = NoClient /\ LoginTimer = FALSE /\ InData = <<NoClient, 0>>
    /\ cpc = [k \in Client |-> "none"]
    /\ started = [k \in Client |-> FALSE]
    /\ pending = [k \in Client |-> {}]
    /\ sent = [k \in Client |-> 0] /\ read = [k \in Client |-> 0]
    /\ peer = [k \in Client |-> TRUE]
    /\ apc = "test" /\ listening = TRUE
    /\ running = TRUE
    /\ gpc = "idle" /\ gnext = "idle" /\ usr1 = FALSE
    /\ handed = [k \in Client |-> 0] /\ parsed = [k \in Client |-> 0]
    /\ timerError = FALSE

Goto(k, from, to) ==
    /\ cpc[k] = from
    /\ cpc' = [cpc EXCEPT ![k] = to]

Unread(k) == sent[k] - read[k]

\* The thread has blocked all signals, so that they stay pending.
Masked(k) == cpc[k] \notin {"none", "assign", "take", "connect", "mask", "ended"}

Active == {k \in Client : cpc[k] \notin {"none", "ended"}}      \* ActiveConnections

\* tgkill; a signal for a thread that has ended gets lost.
Kill(k, s) ==
    pending' = IF k \in Client /\ Masked(k) THEN [pending EXCEPT ![k] = @ \cup {s}] ELSE pending

-----------------------------------------------------------------------------
(* Clients.                                                                *)

Send(k) ==
    /\ peer[k]
    /\ sent[k] < MaxPackets
    /\ cpc[k] # "none"
    /\ EarlyData \/ Masked(k)
    /\ sent' = [sent EXCEPT ![k] = @ + 1]
    /\ Kill(k, "SIGIO")
    /\ UNCHANGED <<entry, comm, read, peer, acceptor, game, usr1, history>>

Leave(k) ==
    /\ peer[k]
    /\ cpc[k] # "none"
    /\ EarlyData \/ Masked(k)
    /\ peer' = [peer EXCEPT ![k] = FALSE]
    /\ Kill(k, "SIGIO")
    /\ UNCHANGED <<entry, comm, sent, read, acceptor, game, usr1, history>>

-----------------------------------------------------------------------------
(* acceptor_thread_loop                                                    *)

AcceptorTest ==
    /\ apc = "test"
    /\ apc' = IF running THEN "accept" ELSE "finish"
    /\ UNCHANGED <<entry, comm, pending, sockets, listening, game, usr1, history>>

\* A client without room for its thread is turned away.
Accept(k) ==
    /\ apc = "accept" /\ listening
    /\ apc' = "test"
    /\ Goto(k, "none", IF Cardinality(Active) >= MaxThreads THEN "ended" ELSE "assign")
    /\ UNCHANGED <<entry, started, pending, sockets, listening, game, usr1, history>>

AcceptFails ==
    /\ apc = "accept" /\ ~listening
    /\ apc' = "test"
    /\ UNCHANGED <<entry, comm, pending, sockets, listening, game, usr1, history>>

AcceptorEnds ==
    /\ apc = "finish"
    /\ Active = {}
    /\ apc' = "done"
    /\ UNCHANGED <<entry, comm, pending, sockets, listening, game, usr1, history>>

AcceptorStep == AcceptorTest \/ AcceptFails \/ AcceptorEnds

-----------------------------------------------------------------------------
(* communication_thread and communication_thread_common                    *)

\* Mutant: the entry is taken whatever its state.
BugTakeEntry(k) ==
    /\ \A j \in Client : cpc[j] # "take"
    /\ Goto(k, "assign", "take")
    /\ State' = "ASSIGNED"
    /\ UNCHANGED <<WaitingForACK, SigIOPending, ConnectionIsOk, ThreadID, LoginTimer, InData,
                   started, pending, sockets, acceptor, game, usr1, history>>

\* assign_free_connection finds the entry free or not ...
TakeEntry(k) ==
    /\ \A j \in Client : cpc[j] # "take"          \* ConnectionMutex
    /\ IF State = "FREE"
       THEN Goto(k, "assign", "take") /\ State' = "ASSIGNED"
       ELSE Goto(k, "assign", "ended") /\ UNCHANGED State
    /\ UNCHANGED <<WaitingForACK, SigIOPending, ConnectionIsOk, ThreadID, LoginTimer, InData,
                   started, pending, sockets, acceptor, game, usr1, history>>

\* ... and then writes its name into it.  The game thread, which does not take
\* ConnectionMutex, sees the name of the previous owner until then.
SetThread(k) ==
    /\ Goto(k, "take", "connect")
    /\ ThreadID' = k /\ LoginTimer' = FALSE
    /\ UNCHANGED <<State, WaitingForACK, SigIOPending, ConnectionIsOk, InData, started, pending,
                   sockets, acceptor, game, usr1, history>>

AssignFreeConnection(k) == TakeEntry(k) \/ SetThread(k)

Connect(k) ==
    /\ Goto(k, "connect", "mask")
    /\ State' = "CONNECTED" /\ ConnectionIsOk' = TRUE /\ WaitingForACK' = FALSE
    /\ UNCHANGED <<SigIOPending, ThreadID, LoginTimer, InData, started, pending, sockets,
                   acceptor, game, usr1, history>>

\* Blocks all signals and starts the login timer.
Start(k) ==
    /\ Goto(k, "mask", "receive")
    /\ LoginTimer' = TRUE
    /\ UNCHANGED <<State, WaitingForACK, SigIOPending, ConnectionIsOk, ThreadID, InData, started,
                   pending, sockets, acceptor, game, usr1, history>>

\* The socket cannot be set up, or the timer cannot be started.
StartFails(k) ==
    /\ Goto(k, "mask", "ended")
    /\ State' = "FREE"
    /\ UNCHANGED <<WaitingForACK, SigIOPending, ConnectionIsOk, ThreadID, LoginTimer, InData,
                   started, pending, sockets, acceptor, game, usr1, history>>

\* The login timer goes off.
TimerExpires(k) ==
    /\ Masked(k) /\ ThreadID = k /\ LoginTimer
    /\ "SIGALRM" \notin pending[k]
    /\ Kill(k, "SIGALRM")
    /\ UNCHANGED <<entry, comm, sockets, acceptor, game, usr1, history>>

\* TConnection::close_connection
CloseConnection ==
    /\ State' = IF State = "CONNECTED" THEN "DISCONNECTED" ELSE State
    /\ ConnectionIsOk' = FALSE

\* stop_login_timer reports an error if there is no timer.
StopLoginTimer ==
    /\ LoginTimer' = FALSE
    /\ timerError' = (timerError \/ ~LoginTimer)

-----------------------------------------------------------------------------
(* receive_command                                                         *)

\* receive_command is over; the first call is followed by SigIOPending = false.
Return(k) ==
    /\ Goto(k, "receive", "loop")
    /\ started' = [started EXCEPT ![k] = TRUE]

\* The game thread has the buffer: there may be more to read after the ACK.
ReceiveLater(k) ==
    /\ WaitingForACK
    /\ Return(k)
    /\ SigIOPending' = started[k]
    /\ UNCHANGED <<State, WaitingForACK, ConnectionIsOk, ThreadID, LoginTimer, InData,
                   pending, sockets, acceptor, game, usr1, history>>

\* EAGAIN: nothing to read.
ReceiveNothing(k) ==
    /\ ~WaitingForACK
    /\ Unread(k) = 0 /\ peer[k]
    /\ Return(k)
    /\ SigIOPending' = (SigIOPending /\ started[k])
    /\ UNCHANGED <<State, WaitingForACK, ConnectionIsOk, ThreadID, LoginTimer, InData,
                   pending, sockets, acceptor, game, usr1, history>>

\* End of file, a socket error, or a packet with an invalid length.
ReceiveFails(k) ==
    /\ ~WaitingForACK
    /\ \/ Unread(k) > 0 /\ read' = [read EXCEPT ![k] = @ + 1]
       \/ Unread(k) = 0 /\ ~peer[k] /\ UNCHANGED read
    /\ Return(k)
    /\ CloseConnection
    /\ SigIOPending' = (SigIOPending /\ started[k])
    /\ UNCHANGED <<WaitingForACK, ThreadID, LoginTimer, InData, pending, sent, peer,
                   acceptor, game, usr1, history>>

\* Mutant: the buffer is filled although the game thread has not read it.
BugReceivePacket(k) ==
    /\ Unread(k) > 0
    /\ read' = [read EXCEPT ![k] = @ + 1]
    /\ InData' = <<k, read[k] + 1>>
    /\ IF State = "CONNECTED"
       THEN Goto(k, "receive", "login") /\ StopLoginTimer
       ELSE Goto(k, "receive", "call") /\ UNCHANGED <<LoginTimer, timerError>>
    /\ UNCHANGED <<State, WaitingForACK, SigIOPending, ConnectionIsOk, ThreadID, started,
                   pending, sent, peer, acceptor, game, usr1, handed, parsed>>

ReceivePacket(k) ==
    /\ ~WaitingForACK
    /\ Unread(k) > 0
    /\ read' = [read EXCEPT ![k] = @ + 1]
    /\ InData' = <<k, read[k] + 1>>
    /\ IF State = "CONNECTED"
       THEN Goto(k, "receive", "login") /\ StopLoginTimer
       ELSE Goto(k, "receive", "call") /\ UNCHANGED <<LoginTimer, timerError>>
    /\ UNCHANGED <<State, WaitingForACK, SigIOPending, ConnectionIsOk, ThreadID, started,
                   pending, sent, peer, acceptor, game, usr1, handed, parsed>>

\* handle_login up to the checks of the game state ...
CheckLogin(k) ==
    /\ running
    /\ Goto(k, "login", "register")
    /\ UNCHANGED <<entry, started, pending, sockets, acceptor, game, usr1, history>>

\* ... and after the registration with the query manager.
Login(k) ==
    /\ Goto(k, "register", "call")
    /\ State' = "LOGIN"
    /\ UNCHANGED <<WaitingForACK, SigIOPending, ConnectionIsOk, ThreadID, LoginTimer, InData,
                   started, pending, sockets, acceptor, game, usr1, history>>

LoginFails(k) ==
    /\ Goto(k, "login", "loop") \/ Goto(k, "register", "loop")
    /\ started' = [started EXCEPT ![k] = TRUE]
    /\ CloseConnection
    /\ SigIOPending' = (SigIOPending /\ started[k])
    /\ UNCHANGED <<WaitingForACK, ThreadID, LoginTimer, InData, pending, sockets,
                   acceptor, game, usr1, history>>

\* call_game_thread: without a running game the packet is dropped.
CallGameThread(k) ==
    /\ Goto(k, "call", IF running THEN "signal" ELSE "receive")
    /\ IF running
       THEN /\ WaitingForACK' = TRUE
            /\ handed' = [handed EXCEPT ![k] = InData[2]]
       ELSE UNCHANGED <<WaitingForACK, handed>>
    /\ UNCHANGED <<State, SigIOPending, ConnectionIsOk, ThreadID, LoginTimer, InData, started,
                   pending, sockets, acceptor, game, usr1, parsed, timerError>>

\* tgkill finds the game thread, which is the main thread and never ends before
\* the process does.
SignalGameThread(k) ==
    /\ Goto(k, "signal", "receive")
    /\ usr1' = TRUE
    /\ UNCHANGED <<entry, started, pending, sockets, acceptor, game, history>>

ReceiveCommand(k) ==
    \/ ReceiveLater(k) \/ ReceiveNothing(k) \/ ReceiveFails(k) \/ ReceivePacket(k)
    \/ CheckLogin(k) \/ Login(k) \/ LoginFails(k)
    \/ CallGameThread(k) \/ SignalGameThread(k)

-----------------------------------------------------------------------------
(* The signal loop                                                         *)

LoopTest(k) ==
    /\ Goto(k, "loop", IF running /\ ConnectionIsOk THEN "wait" ELSE "close")
    /\ UNCHANGED <<entry, started, pending, sockets, acceptor, game, usr1, history>>

\* sigwait
Fetch(k, s, to) ==
    /\ s \in pending[k]
    /\ pending' = [pending EXCEPT ![k] = @ \ {s}]
    /\ Goto(k, "wait", to)

OnHangup(k) ==
    /\ Fetch(k, "SIGHUP", "loop")
    /\ CloseConnection
    /\ UNCHANGED <<WaitingForACK, SigIOPending, ThreadID, LoginTimer, InData, started, sockets,
                   acceptor, game, usr1, history>>

\* More data (SIGIO), or the ACK of the game thread (SIGUSR1).
OnInput(k) ==
    \E s \in {"SIGIO", "SIGUSR1"} :
        LET go == s = "SIGIO" \/ SigIOPending IN
        /\ Fetch(k, s, IF go /\ ~WaitingForACK THEN "receive" ELSE "loop")
        /\ SigIOPending' = IF go THEN WaitingForACK ELSE SigIOPending
        /\ UNCHANGED <<State, WaitingForACK, ConnectionIsOk, ThreadID, LoginTimer, InData, started,
                       sockets, acceptor, game, usr1, history>>

\* send_data, which may fail.
OnOutput(k) ==
    /\ Fetch(k, "SIGUSR2", "loop")
    /\ UNCHANGED <<State, ConnectionIsOk>> \/ CloseConnection
    /\ UNCHANGED <<WaitingForACK, SigIOPending, ThreadID, LoginTimer, InData, started, sockets,
                   acceptor, game, usr1, history>>

OnAlarm(k) ==
    /\ Fetch(k, "SIGALRM", "loop")
    /\ StopLoginTimer
    /\ IF State = "CONNECTED" THEN CloseConnection ELSE UNCHANGED <<State, ConnectionIsOk>>
    /\ UNCHANGED <<WaitingForACK, SigIOPending, ThreadID, InData, started, sockets,
                   acceptor, game, usr1, handed, parsed>>

\* The thread waits until the game thread is done with the connection.
FreeConnection(k) ==
    /\ State \notin Live
    /\ Goto(k, "close", "ended")
    /\ State' = "FREE"
    /\ pending' = [pending EXCEPT ![k] = {}]
    /\ UNCHANGED <<WaitingForACK, SigIOPending, ConnectionIsOk, ThreadID, LoginTimer, InData,
                   started, sockets, acceptor, game, usr1, history>>

CommStep(k) ==
    \/ AssignFreeConnection(k) \/ Connect(k) \/ Start(k) \/ StartFails(k)
    \/ ReceiveCommand(k)
    \/ LoopTest(k) \/ OnHangup(k) \/ OnInput(k) \/ OnOutput(k) \/ OnAlarm(k)
    \/ FreeConnection(k)

-----------------------------------------------------------------------------
(* Game thread: receive_data                                               *)

OnSigUsr1 ==
    /\ gpc = "idle" /\ running
    /\ usr1
    /\ usr1' = FALSE
    /\ gpc' = "scan"
    /\ UNCHANGED <<entry, comm, pending, sockets, acceptor, gnext, running, history>>

\* Mutant: the flag of the communication thread is not looked at.
BugScan ==
    /\ gpc = "scan"
    /\ gpc' = IF State \in Live THEN "parse" ELSE "idle"
    /\ UNCHANGED <<entry, comm, pending, sockets, acceptor, gnext, running, usr1, history>>

Scan ==
    /\ gpc = "scan"
    /\ gpc' = IF State \in Live /\ WaitingForACK THEN "parse" ELSE "idle"
    /\ UNCHANGED <<entry, comm, pending, sockets, acceptor, gnext, running, usr1, history>>

\* TConnection::disconnect sets the state before it sends SIGHUP.
Disconnect(next) ==
    /\ State' = "DISCONNECTED" /\ ConnectionIsOk' = FALSE
    /\ gpc' = "hangup" /\ gnext' = next

\* A login packet makes the player enter or fails; a command may be ignored,
\* and CL_CMD_LOGOUT or a wrong answer to a challenge ends the game for the
\* player.
Parse ==
    /\ gpc = "parse"
    /\ parsed' = [parsed EXCEPT ![InData[1]] = InData[2]]
    /\ \/ /\ State = "LOGIN"
          /\ Disconnect("ack")
       \/ /\ State' \in (IF State = "LOGIN" THEN {"GAME"} ELSE {State, "LOGOUT"})
          /\ gpc' = "ack"
          /\ UNCHANGED <<ConnectionIsOk, gnext>>
    /\ UNCHANGED <<WaitingForACK, SigIOPending, ThreadID, LoginTimer, InData, comm, pending,
                   sockets, acceptor, running, usr1, handed, timerError>>

Hangup ==
    /\ gpc = "hangup"
    /\ Kill(ThreadID, "SIGHUP")
    /\ gpc' = gnext
    /\ UNCHANGED <<entry, comm, sockets, acceptor, gnext, running, usr1, history>>

Ack ==
    /\ gpc = "ack"
    /\ WaitingForACK' = FALSE
    /\ gpc' = "acksignal"
    /\ UNCHANGED <<State, SigIOPending, ConnectionIsOk, ThreadID, LoginTimer, InData, comm, pending,
                   sockets, acceptor, gnext, running, usr1, history>>

AckSignal ==
    /\ gpc = "acksignal"
    /\ IF State \in Live THEN Kill(ThreadID, "SIGUSR1") ELSE UNCHANGED pending
    /\ gpc' = "idle"
    /\ UNCHANGED <<entry, comm, sockets, acceptor, gnext, running, usr1, history>>

-----------------------------------------------------------------------------
(* Game thread: the other things that happen to a connection               *)

\* Mutant: a connection that is logged out is not disconnected.
BugProcess(late, next) ==
    /\ late \/ ~running \/ ~ConnectionIsOk
    /\ \/ /\ State \in InGame
          /\ State' = "LOGOUT" /\ gpc' = next
          /\ UNCHANGED <<ConnectionIsOk, gnext>>
       \/ /\ State = "LOGIN" /\ (~running \/ ~ConnectionIsOk)
          /\ Disconnect(next)
    /\ UNCHANGED <<WaitingForACK, SigIOPending, ThreadID, LoginTimer, InData, comm, pending,
                   sockets, acceptor, running, usr1, history>>

\* TConnection::process for a connection that is broken, or late: the player
\* is idle or silent for too long, or the delay of its logout is over.
Process(late, next) ==
    /\ late \/ ~running \/ ~ConnectionIsOk
    /\ \/ /\ State \in InGame
          /\ State' = "LOGOUT" /\ gpc' = next
          /\ UNCHANGED <<ConnectionIsOk, gnext>>
       \/ /\ State = "LOGIN" /\ (~running \/ ~ConnectionIsOk)
          /\ Disconnect(next)
       \/ /\ State = "LOGOUT"
          /\ Disconnect(next)
    /\ UNCHANGED <<WaitingForACK, SigIOPending, ThreadID, LoginTimer, InData, comm, pending,
                   sockets, acceptor, running, usr1, history>>

\* process_connections, once per round.
Round(late) == gpc = "idle" /\ running /\ Process(late, "idle")

\* Another entry's thread has a packet for the game thread, which then looks
\* at this entry too.
OtherPacket ==
    /\ running /\ ~usr1
    /\ usr1' = TRUE
    /\ UNCHANGED <<entry, comm, pending, sockets, acceptor, game, history>>

\* The player dies; it is logged out by a takeover, at its death or by a
\* challenge it did not answer; send_all has output for the client.
PlayerEvent ==
    /\ gpc = "idle" /\ running
    /\ \/ State = "GAME" /\ State' = "DEAD" /\ UNCHANGED pending
       \/ State \in InGame /\ State' = "LOGOUT" /\ UNCHANGED pending
       \/ State \in Live \ {"LOGIN"} /\ Kill(ThreadID, "SIGUSR2") /\ UNCHANGED State
    /\ UNCHANGED <<WaitingForACK, SigIOPending, ConnectionIsOk, ThreadID, LoginTimer, InData, comm,
                   sockets, acceptor, game, usr1, history>>

-----------------------------------------------------------------------------
(* The end of the game: LaunchGame returns, then exit_communication        *)

\* DefaultHandler runs at any time.
EndGame ==
    /\ MayEnd /\ running
    /\ running' = FALSE
    /\ UNCHANGED <<entry, comm, pending, sockets, acceptor, gpc, gnext, usr1, history>>

LeaveLoop ==
    /\ gpc = "idle" /\ ~running
    /\ gpc' = "logoutall"
    /\ UNCHANGED <<entry, comm, pending, sockets, acceptor, gnext, running, usr1, history>>

LogoutAllPlayers ==
    /\ gpc = "logoutall"
    /\ State' = IF State \in InGame THEN "LOGOUT" ELSE State
    /\ gpc' = "hangupall"
    /\ UNCHANGED <<WaitingForACK, SigIOPending, ConnectionIsOk, ThreadID, LoginTimer, InData, comm,
                   pending, sockets, acceptor, gnext, running, usr1, history>>

HangupAll ==
    /\ gpc = "hangupall"
    /\ IF State # "FREE" THEN Kill(ThreadID, "SIGHUP") ELSE UNCHANGED pending
    /\ gpc' = "lastround"
    /\ UNCHANGED <<entry, comm, sockets, acceptor, gnext, running, usr1, history>>

\* One call of process_connections, then the listening socket is closed.
LastRound ==
    /\ gpc = "lastround"
    /\ \/ Process(FALSE, "join")
       \/ /\ State \notin Live
          /\ gpc' = "join"
          /\ UNCHANGED <<entry, comm, pending, sockets, acceptor, gnext, running, usr1, history>>

CloseSocket ==
    /\ gpc = "join" /\ listening
    /\ listening' = FALSE
    /\ UNCHANGED <<entry, comm, pending, sockets, apc, game, usr1, history>>

JoinAcceptor ==
    /\ gpc = "join" /\ ~listening
    /\ apc = "done"
    /\ gpc' = "exited"
    /\ UNCHANGED <<entry, comm, pending, sockets, acceptor, gnext, running, usr1, history>>

GameStep ==
    \/ OnSigUsr1 \/ Scan \/ Parse \/ Hangup \/ Ack \/ AckSignal
    \/ LeaveLoop \/ LogoutAllPlayers \/ HangupAll \/ LastRound \/ CloseSocket \/ JoinAcceptor

-----------------------------------------------------------------------------
Next ==
    \/ \E k \in Client : Send(k) \/ Leave(k) \/ Accept(k) \/ TimerExpires(k) \/ CommStep(k)
    \/ AcceptorStep
    \/ GameStep \/ Round(TRUE) \/ OtherPacket \/ PlayerEvent \/ EndGame

Spec == Init /\ [][Next]_vars

\* Threads go on with what they have begun, sigwait does not pass over a
\* signal forever, the timer goes off, and there is a round every second.  A
\* player whose client is gone is logged out after 90 rounds of silence, and
\* the delay of a logout comes to an end.
Fairness ==
    /\ \A k \in Client :
          /\ WF_vars(CommStep(k)) /\ WF_vars(TimerExpires(k))
          /\ SF_vars(OnHangup(k)) /\ SF_vars(OnInput(k)) /\ SF_vars(OnAlarm(k))
    /\ WF_vars(AcceptorStep)
    /\ WF_vars(GameStep)
    /\ SF_vars(Round(FALSE))
    /\ SF_vars(Round(State = "LOGOUT" \/ (ThreadID \in Client /\ ~peer[ThreadID])))

FairSpec == Spec /\ Fairness

-----------------------------------------------------------------------------
(* Properties                                                              *)

\* The threads that have taken the entry.
Owners == {k \in Client : cpc[k] \notin {"none", "assign", "ended"}}

\* An entry in use belongs to exactly one communication thread, a free one to
\* nobody, and the owner does not change under the game thread: get_thread_id
\* names the owner from connect() on.  Before, between the writes of State and
\* ThreadID in assign(), it names the thread that had the entry before, which
\* has ended: a SIGHUP that exit_communication sends then reaches nobody.
OneOwner ==
    /\ IF State = "FREE" THEN Owners = {} ELSE \E k \in Client : Owners = {k}
    /\ State \notin {"FREE", "ASSIGNED"} => ThreadID \in Owners
    /\ \A k \in Owners : IF cpc[k] = "take" THEN ThreadID \notin Active ELSE ThreadID = k

\* While the game thread reads InData the communication thread does not write
\* it: the buffer is shared without a lock.
NoBufferRace ==
    gpc = "parse" => cpc[ThreadID] \notin {"login", "register", "call"} /\ InData[1] = ThreadID

\* SIGUSR1 tells the communication thread "that we parsed all received data"
\* (receive_data): a packet given to the game thread is acknowledged only
\* after it was parsed, so no packet is lost or parsed twice.
AckedIsParsed ==
    \A k \in Active : handed[k] > parsed[k] => WaitingForACK /\ InData = <<k, handed[k]>>

\* stop_login_timer is only called while the timer is set ("Timer not set.").
TimerStoppedOnce == ~timerError

SilentClientDropped ==
    \A k \in Client : (State = "CONNECTED" /\ ThreadID = k) ~> (State # "CONNECTED" \/ ThreadID # k)
GoneClientFreed == \A k \in Client : (~peer[k] /\ k \in Active) ~> cpc[k] = "ended"
PacketParsed ==
    \A k \in Client : handed[k] > parsed[k] ~> (handed[k] = parsed[k] \/ ~ConnectionIsOk \/ cpc[k] = "ended")

\* No connection hangs: a client that does not log in within the time is dropped;
\* when a client is gone its thread ends and the entry is free again, in whatever
\* state the connection was; and a packet given to the game thread is parsed
\* unless the connection ends.
ConnectionsServed == SilentClientDropped /\ GoneClientFreed /\ PacketParsed

\* "All connections closed." (exit_communication): once the game has ended all
\* communication threads end, and the acceptor thread can be joined.
AllConnectionsClosed == ~running ~> gpc = "exited"

=============================================================================
