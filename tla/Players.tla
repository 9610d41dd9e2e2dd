------------------------------ MODULE Players -------------------------------
(***************************************************************************)
(* What the server remembers of a player for the sake of others (parties,  *)
(* marks, channels and requests), through logins, lost connections,        *)
(* take-overs and logouts, in which all of it is touched at once.          *)
(*                                                                         *)
(* Channels and requests share nothing with the rest but who is there.  A  *)
(* behaviour therefore exercises the commands of one topic; commands of    *)
(* two topics in one behaviour would show no more states of either.        *)
(***************************************************************************)
EXTENDS Marks

CONSTANTS
    Premium, Trusted, MAX_CHANNELS,
    Topic,     \* the topics of a run
    Friend     \* bound: who takes part when parties and fights meet

VARIABLES
    gamemaster, ChannelArray, Request, RequestProcessingGamemaster, queue,
    topic              \* the commands that clients use

C == INSTANCE Channels

channels == <<ChannelArray, Request, RequestProcessingGamemaster, queue>>

allVars == <<vars, connected, markVars, gamemaster, channels, topic>>

PlayersInit ==
    /\ Init /\ MarksInit /\ C!ChannelsInit
    /\ connected = {} /\ gamemaster = {}
    /\ topic \in Topic

\* Logins with different rights matter to the gamemasters' commands only.
Rights(p) ==
    gamemaster' \in IF topic = "request" /\ p \in Trusted THEN {gamemaster \cup {p}, gamemaster \ {p}}
                    ELSE {gamemaster}

Enter(p) ==
    /\ topic = "friends" => p \in Friend
    /\ Login(p) /\ Rights(p)
    /\ connected' = connected \cup {p}
    /\ UNCHANGED <<markVars, channels, topic>>

\* TConnection::logout of a player who may not leave the game yet.
Disconnect(p) ==
    /\ topic \in {"channel", "request", "friends"}
    /\ p \in connected
    /\ connected' = connected \ {p}
    /\ C!ChannelsDisconnect(p)
    /\ UNCHANGED <<vars, markVars, gamemaster, topic>>

TakeOver(p) ==
    /\ topic \in {"channel", "request"}
    /\ p \in online
    /\ connected' = connected \cup {p}
    /\ Rights(p)
    /\ C!ChannelsTakeOver(p)
    /\ UNCHANGED <<vars, markVars, topic>>

\* ~TPlayer: a player may leave while it fights, dead or by force.
Exit(p) ==
    /\ C!ChannelsLogout(p) /\ Logout(p) /\ MarksLogout(p)
    /\ connected' = connected \ {p}
    /\ UNCHANGED <<gamemaster, topic>>

PartyCommand ==
    /\ \/ /\ topic \in {"party", "friends"}
          /\ \E p \in connected : \/ \E q \in Player : InviteToParty(p, q) \/ Join(p, q)
                                  \/ EarliestLogoutRound[p] <= RoundNr /\ LeaveParty(p)
       \/ /\ topic = "party"
          /\ \E p \in connected, q \in Player : RevokeInvitation(p, q) \/ PassLeadership(p, q)
    /\ UNCHANGED markVars

Fight ==
    /\ topic \in {"fight", "friends"}
    /\ \/ \E p, q \in Player : Attack(p, q)
       \/ \E p \in Player : BlockEnds(p)
    /\ UNCHANGED vars

ChannelCommand ==
    \/ topic = "channel" /\ C!ChannelsCommand
    \/ topic = "request" /\ C!RequestCommand

PlayersNext ==
    \/ \E p \in Player : Enter(p) \/ Disconnect(p) \/ TakeOver(p) \/ Exit(p)
    \/ PartyCommand /\ UNCHANGED <<connected, gamemaster, channels, topic>>
    \/ Fight /\ UNCHANGED <<connected, gamemaster, channels, topic>>
    \/ ChannelCommand /\ UNCHANGED <<vars, connected, markVars, gamemaster, topic>>
    \/ /\ topic \in {"party", "fight", "friends"} /\ NextRound
       /\ UNCHANGED <<connected, markVars, gamemaster, channels, topic>>

PlayersSpec == PlayersInit /\ [][PlayersNext]_allVars

-----------------------------------------------------------------------------
\* Channels and requests are right whoever comes and goes: who listens to a
\* channel may, no request waits for a gamemaster who left, and a gamemaster sees
\* only requests that can be processed, see Channels (exclude_from_channel,
\* close_processed_requests, ClearRequest).
ChannelsRight == C!SubscribersEntitled /\ C!GamemasterPresent /\ C!QueueIsTrue

=============================================================================
