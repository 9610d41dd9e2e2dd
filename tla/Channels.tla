------------------------------ MODULE Channels ------------------------------
(***************************************************************************)
(* Chat channels (game_data/operate/operate.cpp) and the requests that     *)
(* players send to the gamemasters, who see them in a channel of their own *)
(* (protocol/receiving, creature/player).  Everything runs on the game     *)
(* thread; an action is one command of a client, or one step of a player's *)
(* stay in the game.  A command that only answers is left out.             *)
(*                                                                         *)
(* Of the public channels only CHANNEL_RULEVIOLATIONS is here: the others  *)
(* differ in who may enter.  The lists of a channel are sets, because the  *)
(* code looks for members only.                                            *)
(***************************************************************************)
EXTENDS Naturals, Sequences, FiniteSets

CONSTANTS
    Player, NoPlayer,   \* characters; NoPlayer is ID 0
    Premium,            \* the players with a premium account
    Trusted,            \* the players who may have READ_GAMEMASTER_CHANNEL
    MAX_CHANNELS

VARIABLES
    online,             \* the players for whom get_player finds a TPlayer
    connected,          \* those among them with a connection
    gamemaster,         \* those with READ_GAMEMASTER_CHANNEL, as of their last login
    ChannelArray,       \* the first Channels entries
    Request,            \* who has a request
    RequestProcessingGamemaster,
    queue               \* external: the requests on the screen of a gamemaster

requests == <<Request, RequestProcessingGamemaster>>

ChannelRecord ==
    [Moderator : Player \cup {NoPlayer}, Subscriber : SUBSET Player, InvitedPlayer : SUBSET Player]

CHANNEL_RULEVIOLATIONS == 1
FIRST_PRIVATE_CHANNEL == 2

Private == FIRST_PRIVATE_CHANNEL .. Len(ChannelArray)

ChannelsInit ==
    /\ ChannelArray = <<[Moderator |-> NoPlayer, Subscriber |-> {}, InvitedPlayer |-> {}]>>
    /\ Request = {}
    /\ RequestProcessingGamemaster = [p \in Player |-> NoPlayer]
    /\ queue = [p \in Player |-> {}]

-----------------------------------------------------------------------------
(* Channels                                                                *)

ChannelActive(c) == c < FIRST_PRIVATE_CHANNEL \/ ChannelArray[c].Moderator # NoPlayer

ChannelAvailable(c, p) ==
    /\ ChannelActive(c)
    /\ IF c = CHANNEL_RULEVIOLATIONS THEN p \in gamemaster
       ELSE p \in ChannelArray[c].InvitedPlayer \cup {ChannelArray[c].Moderator}

ChannelsOf(p) == {c \in Private : ChannelArray[c].Moderator = p}
ChannelOf(p) == CHOOSE c \in ChannelsOf(p) : \A d \in ChannelsOf(p) : c <= d

Opened(p, Chan) ==
    IF ChannelsOf(NoPlayer) = {} THEN Append(ChannelArray, Chan)
    ELSE [ChannelArray EXCEPT ![ChannelOf(NoPlayer)] = Chan]

\* A moderator whose channel is still open is shown it and not subscribed.
OpenChannel(p) ==
    /\ p \in connected \cap Premium
    /\ Len(ChannelArray) < MAX_CHANNELS
    /\ ChannelsOf(p) = {}
    /\ ChannelArray' = Opened(p, [Moderator |-> p, Subscriber |-> {p}, InvitedPlayer |-> {}])
    /\ UNCHANGED <<requests, queue>>

\* The guest need not be online.
InviteToChannel(p, q) ==
    /\ p \in connected /\ ChannelsOf(p) # {} /\ q # p
    /\ ChannelArray' = [ChannelArray EXCEPT ![ChannelOf(p)].InvitedPlayer = @ \cup {q}]
    /\ UNCHANGED <<requests, queue>>

\* leave_channel, with close_channel.
Without(c, Chan, p, Close) ==
    LET S == IF Close /\ p = Chan.Moderator THEN {} ELSE Chan.Subscriber \ {p}
    IN [Chan EXCEPT !.Subscriber = S,
                    !.Moderator = IF c \in Private /\ S = {} THEN NoPlayer ELSE @]

\* Mutant: the player is no longer invited, and stays.
BugExclude(c, q) == [ChannelArray EXCEPT ![c].InvitedPlayer = @ \ {q}]

Exclude(c, q) ==
    LET Chan == [ChannelArray[c] EXCEPT !.InvitedPlayer = @ \ {q}]
    IN [ChannelArray EXCEPT ![c] = IF q \in Chan.Subscriber THEN Without(c, Chan, q, FALSE) ELSE Chan]

ExcludeFromChannel(p, q) ==
    /\ p \in connected /\ ChannelsOf(p) # {} /\ q # p
    /\ q \in ChannelArray[ChannelOf(p)].InvitedPlayer
    /\ ChannelArray' = Exclude(ChannelOf(p), q)
    /\ UNCHANGED <<requests, queue>>

\* CJoinChannel with join_channel and send_existing_requests.
JoinChannel(p, c) ==
    /\ p \in connected
    /\ ChannelAvailable(c, p)
    /\ ChannelArray' = [ChannelArray EXCEPT ![c].Subscriber = @ \cup {p}]
    /\ queue' = IF c # CHANNEL_RULEVIOLATIONS THEN queue
                ELSE [queue EXCEPT ![p] = {q \in Request : RequestProcessingGamemaster[q] = NoPlayer}]
    /\ UNCHANGED requests

LeaveChannel(p, c) ==
    /\ p \in connected
    /\ ChannelActive(c)
    /\ ChannelArray' = [ChannelArray EXCEPT ![c] = Without(c, @, p, TRUE)]
    /\ queue' = IF c = CHANNEL_RULEVIOLATIONS THEN [queue EXCEPT ![p] = {}] ELSE queue
    /\ UNCHANGED requests

LeaveAllChannels(p) ==
    ChannelArray' = [c \in DOMAIN ChannelArray |->
        IF ChannelActive(c) THEN Without(c, ChannelArray[c], p, FALSE) ELSE ChannelArray[c]]

-----------------------------------------------------------------------------
(* Requests                                                                *)

Watching == connected \cap ChannelArray[CHANNEL_RULEVIOLATIONS].Subscriber

\* create_gamemaster_request and delete_gamemaster_request.
Created(p) == [g \in Player |-> IF g \in Watching THEN queue[g] \cup {p} ELSE queue[g]]
Deleted(p) == [g \in Player |-> IF g \in Watching THEN queue[g] \ {p} ELSE queue[g]]

\* CTalk, TALK_GAMEMASTER_REQUEST.
SubmitRequest(p) ==
    /\ p \in connected \ Request
    /\ Request' = Request \cup {p}
    /\ RequestProcessingGamemaster' = [RequestProcessingGamemaster EXCEPT ![p] = NoPlayer]
    /\ queue' = Created(p)
    /\ UNCHANGED ChannelArray

\* CTalk, TALK_PLAYER_ANSWER to a gamemaster who is gone.
AnswerNobody(p) ==
    /\ p \in connected \cap Request
    /\ RequestProcessingGamemaster[p] # NoPlayer
    /\ RequestProcessingGamemaster[p] \notin online
    /\ Request' = Request \ {p}
    /\ UNCHANGED <<ChannelArray, RequestProcessingGamemaster, queue>>

\* CProcessRequest.
ProcessRequest(g, p) ==
    /\ g \in connected \cap gamemaster /\ p \in Request
    /\ RequestProcessingGamemaster[p] = NoPlayer
    /\ RequestProcessingGamemaster' = [RequestProcessingGamemaster EXCEPT ![p] = g]
    /\ queue' = Deleted(p)
    /\ UNCHANGED <<ChannelArray, Request>>

\* CRemoveRequest: whoever processes a request ends it; one that nobody
\* processes only disappears from the screens.
RemoveRequest(g, p) ==
    /\ g \in connected \cap gamemaster /\ p \in Request
    /\ \/ /\ RequestProcessingGamemaster[p] = g
          /\ Request' = Request \ {p}
          /\ UNCHANGED queue
       \/ /\ RequestProcessingGamemaster[p] = NoPlayer
          /\ queue' = Deleted(p)
          /\ UNCHANGED Request
    /\ UNCHANGED <<ChannelArray, RequestProcessingGamemaster>>

\* CCancelRequest, for gamemasters only.
CancelRequest(p) ==
    /\ p \in connected \cap gamemaster \cap Request
    /\ Request' = Request \ {p}
    /\ queue' = IF RequestProcessingGamemaster[p] = NoPlayer THEN Deleted(p) ELSE queue
    /\ UNCHANGED <<ChannelArray, RequestProcessingGamemaster>>

\* The requests that close_processed_requests ends.
ProcessedBy(g) == {p \in Request : RequestProcessingGamemaster[p] = g}

\* TPlayer::ClearRequest, after the requests of closed were ended.  Without a
\* request the gamemaster of it is not read, so it is reset here always.  Nobody
\* sees the screen of a player without a connection or a channel.
ClearRequest(p, closed) ==
    /\ Request' = (Request \ closed) \ {p}
    /\ RequestProcessingGamemaster' = [RequestProcessingGamemaster EXCEPT ![p] = NoPlayer]
    /\ queue' = [IF p \in Request \ closed /\ RequestProcessingGamemaster[p] = NoPlayer
                 THEN Deleted(p) ELSE queue EXCEPT ![p] = {}]

-----------------------------------------------------------------------------
(* A player's stay in the game                                             *)

\* TPlayer::ClearConnection.
ChannelsDisconnect(p) ==
    /\ ClearRequest(p, {})
    /\ UNCHANGED ChannelArray

\* TPlayer::TakeOver, with the rights of the new login: the requests that the
\* player processes are ended after its own, if it is still a gamemaster.
ChannelsTakeOver(p) ==
    /\ ClearRequest(p, IF p \in gamemaster' THEN ProcessedBy(p) \ {p} ELSE {})
    /\ LeaveAllChannels(p)

\* TPlayer::~TPlayer.
ChannelsLogout(p) ==
    /\ ClearRequest(p, IF p \in gamemaster THEN ProcessedBy(p) ELSE {})
    /\ LeaveAllChannels(p)

ChannelsCommand ==
    \/ \E p \in Player : OpenChannel(p)
    \/ \E p, q \in Player : InviteToChannel(p, q) \/ ExcludeFromChannel(p, q)
    \/ \E p \in Player, c \in DOMAIN ChannelArray : JoinChannel(p, c) \/ LeaveChannel(p, c)

RequestCommand ==
    \/ \E p \in Player : SubmitRequest(p) \/ AnswerNobody(p) \/ CancelRequest(p)
    \/ \E g, p \in Player : ProcessRequest(g, p) \/ RemoveRequest(g, p)
    \/ \E g \in Player : JoinChannel(g, CHANNEL_RULEVIOLATIONS) \/ LeaveChannel(g, CHANNEL_RULEVIOLATIONS)

-----------------------------------------------------------------------------
\* Who listens to a channel may: it is in the game, and invited, the moderator
\* or a gamemaster, however the channel changed hands, also after exclusions,
\* logouts and take-overs with fewer rights.
SubscribersEntitled ==
    \A c \in DOMAIN ChannelArray : ChannelActive(c) =>
        \A p \in ChannelArray[c].Subscriber : p \in online /\ ChannelAvailable(c, p)

\* A request waits for no gamemaster who has left: unless the gamemaster lost
\* the right since, a logout ends what it was processing.
GamemasterPresent ==
    \A p \in Request : RequestProcessingGamemaster[p] \in online \cup {NoPlayer} \cup (Player \ gamemaster)

\* What a gamemaster sees in the queue can be processed.
QueueIsTrue ==
    \A g \in Watching, p \in Player : p \in queue[g] => p \in Request /\ RequestProcessingGamemaster[p] = NoPlayer

=============================================================================
