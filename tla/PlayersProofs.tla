---------------------------- MODULE PlayersProofs ----------------------------
(***************************************************************************)
(* Proofs about Players: what the server remembers of a player for the     *)
(* sake of others stays right for any number of players, rounds and        *)
(* channels, whoever enters, loses the connection, is taken over or        *)
(* leaves.  Topic and Friend, which bound a run, play no part in them.     *)
(*                                                                         *)
(* Whatever the players do is a step of Party (PartyPart), so that the     *)
(* invariant of the parties (PartyInv) is proved of Party alone.  A        *)
(* step of a party changes one entry of PartyArray and the fields of those *)
(* who are or were in it; EntryChanged says when the two records still     *)
(* agree after such a change, and each command is shown to be one.  Marks  *)
(* and channels have invariants of their own (MarksInv, ChannelsInv) that  *)
(* rest on who is in the game (Present).                                   *)
(***************************************************************************)
EXTENDS Players, SequenceTheorems, FiniteSetTheorems, TLAPS

\* Who has a connection is in the game.
Present == online \subseteq Player /\ connected \subseteq online

\* Every step keeps it: TConnection::logout and ~TPlayer give up the connection.
LEMMA PresentStep == Present /\ [PlayersNext]_allVars => Present'
<1> SUFFICES ASSUME Present, [PlayersNext]_allVars PROVE Present'
  OBVIOUS
<1>1. ASSUME NEW p \in Player, Enter(p) PROVE Present'
  BY <1>1 DEF Enter, Login, Present
<1>2. ASSUME NEW p \in Player, Exit(p) PROVE Present'
  BY <1>2 DEF Exit, Logout, Present
<1>3. ASSUME NEW p \in Player, Disconnect(p) \/ TakeOver(p) PROVE Present'
  BY <1>3 DEF Disconnect, TakeOver, Present, vars
<1>4. CASE UNCHANGED <<online, connected>>
  BY <1>4 DEF Present
<1>5. CASE PartyCommand /\ UNCHANGED connected
  BY <1>4, <1>5 DEF PartyCommand, InviteToParty, Join, LeaveParty, RevokeInvitation, PassLeadership
<1>6. CASE (Fight \/ UNCHANGED vars \/ NextRound) /\ UNCHANGED connected
  BY <1>4, <1>6 DEF Fight, NextRound, vars
<1> QED
  BY <1>1, <1>2, <1>3, <1>5, <1>6 DEF PlayersNext, allVars

\* In every behaviour, who has a connection is in the game.
THEOREM Presence == PlayersSpec => []Present
<1>1. PlayersInit => Present
  BY DEF PlayersInit, Init, Present
<1> QED
  BY <1>1, PresentStep, PTL DEF PlayersSpec

-----------------------------------------------------------------------------
\* Whatever the players do, their parties see commands, logins, logouts and
\* rounds: the invariant of Party carries over.
LEMMA PartyPart == PlayersSpec => Spec
<1>1. PlayersInit => Init
  BY DEF PlayersInit
<1>2. Present /\ [PlayersNext]_allVars => [Next]_vars
  <2> SUFFICES ASSUME Present, [PlayersNext]_allVars PROVE Next \/ UNCHANGED vars
    OBVIOUS
  <2>1. ASSUME NEW p \in Player, Enter(p) PROVE Next
    BY <2>1 DEF Enter, Next
  <2>2. ASSUME NEW p \in Player, Exit(p) PROVE Next
    BY <2>2 DEF Exit, Next
  <2>3. ASSUME NEW p \in Player, Disconnect(p) \/ TakeOver(p) PROVE UNCHANGED vars
    BY <2>3 DEF Disconnect, TakeOver
  <2>4. CASE PartyCommand
    BY <2>4 DEF PartyCommand, Next, Present
  <2>5. CASE Fight \/ UNCHANGED vars
    BY <2>5 DEF Fight
  <2>6. CASE NextRound
    BY <2>6 DEF Next
  <2> QED
    BY <2>1, <2>2, <2>3, <2>4, <2>5, <2>6 DEF PlayersNext, allVars
<1> QED
  BY <1>1, <1>2, Presence, PTL DEF PlayersSpec, Spec

-----------------------------------------------------------------------------
\* A round begins after the first.
RoundPositive == RoundNr \in Nat /\ RoundNr >= 1

\* MarksRight, with the types and that only a player in the game is an aggressor.
MarksInv ==
    /\ AttackedPlayers \in [Player -> SUBSET Player]
    /\ EarliestLogoutRound \in [Player -> Nat]
    /\ Aggressor \subseteq online
    /\ MarksEnd /\ MarksForgotten

\* Attack blocks the logout of the one who is marked by it.
LEMMA AttackStep ==
  ASSUME Present, RoundPositive, MarksInv, NEW p \in Player, NEW v \in Player, Attack(p, v),
         UNCHANGED online
  PROVE  MarksInv'
<1>1. /\ p \in online /\ v \in online /\ v # p
      /\ EarliestLogoutRound' \in [Player -> Nat]
      /\ EarliestLogoutRound'[p] # 0
      /\ \A q \in Player : EarliestLogoutRound'[q] = 0 => EarliestLogoutRound[q] = 0
  BY MarksAssumption DEF Attack, RoundPositive, MarksInv, Blocked
<1>2. /\ AttackedPlayers' \in [Player -> SUBSET Player]
      /\ \A q \in Player \ {p} : AttackedPlayers'[q] = AttackedPlayers[q]
      /\ \/ AttackedPlayers'[p] = AttackedPlayers[p]
         \/ AttackedPlayers'[p] = AttackedPlayers[p] \cup {v} /\ p \notin AttackedPlayers[v]
      /\ Aggressor' = Aggressor \/ Aggressor' = Aggressor \cup {p}
  BY DEF Attack, RecordAttack, IsAttacker, MarksInv
<1>3. MarksEnd'
  BY <1>1, <1>2 DEF MarksInv, MarksEnd, Present
<1>4. MarksForgotten'
  BY <1>1, <1>2 DEF MarksInv, MarksForgotten
<1> QED
  BY <1>1, <1>2, <1>3, <1>4 DEF MarksInv

\* ClearPlayerkillingMarks and ~TPlayer end the marks of a player and against it.
LEMMA UnmarkStep ==
  ASSUME Present, MarksInv, NEW p \in Player, AttackedPlayers' = Unmarked(p), Aggressor' = Aggressor \ {p},
         EarliestLogoutRound' = [EarliestLogoutRound EXCEPT ![p] = 0],
         online' = online \/ online' = online \ {p}
  PROVE  MarksInv'
<1>1. /\ AttackedPlayers' \in [Player -> SUBSET Player]
      /\ EarliestLogoutRound' \in [Player -> Nat] /\ Aggressor' \subseteq online'
      /\ \A q \in Player : AttackedPlayers'[q] = IF q = p THEN {} ELSE AttackedPlayers[q] \ {p}
      /\ \A q \in Player \ {p} : EarliestLogoutRound'[q] = EarliestLogoutRound[q]
  BY DEF MarksInv, Unmarked
<1>2. MarksEnd'
  BY <1>1 DEF Present, MarksInv, MarksEnd
<1>3. MarksForgotten'
  BY <1>1 DEF MarksInv, MarksForgotten
<1> QED
  BY <1>1, <1>2, <1>3 DEF MarksInv

\* Every step keeps the marks right.
LEMMA MarksStep ==
  Present /\ RoundPositive /\ MarksInv /\ [PlayersNext]_allVars => MarksInv'
<1> SUFFICES ASSUME Present, RoundPositive, MarksInv, [PlayersNext]_allVars PROVE MarksInv'
  OBVIOUS
<1>1. ASSUME NEW p \in Player, Enter(p) PROVE MarksInv'
  BY <1>1 DEF Enter, Login, MarksInv, MarksEnd, MarksForgotten, markVars, marks
<1>2. ASSUME NEW p \in Player, Exit(p) PROVE MarksInv'
  BY <1>2, UnmarkStep DEF Exit, Logout, MarksLogout
<1>3. CASE UNCHANGED <<online, markVars>>
  BY <1>3 DEF MarksInv, MarksEnd, MarksForgotten, markVars, marks
<1>4. ASSUME NEW p \in Player, Disconnect(p) \/ TakeOver(p) PROVE MarksInv'
  BY <1>3, <1>4 DEF Disconnect, TakeOver, vars
<1>5. CASE PartyCommand
  BY <1>3, <1>5 DEF PartyCommand, InviteToParty, Join, LeaveParty, RevokeInvitation, PassLeadership
<1>6. CASE (UNCHANGED vars \/ NextRound) /\ UNCHANGED markVars
  BY <1>3, <1>6 DEF NextRound, vars
<1>7. CASE Fight
  <2>1. ASSUME NEW p \in Player, NEW q \in Player, Attack(p, q), UNCHANGED online PROVE MarksInv'
    BY <2>1, AttackStep
  <2>2. ASSUME NEW p \in Player, BlockEnds(p), UNCHANGED online PROVE MarksInv'
    BY <2>2, UnmarkStep DEF BlockEnds, ClearPlayerkillingMarks
  <2> QED
    BY <1>7, <2>1, <2>2 DEF Fight, vars
<1> QED
  BY <1>1, <1>2, <1>4, <1>5, <1>6, <1>7 DEF PlayersNext, allVars

-----------------------------------------------------------------------------
(* Channels and requests.                                                  *)

\* A function on 1 .. n is a sequence.
LEMMA FunctionIsSeq ==
  ASSUME NEW n \in Nat, NEW S, NEW f \in [1 .. n -> S]
  PROVE  f \in Seq(S) /\ Len(f) = n
<1>1. f \in Seq(S)
  BY SeqDef
<1>2. Len(f) \in Nat /\ DOMAIN f = 1 .. Len(f)
  BY <1>1, LenProperties
<1> QED
  BY <1>1, <1>2

\* The types of the channels and requests.
ChannelsType ==
    /\ gamemaster \subseteq Player
    /\ ChannelArray \in Seq(C!ChannelRecord) /\ Len(ChannelArray) >= 1
    /\ Request \subseteq Player
    /\ RequestProcessingGamemaster \in [Player -> Player \cup {NoPlayer}]
    /\ queue \in [Player -> SUBSET Player]

\* Who listens to channel c with the entry Chan may.
Listens(c, Chan, on, gm) ==
    (c = C!CHANNEL_RULEVIOLATIONS \/ Chan.Moderator # NoPlayer) =>
        \A p \in Chan.Subscriber :
            /\ p \in on
            /\ IF c = C!CHANNEL_RULEVIOLATIONS THEN p \in gm
               ELSE p \in Chan.InvitedPlayer \cup {Chan.Moderator}

\* ... in every channel.
AllListen == \A c \in DOMAIN ChannelArray : Listens(c, ChannelArray[c], online, gamemaster)

\* The three properties in the form in which they are proved.
LEMMA AllListenIsEntitled == ChannelsType => (AllListen <=> C!SubscribersEntitled)
<1> SUFFICES ASSUME ChannelsType PROVE AllListen <=> C!SubscribersEntitled
  OBVIOUS
<1>1. ASSUME NEW c \in DOMAIN ChannelArray
      PROVE  C!ChannelActive(c) <=> c = C!CHANNEL_RULEVIOLATIONS \/ ChannelArray[c].Moderator # NoPlayer
  <2>1. c \in Nat /\ c >= 1
    BY LenProperties DEF ChannelsType
  <2> QED
    BY <2>1 DEF C!ChannelActive, C!FIRST_PRIVATE_CHANNEL, C!CHANNEL_RULEVIOLATIONS
<1> QED
  BY <1>1 DEF AllListen, Listens, C!SubscribersEntitled, C!ChannelAvailable

\* leave_channel keeps an entry right, and takes nobody in.
LEMMA WithoutListens ==
  ASSUME NEW c \in Nat, NEW Chan \in C!ChannelRecord, NEW p \in Player, NEW Close \in BOOLEAN,
         NEW on, NEW gm, Listens(c, Chan, on, gm)
  PROVE  /\ C!Without(c, Chan, p, Close) \in C!ChannelRecord
         /\ Listens(c, C!Without(c, Chan, p, Close), on \ {p}, gm \ {p})
         /\ Listens(c, C!Without(c, Chan, p, Close), on, gm)
         /\ C!Without(c, Chan, p, Close).Subscriber \subseteq Chan.Subscriber \ {p}
<1> DEFINE S == IF Close /\ p = Chan.Moderator THEN {} ELSE Chan.Subscriber \ {p}
           M == IF c \in C!Private /\ S = {} THEN NoPlayer ELSE Chan.Moderator
           W == C!Without(c, Chan, p, Close)
<1>1. S \subseteq Chan.Subscriber \ {p} /\ M \in {NoPlayer, Chan.Moderator}
  OBVIOUS
<1>2. W = [Chan EXCEPT !.Subscriber = S, !.Moderator = M]
  BY DEF C!Without, C!ChannelRecord
<1>3. /\ W \in C!ChannelRecord
      /\ W.Subscriber = S /\ W.Moderator = M /\ W.InvitedPlayer = Chan.InvitedPlayer
  BY <1>1, <1>2 DEF C!ChannelRecord
<1> HIDE DEF S, M, W
<1>4. Listens(c, W, on \ {p}, gm \ {p}) /\ Listens(c, W, on, gm)
  BY <1>1, <1>3 DEF Listens
<1> QED
  BY <1>1, <1>3, <1>4 DEF W

\* The inductive invariant of the channels and requests.
ChannelsInv == ChannelsType /\ AllListen /\ C!GamemasterPresent /\ C!QueueIsTrue

\* The listeners of the channel in which the gamemasters see the requests.
Listeners == ChannelArray[C!CHANNEL_RULEVIOLATIONS].Subscriber

\* One entry is replaced by one that is right.
LEMMA EntryReplaced ==
  ASSUME ChannelsType, AllListen, NEW c, NEW Chan \in C!ChannelRecord,
         Listens(c, Chan, online, gamemaster),
         ChannelArray' = [ChannelArray EXCEPT ![c] = Chan], UNCHANGED <<online, gamemaster>>
  PROVE  /\ ChannelArray' \in Seq(C!ChannelRecord) /\ Len(ChannelArray') >= 1 /\ AllListen'
         /\ Listeners' = IF c = C!CHANNEL_RULEVIOLATIONS THEN Chan.Subscriber ELSE Listeners
<1>1. ChannelArray' \in Seq(C!ChannelRecord) /\ Len(ChannelArray') = Len(ChannelArray)
  <2>1. CASE c \in 1 .. Len(ChannelArray)
    BY <2>1, ExceptSeq DEF ChannelsType
  <2>2. CASE c \notin DOMAIN ChannelArray
    <3>1. ChannelArray \in [1 .. Len(ChannelArray) -> C!ChannelRecord]
      BY LenProperties, ElementOfSeq DEF ChannelsType
    <3>2. ChannelArray' = ChannelArray
      BY <2>2, <3>1
    <3> QED
      BY <3>2 DEF ChannelsType
  <2> QED
    BY <2>1, <2>2, LenProperties DEF ChannelsType
<1>2. /\ DOMAIN ChannelArray' = DOMAIN ChannelArray /\ 1 \in DOMAIN ChannelArray
      /\ \A d \in DOMAIN ChannelArray : ChannelArray'[d] = IF d = c THEN Chan ELSE ChannelArray[d]
  BY <1>1, LenProperties DEF ChannelsType
<1> QED
  BY <1>1, <1>2 DEF ChannelsType, AllListen, Listeners, C!CHANNEL_RULEVIOLATIONS

\* leave_all_channels keeps the array right, also without the player.
LEMMA AllLeft ==
  ASSUME ChannelsType, AllListen, NEW p \in Player, C!LeaveAllChannels(p),
         online \ {p} \subseteq online', gamemaster \ {p} \subseteq gamemaster'
  PROVE  /\ ChannelArray' \in Seq(C!ChannelRecord) /\ Len(ChannelArray') >= 1 /\ AllListen'
         /\ Listeners' \subseteq Listeners \ {p}
<1>1. Len(ChannelArray) \in Nat /\ DOMAIN ChannelArray = 1 .. Len(ChannelArray) /\ 1 \in DOMAIN ChannelArray
  BY LenProperties DEF ChannelsType
<1>2. ASSUME NEW c \in DOMAIN ChannelArray
      PROVE  /\ ChannelArray'[c] \in C!ChannelRecord
             /\ Listens(c, ChannelArray'[c], online', gamemaster')
             /\ c = 1 => ChannelArray'[c].Subscriber \subseteq ChannelArray[c].Subscriber \ {p}
  <2>1. c \in Nat /\ c >= 1 /\ ChannelArray[c] \in C!ChannelRecord /\ Listens(c, ChannelArray[c], online, gamemaster)
    BY <1>1, ElementOfSeq DEF ChannelsType, AllListen
  <2>2. CASE C!ChannelActive(c)
    <3> DEFINE W == C!Without(c, ChannelArray[c], p, FALSE)
    <3>1. ChannelArray'[c] = W
      BY <2>2 DEF C!LeaveAllChannels
    <3>2. W \in C!ChannelRecord /\ Listens(c, W, online \ {p}, gamemaster \ {p})
          /\ W.Subscriber \subseteq ChannelArray[c].Subscriber \ {p}
      BY <2>1, WithoutListens
    <3> HIDE DEF W
    <3> QED
      BY <3>1, <3>2 DEF Listens
  <2>3. CASE ~C!ChannelActive(c)
    <3>1. ChannelArray'[c] = ChannelArray[c]
      BY <2>3 DEF C!LeaveAllChannels
    <3>2. c # 1 /\ ChannelArray[c].Moderator = NoPlayer
      BY <2>1, <2>3 DEF C!ChannelActive, C!FIRST_PRIVATE_CHANNEL
    <3> QED
      BY <2>1, <3>1, <3>2 DEF Listens, C!CHANNEL_RULEVIOLATIONS
  <2> QED
    BY <2>2, <2>3
<1>3. ChannelArray' \in [1 .. Len(ChannelArray) -> C!ChannelRecord]
  BY <1>1, <1>2 DEF C!LeaveAllChannels
<1>4. ChannelArray' \in Seq(C!ChannelRecord) /\ Len(ChannelArray') = Len(ChannelArray)
  BY <1>1, <1>3, FunctionIsSeq
<1> QED
  BY <1>1, <1>2, <1>3, <1>4 DEF AllListen, Listeners, ChannelsType, C!CHANNEL_RULEVIOLATIONS

\* ClearRequest leaves on the screens only what can be processed.
LEMMA RequestCleared ==
  ASSUME Present, ChannelsType, C!QueueIsTrue, NEW p \in Player, NEW closed,
         \A q \in closed : RequestProcessingGamemaster[q] # NoPlayer,
         C!ClearRequest(p, closed), connected' \subseteq connected \cup {p}, Listeners' \subseteq Listeners
  PROVE  /\ Request' \subseteq Player
         /\ RequestProcessingGamemaster' \in [Player -> Player \cup {NoPlayer}]
         /\ queue' \in [Player -> SUBSET Player]
         /\ C!QueueIsTrue'
<1>1. /\ Request' \subseteq Player
      /\ RequestProcessingGamemaster' \in [Player -> Player \cup {NoPlayer}]
      /\ queue' \in [Player -> SUBSET Player]
  BY DEF ChannelsType, C!ClearRequest, C!Deleted
<1>2. ASSUME NEW g \in C!Watching', NEW q \in Player, q \in queue'[g]
      PROVE  q \in Request' /\ RequestProcessingGamemaster'[q] = NoPlayer
  <2>1. g \in connected \cup {p} /\ g \in Listeners /\ g \in Player
    BY DEF C!Watching, Listeners, Present
  <2>2. g # p
    BY <1>2 DEF ChannelsType, C!ClearRequest, C!Deleted
  <2>3. g \in C!Watching
    BY <2>1, <2>2 DEF C!Watching, Listeners
  <2>4. queue'[g] = IF p \in Request \ closed /\ RequestProcessingGamemaster[p] = NoPlayer
                    THEN queue[g] \ {p} ELSE queue[g]
    BY <2>1, <2>2, <2>3 DEF ChannelsType, C!ClearRequest, C!Deleted
  <2>5. q \in queue[g] /\ q \in Request /\ RequestProcessingGamemaster[q] = NoPlayer /\ q \notin closed
    BY <1>2, <2>3, <2>4 DEF C!QueueIsTrue
  <2>6. q # p
    BY <1>2, <2>4, <2>5
  <2> QED
    BY <2>5, <2>6 DEF ChannelsType, C!ClearRequest
<1> QED
  BY <1>1, <1>2 DEF C!QueueIsTrue

-----------------------------------------------------------------------------
(* A player's stay in the game.                                            *)

\* A player enters, perhaps as a gamemaster: it listens to nothing yet.
LEMMA EnterChannels ==
  ASSUME Present, ChannelsInv, NEW p \in Player, Enter(p) PROVE ChannelsInv'
<1>1. /\ p \notin online /\ online' = online \cup {p} /\ connected' = connected \cup {p}
      /\ gamemaster \ {p} \subseteq gamemaster' /\ gamemaster' \subseteq gamemaster \cup {p}
      /\ UNCHANGED channels
  BY DEF Enter, Login, Rights
<1>2. ChannelsType'
  BY <1>1 DEF ChannelsInv, ChannelsType, channels
<1>3. AllListen'
  BY <1>1 DEF ChannelsInv, AllListen, Listens, channels
<1>4. C!GamemasterPresent'
  BY <1>1 DEF ChannelsInv, ChannelsType, C!GamemasterPresent, channels
<1>5. p \notin Listeners
  <2>1. 1 \in DOMAIN ChannelArray
    BY LenProperties DEF ChannelsInv, ChannelsType
  <2> QED
    BY <1>1, <2>1 DEF ChannelsInv, AllListen, Listens, Listeners, C!CHANNEL_RULEVIOLATIONS
<1>6. C!QueueIsTrue'
  BY <1>1, <1>5 DEF ChannelsInv, C!QueueIsTrue, C!Watching, Listeners, channels
<1> QED
  BY <1>2, <1>3, <1>4, <1>6 DEF ChannelsInv

\* The connection is lost, and with it the player's own request.
LEMMA DisconnectChannels ==
  ASSUME Present, ChannelsInv, NEW p \in Player, Disconnect(p) PROVE ChannelsInv'
<1>1. /\ connected' = connected \ {p} /\ C!ClearRequest(p, {})
      /\ UNCHANGED <<online, gamemaster, ChannelArray>>
  BY DEF Disconnect, C!ChannelsDisconnect, vars
<1>2. /\ Request' \subseteq Player
      /\ RequestProcessingGamemaster' \in [Player -> Player \cup {NoPlayer}]
      /\ queue' \in [Player -> SUBSET Player] /\ C!QueueIsTrue'
  BY <1>1, RequestCleared DEF ChannelsInv, Listeners
<1>3. ChannelsType' /\ AllListen'
  BY <1>1, <1>2 DEF ChannelsInv, ChannelsType, AllListen, Listens
<1>4. C!GamemasterPresent'
  BY <1>1 DEF ChannelsInv, ChannelsType, C!GamemasterPresent, C!ClearRequest
<1> QED
  BY <1>2, <1>3, <1>4 DEF ChannelsInv

\* Another connection takes the player over, perhaps with other rights.
LEMMA TakeOverChannels ==
  ASSUME Present, ChannelsInv, NEW p \in Player, TakeOver(p) PROVE ChannelsInv'
<1> DEFINE closed == IF p \in gamemaster' THEN C!ProcessedBy(p) \ {p} ELSE {}
<1>1. /\ p \in online /\ connected' = connected \cup {p} /\ UNCHANGED online
      /\ gamemaster \ {p} \subseteq gamemaster' /\ gamemaster' \subseteq gamemaster \cup {p}
      /\ C!ClearRequest(p, closed) /\ C!LeaveAllChannels(p)
  BY DEF TakeOver, Rights, C!ChannelsTakeOver, vars
<1>2. /\ ChannelArray' \in Seq(C!ChannelRecord) /\ Len(ChannelArray') >= 1 /\ AllListen'
      /\ Listeners' \subseteq Listeners
  BY <1>1, AllLeft DEF ChannelsInv
<1>3. \A q \in closed : RequestProcessingGamemaster[q] # NoPlayer
  BY PartyAssumption DEF C!ProcessedBy
<1>4. /\ Request' \subseteq Player
      /\ RequestProcessingGamemaster' \in [Player -> Player \cup {NoPlayer}]
      /\ queue' \in [Player -> SUBSET Player] /\ C!QueueIsTrue'
  BY <1>1, <1>2, <1>3, RequestCleared DEF ChannelsInv
<1>5. ChannelsType'
  BY <1>1, <1>2, <1>4 DEF ChannelsInv, ChannelsType
<1>6. C!GamemasterPresent'
  BY <1>1 DEF ChannelsInv, ChannelsType, C!GamemasterPresent, C!ClearRequest
<1> QED
  BY <1>2, <1>4, <1>5, <1>6 DEF ChannelsInv

\* The player leaves the game, its channels and its requests.
LEMMA ExitChannels ==
  ASSUME Present, ChannelsInv, NEW p \in Player, Exit(p) PROVE ChannelsInv'
<1> DEFINE closed == IF p \in gamemaster THEN C!ProcessedBy(p) ELSE {}
<1>1. /\ connected' = connected \ {p} /\ online' = online \ {p} /\ UNCHANGED gamemaster
      /\ C!ClearRequest(p, closed) /\ C!LeaveAllChannels(p)
  BY DEF Exit, Logout, C!ChannelsLogout
<1>2. /\ ChannelArray' \in Seq(C!ChannelRecord) /\ Len(ChannelArray') >= 1 /\ AllListen'
      /\ Listeners' \subseteq Listeners
  BY <1>1, AllLeft DEF ChannelsInv
<1>3. \A q \in closed : RequestProcessingGamemaster[q] # NoPlayer
  BY PartyAssumption DEF C!ProcessedBy
<1>4. /\ Request' \subseteq Player
      /\ RequestProcessingGamemaster' \in [Player -> Player \cup {NoPlayer}]
      /\ queue' \in [Player -> SUBSET Player] /\ C!QueueIsTrue'
  BY <1>1, <1>2, <1>3, RequestCleared DEF ChannelsInv
<1>5. ChannelsType'
  BY <1>1, <1>2, <1>4 DEF ChannelsInv, ChannelsType
<1>6. C!GamemasterPresent'
  BY <1>1 DEF ChannelsInv, ChannelsType, C!GamemasterPresent, C!ClearRequest, C!ProcessedBy
<1> QED
  BY <1>2, <1>4, <1>5, <1>6 DEF ChannelsInv

-----------------------------------------------------------------------------
(* Commands on channels.                                                   *)

\* What stays as it is when only the array changes and nobody joins the channel
\* of the gamemasters.
LEMMA OnlyArray ==
  ASSUME ChannelsInv, UNCHANGED <<online, connected, gamemaster, Request, RequestProcessingGamemaster, queue>>,
         ChannelArray' \in Seq(C!ChannelRecord), Len(ChannelArray') >= 1, AllListen',
         Listeners' \subseteq Listeners
  PROVE  ChannelsInv'
<1>1. ChannelsType' /\ C!GamemasterPresent'
  BY DEF ChannelsInv, ChannelsType, C!GamemasterPresent
<1>2. C!QueueIsTrue'
  BY DEF ChannelsInv, C!QueueIsTrue, C!Watching, Listeners
<1> QED
  BY <1>1, <1>2 DEF ChannelsInv

\* The channels of the array are numbers, and the private ones do not hold
\* requests.
LEMMA ChannelNumbers ==
  ASSUME ChannelsType
  PROVE  /\ DOMAIN ChannelArray = 1 .. Len(ChannelArray) /\ Len(ChannelArray) \in Nat
         /\ \A c \in DOMAIN ChannelArray : c \in Nat /\ ChannelArray[c] \in C!ChannelRecord
         /\ \A c \in C!Private : c \in DOMAIN ChannelArray /\ c # C!CHANNEL_RULEVIOLATIONS
<1>1. DOMAIN ChannelArray = 1 .. Len(ChannelArray) /\ Len(ChannelArray) \in Nat
  BY LenProperties DEF ChannelsType
<1>2. \A c \in DOMAIN ChannelArray : c \in Nat /\ ChannelArray[c] \in C!ChannelRecord
  BY <1>1, ElementOfSeq DEF ChannelsType
<1> QED
  BY <1>1, <1>2 DEF C!Private, C!FIRST_PRIVATE_CHANNEL, C!CHANNEL_RULEVIOLATIONS

\* A nonempty set of numbers has a least element.
LEMMA Least ==
  ASSUME NEW S, S \subseteq Nat, S # {}
  PROVE  \E i \in S : \A j \in S : i <= j
<1>1. \E x \in S : \A y \in S : ~(<<y, x>> \in OpToRel(<, Nat))
  BY WFMin, NatLessThanWellFounded, Zenon
<1>2. PICK x \in S : \A y \in S : ~(<<y, x>> \in OpToRel(<, Nat))
  BY <1>1
<1>3. \A y \in S : ~(y < x)
  BY <1>2 DEF OpToRel
<1> QED
  BY <1>3

\* The channel of a player, if there is one, is a private one.
LEMMA ChannelOfPlayer ==
  ASSUME ChannelsType, NEW p, C!ChannelsOf(p) # {}
  PROVE  C!ChannelOf(p) \in C!Private /\ ChannelArray[C!ChannelOf(p)].Moderator = p
<1>1. C!ChannelsOf(p) \subseteq Nat
  BY ChannelNumbers DEF C!ChannelsOf
<1>2. \E c \in C!ChannelsOf(p) : \A d \in C!ChannelsOf(p) : c <= d
  BY <1>1, Least
<1>3. C!ChannelOf(p) \in C!ChannelsOf(p)
  BY <1>2 DEF C!ChannelOf
<1> QED
  BY <1>3 DEF C!ChannelsOf

\* open_channel: the new channel has one listener, its moderator.
LEMMA OpenChannelStep ==
  ASSUME Present, ChannelsInv, UNCHANGED <<online, connected, gamemaster>>,
         NEW p \in Player, C!OpenChannel(p)
  PROVE  ChannelsInv'
<1> DEFINE Chan == [Moderator |-> p, Subscriber |-> {p}, InvitedPlayer |-> {}]
<1>1. Chan \in C!ChannelRecord /\ p \in online
  BY DEF C!ChannelRecord, C!OpenChannel, Present
<1>2. /\ ChannelArray' = C!Opened(p, Chan) /\ C!ChannelsOf(p) = {}
      /\ UNCHANGED <<Request, RequestProcessingGamemaster, queue>>
  BY DEF C!OpenChannel, C!requests
<1>3. ASSUME NEW c, c # C!CHANNEL_RULEVIOLATIONS PROVE Listens(c, Chan, online, gamemaster)
  BY <1>1, <1>3 DEF Listens
<1> HIDE DEF Chan
<1>4. CASE C!ChannelsOf(NoPlayer) # {}
  <2>1. C!ChannelOf(NoPlayer) # C!CHANNEL_RULEVIOLATIONS
    BY <1>4, ChannelOfPlayer, ChannelNumbers DEF ChannelsInv
  <2>2. ChannelArray' = [ChannelArray EXCEPT ![C!ChannelOf(NoPlayer)] = Chan]
    BY <1>2, <1>4 DEF C!Opened
  <2>3. /\ ChannelArray' \in Seq(C!ChannelRecord) /\ Len(ChannelArray') >= 1 /\ AllListen'
        /\ Listeners' = Listeners
    BY <1>1, <1>3, <2>1, <2>2, EntryReplaced DEF ChannelsInv
  <2> QED
    BY <1>2, <2>3, OnlyArray
<1>5. CASE C!ChannelsOf(NoPlayer) = {}
  <2> DEFINE n == Len(ChannelArray) + 1
  <2>1. /\ ChannelArray' \in Seq(C!ChannelRecord) /\ Len(ChannelArray') = n
        /\ \A c \in 1 .. n : ChannelArray'[c] = IF c = n THEN Chan ELSE ChannelArray[c]
    <3>1. ChannelArray' = Append(ChannelArray, Chan)
      BY <1>2, <1>5 DEF C!Opened
    <3> QED
      BY <1>1, <3>1, AppendProperties, ChannelNumbers DEF ChannelsInv, ChannelsType
  <2>2. DOMAIN ChannelArray' = 1 .. n /\ n \in Nat /\ n > 1
    BY <2>1, LenProperties, ChannelNumbers DEF ChannelsInv, ChannelsType
  <2>3. AllListen'
    BY <1>3, <2>1, <2>2, ChannelNumbers DEF ChannelsInv, AllListen, C!CHANNEL_RULEVIOLATIONS
  <2>4. Listeners' = Listeners
    BY <2>1, <2>2 DEF Listeners, C!CHANNEL_RULEVIOLATIONS
  <2> QED
    BY <1>2, <2>1, <2>2, <2>3, <2>4, OnlyArray
<1> QED
  BY <1>4, <1>5

\* invite_to_channel: more players may listen.
LEMMA InviteStep ==
  ASSUME Present, ChannelsInv, UNCHANGED <<online, connected, gamemaster>>,
         NEW p \in Player, NEW q \in Player, C!InviteToChannel(p, q)
  PROVE  ChannelsInv'
<1> DEFINE c == C!ChannelOf(p)
           Old == ChannelArray[c]
           Chan == [Old EXCEPT !.InvitedPlayer = Old.InvitedPlayer \cup {q}]
<1>1. /\ c \in DOMAIN ChannelArray /\ Old \in C!ChannelRecord /\ c # C!CHANNEL_RULEVIOLATIONS
  BY ChannelOfPlayer, ChannelNumbers DEF ChannelsInv, C!InviteToChannel
<1>2. /\ ChannelArray' = [ChannelArray EXCEPT ![c] = Chan]
      /\ UNCHANGED <<Request, RequestProcessingGamemaster, queue>>
  BY DEF C!InviteToChannel, C!requests
<1>3. Chan \in C!ChannelRecord /\ Listens(c, Chan, online, gamemaster)
  BY <1>1 DEF ChannelsInv, AllListen, Listens, C!ChannelRecord
<1> HIDE DEF c, Chan
<1>4. /\ ChannelArray' \in Seq(C!ChannelRecord) /\ Len(ChannelArray') >= 1 /\ AllListen'
      /\ Listeners' = Listeners
  BY <1>1, <1>2, <1>3, EntryReplaced DEF ChannelsInv
<1> QED
  BY <1>2, <1>4, OnlyArray

\* exclude_from_channel: who is not invited any more does not listen.
LEMMA ExcludeStep ==
  ASSUME Present, ChannelsInv, UNCHANGED <<online, connected, gamemaster>>,
         NEW p \in Player, NEW q \in Player, C!ExcludeFromChannel(p, q)
  PROVE  ChannelsInv'
<1> DEFINE c == C!ChannelOf(p)
           Old == ChannelArray[c]
           Mid == [Old EXCEPT !.InvitedPlayer = Old.InvitedPlayer \ {q}]
           Chan == IF q \in Mid.Subscriber THEN C!Without(c, Mid, q, FALSE) ELSE Mid
<1>1. /\ c \in DOMAIN ChannelArray /\ c \in Nat /\ Old \in C!ChannelRecord
      /\ c # C!CHANNEL_RULEVIOLATIONS /\ Old.Moderator = p /\ p # q
      /\ Listens(c, Old, online, gamemaster)
  BY ChannelOfPlayer, ChannelNumbers DEF ChannelsInv, C!ExcludeFromChannel, AllListen
<1>2. /\ ChannelArray' = [ChannelArray EXCEPT ![c] = Chan]
      /\ UNCHANGED <<Request, RequestProcessingGamemaster, queue>>
  BY DEF C!ExcludeFromChannel, C!Exclude, C!requests
<1>3. /\ Mid \in C!ChannelRecord /\ Mid.Subscriber = Old.Subscriber
      /\ Mid.Moderator = p /\ Mid.InvitedPlayer = Old.InvitedPlayer \ {q}
  BY <1>1 DEF C!ChannelRecord
<1>4. Chan \in C!ChannelRecord /\ Listens(c, Chan, online, gamemaster)
  <2> HIDE DEF c, Old, Mid
  <2>1. CASE q \notin Mid.Subscriber
    BY <1>1, <1>3, <2>1 DEF Listens
  <2>2. CASE q \in Mid.Subscriber
    <3> DEFINE S == Mid.Subscriber \ {q}
               M == IF c \in C!Private /\ S = {} THEN NoPlayer ELSE Mid.Moderator
    <3>1. Chan = [Mid EXCEPT !.Subscriber = S, !.Moderator = M]
      BY <1>3, <2>2 DEF C!Without, C!ChannelRecord
    <3>2. M \in {NoPlayer, p}
      BY <1>3
    <3> HIDE DEF S, M
    <3>3. /\ Chan \in C!ChannelRecord
          /\ Chan.Subscriber = S /\ Chan.Moderator = M /\ Chan.InvitedPlayer = Mid.InvitedPlayer
      BY <1>3, <3>1, <3>2 DEF C!ChannelRecord, S
    <3> QED
      BY <1>1, <1>3, <3>2, <3>3 DEF Listens, S
  <2> QED
    BY <2>1, <2>2
<1> HIDE DEF c, Chan
<1>5. /\ ChannelArray' \in Seq(C!ChannelRecord) /\ Len(ChannelArray') >= 1 /\ AllListen'
      /\ Listeners' = Listeners
  BY <1>1, <1>2, <1>4, EntryReplaced DEF ChannelsInv
<1> QED
  BY <1>2, <1>5, OnlyArray

\* join_channel: who joins may, and a gamemaster who joins sees what is open.
LEMMA JoinChannelStep ==
  ASSUME Present, ChannelsInv, UNCHANGED <<online, connected, gamemaster>>,
         NEW p \in Player, NEW c \in DOMAIN ChannelArray, C!JoinChannel(p, c)
  PROVE  ChannelsInv'
<1> DEFINE Old == ChannelArray[c]
           Chan == [Old EXCEPT !.Subscriber = Old.Subscriber \cup {p}]
<1>1. /\ Old \in C!ChannelRecord /\ c \in Nat /\ c >= 1 /\ p \in online
      /\ Listens(c, Old, online, gamemaster) /\ C!ChannelAvailable(c, p)
  BY ChannelNumbers DEF ChannelsInv, C!JoinChannel, AllListen, Present
<1>2. /\ ChannelArray' = [ChannelArray EXCEPT ![c] = Chan]
      /\ UNCHANGED <<Request, RequestProcessingGamemaster>>
  BY DEF C!JoinChannel, C!requests
<1>3. Chan \in C!ChannelRecord /\ Chan.Subscriber = Old.Subscriber \cup {p}
  BY <1>1 DEF C!ChannelRecord
<1>4. Listens(c, Chan, online, gamemaster)
  <2>1. /\ Chan.Moderator = Old.Moderator /\ Chan.InvitedPlayer = Old.InvitedPlayer
    BY <1>1 DEF C!ChannelRecord
  <2>2. c = C!CHANNEL_RULEVIOLATIONS \/ Old.Moderator # NoPlayer
    BY <1>1 DEF C!ChannelAvailable, C!ChannelActive, C!FIRST_PRIVATE_CHANNEL, C!CHANNEL_RULEVIOLATIONS
  <2> QED
    BY <1>1, <1>3, <2>1, <2>2 DEF Listens, C!ChannelAvailable
<1> HIDE DEF Chan
<1>5. /\ ChannelArray' \in Seq(C!ChannelRecord) /\ Len(ChannelArray') >= 1 /\ AllListen'
      /\ Listeners' = IF c = C!CHANNEL_RULEVIOLATIONS THEN Chan.Subscriber ELSE Listeners
  BY <1>2, <1>3, <1>4, EntryReplaced DEF ChannelsInv
<1>6. CASE c # C!CHANNEL_RULEVIOLATIONS
  <2>1. UNCHANGED queue
    BY <1>6 DEF C!JoinChannel
  <2> QED
    BY <1>2, <1>5, <1>6, <2>1, OnlyArray
<1>7. CASE c = C!CHANNEL_RULEVIOLATIONS
  <2>1. queue' = [queue EXCEPT ![p] = {q \in Request : RequestProcessingGamemaster[q] = NoPlayer}]
    BY <1>7 DEF C!JoinChannel
  <2>2. ChannelsType'
    BY <1>2, <1>5, <2>1 DEF ChannelsInv, ChannelsType
  <2>3. C!GamemasterPresent'
    BY <1>2 DEF ChannelsInv, C!GamemasterPresent
  <2>4. Listeners' = Listeners \cup {p}
    BY <1>3, <1>5, <1>7 DEF Listeners
  <2>5. C!QueueIsTrue'
    BY <1>2, <2>1, <2>4 DEF Present, ChannelsInv, ChannelsType, C!QueueIsTrue, C!Watching, Listeners
  <2> QED
    BY <1>5, <2>2, <2>3, <2>5 DEF ChannelsInv
<1> QED
  BY <1>6, <1>7

\* leave_channel: the channel may be closed.
LEMMA LeaveChannelStep ==
  ASSUME Present, ChannelsInv, UNCHANGED <<online, connected, gamemaster>>,
         NEW p \in Player, NEW c \in DOMAIN ChannelArray, C!LeaveChannel(p, c)
  PROVE  ChannelsInv'
<1> DEFINE Chan == C!Without(c, ChannelArray[c], p, TRUE)
<1>1. c \in Nat /\ ChannelArray[c] \in C!ChannelRecord /\ Listens(c, ChannelArray[c], online, gamemaster)
  BY ChannelNumbers DEF ChannelsInv, AllListen
<1>2. /\ ChannelArray' = [ChannelArray EXCEPT ![c] = Chan]
      /\ UNCHANGED <<Request, RequestProcessingGamemaster>>
  BY DEF C!LeaveChannel, C!requests
<1>3. /\ Chan \in C!ChannelRecord /\ Listens(c, Chan, online, gamemaster)
      /\ Chan.Subscriber \subseteq ChannelArray[c].Subscriber \ {p}
  BY <1>1, WithoutListens
<1> HIDE DEF Chan
<1>4. /\ ChannelArray' \in Seq(C!ChannelRecord) /\ Len(ChannelArray') >= 1 /\ AllListen'
      /\ Listeners' = IF c = C!CHANNEL_RULEVIOLATIONS THEN Chan.Subscriber ELSE Listeners
  BY <1>2, <1>3, EntryReplaced DEF ChannelsInv
<1>5. Listeners' \subseteq Listeners
  BY <1>3, <1>4 DEF Listeners
<1>6. queue' = queue \/ queue' = [queue EXCEPT ![p] = {}]
  BY DEF C!LeaveChannel
<1>7. ChannelsType' /\ C!GamemasterPresent'
  BY <1>2, <1>4, <1>6 DEF ChannelsInv, ChannelsType, C!GamemasterPresent
<1>8. C!QueueIsTrue'
  BY <1>2, <1>5, <1>6 DEF Present, ChannelsInv, ChannelsType, C!QueueIsTrue, C!Watching, Listeners
<1> QED
  BY <1>4, <1>7, <1>8 DEF ChannelsInv

-----------------------------------------------------------------------------
(* Requests.                                                               *)

\* What stays as it is when only requests change.
LEMMA OnlyRequests ==
  ASSUME ChannelsInv, UNCHANGED <<online, connected, gamemaster, ChannelArray>>,
         Request' \subseteq Player, RequestProcessingGamemaster' \in [Player -> Player \cup {NoPlayer}],
         queue' \in [Player -> SUBSET Player], C!GamemasterPresent', C!QueueIsTrue'
  PROVE  ChannelsInv'
  BY DEF ChannelsInv, ChannelsType, AllListen

\* A request comes onto all screens.
LEMMA SubmitStep ==
  ASSUME Present, ChannelsInv, UNCHANGED <<online, connected, gamemaster>>,
         NEW p \in Player, C!SubmitRequest(p)
  PROVE  ChannelsInv'
<1>1. /\ p \notin Request /\ Request' = Request \cup {p} /\ UNCHANGED ChannelArray
      /\ RequestProcessingGamemaster' = [RequestProcessingGamemaster EXCEPT ![p] = NoPlayer]
      /\ queue' = [g \in Player |-> IF g \in C!Watching THEN queue[g] \cup {p} ELSE queue[g]]
      /\ C!Watching' = C!Watching
  BY DEF C!SubmitRequest, C!Created, C!Watching
<1>2. /\ Request' \subseteq Player /\ queue' \in [Player -> SUBSET Player]
      /\ RequestProcessingGamemaster' \in [Player -> Player \cup {NoPlayer}]
  BY <1>1 DEF ChannelsInv, ChannelsType
<1>3. C!GamemasterPresent'
  BY <1>1 DEF ChannelsInv, ChannelsType, C!GamemasterPresent
<1>4. C!Watching \subseteq Player
  BY DEF C!Watching, Present
<1>5. C!QueueIsTrue'
  BY <1>1, <1>4 DEF ChannelsInv, ChannelsType, C!QueueIsTrue
<1> QED
  BY <1>1, <1>2, <1>3, <1>5, OnlyRequests

\* A request that is processed, or that is deleted from the screens, disappears
\* from all of them; one that was processed is on none of them.
LEMMA DeletedStep ==
  ASSUME Present, ChannelsInv, UNCHANGED <<online, connected, gamemaster, ChannelArray>>,
         NEW p \in Player, Request' \in {Request, Request \ {p}},
         RequestProcessingGamemaster' = RequestProcessingGamemaster
            \/ \E g \in online : RequestProcessingGamemaster' = [RequestProcessingGamemaster EXCEPT ![p] = g],
         queue' = C!Deleted(p) \/ (UNCHANGED queue /\ RequestProcessingGamemaster[p] # NoPlayer)
  PROVE  ChannelsInv'
<1>1. C!Watching \subseteq Player /\ C!Watching' = C!Watching /\ online \subseteq Player
  BY DEF C!Watching, Present
<1>2. /\ Request' \subseteq Player /\ queue' \in [Player -> SUBSET Player]
      /\ RequestProcessingGamemaster' \in [Player -> Player \cup {NoPlayer}]
  BY <1>1 DEF ChannelsInv, ChannelsType, C!Deleted
<1>3. C!GamemasterPresent'
  BY <1>1 DEF ChannelsInv, ChannelsType, C!GamemasterPresent
<1>4. ASSUME NEW g \in C!Watching, NEW q \in Player, q \in queue'[g]
      PROVE  q \in Request' /\ RequestProcessingGamemaster'[q] = NoPlayer
  <2>1. q \in queue[g] /\ q \in Request /\ RequestProcessingGamemaster[q] = NoPlayer
    BY <1>1, <1>4 DEF ChannelsInv, C!QueueIsTrue, C!Deleted
  <2>2. q # p
    BY <1>1, <1>4, <2>1 DEF C!Deleted
  <2> QED
    BY <2>1, <2>2 DEF ChannelsInv, ChannelsType
<1>5. C!QueueIsTrue'
  BY <1>1, <1>4 DEF C!QueueIsTrue
<1> QED
  BY <1>2, <1>3, <1>5, OnlyRequests

\* Every command on a request.
LEMMA RequestStep ==
  ASSUME Present, ChannelsInv, UNCHANGED <<online, connected, gamemaster>>, C!RequestCommand
  PROVE  ChannelsInv'
<1>1. ASSUME NEW p \in Player, C!SubmitRequest(p) PROVE ChannelsInv'
  BY <1>1, SubmitStep
<1>2. ASSUME NEW p \in Player, C!AnswerNobody(p) PROVE ChannelsInv'
  BY <1>2, DeletedStep DEF C!AnswerNobody
<1>3. ASSUME NEW p \in Player, C!CancelRequest(p) PROVE ChannelsInv'
  BY <1>3, DeletedStep DEF C!CancelRequest
<1>4. ASSUME NEW g \in Player, NEW p \in Player, C!ProcessRequest(g, p) PROVE ChannelsInv'
  <2>1. g \in online
    BY <1>4 DEF C!ProcessRequest, Present
  <2> QED
    BY <1>4, <2>1, DeletedStep DEF C!ProcessRequest
<1>5. ASSUME NEW g \in Player, NEW p \in Player, C!RemoveRequest(g, p) PROVE ChannelsInv'
  BY <1>5, DeletedStep, PartyAssumption DEF C!RemoveRequest
<1>6. ASSUME NEW g \in Player, C!JoinChannel(g, C!CHANNEL_RULEVIOLATIONS)
                              \/ C!LeaveChannel(g, C!CHANNEL_RULEVIOLATIONS)
      PROVE  ChannelsInv'
  <2>1. C!CHANNEL_RULEVIOLATIONS \in DOMAIN ChannelArray
    BY ChannelNumbers DEF ChannelsInv, ChannelsType, C!CHANNEL_RULEVIOLATIONS
  <2> QED
    BY <1>6, <2>1, JoinChannelStep, LeaveChannelStep
<1> QED
  BY <1>1, <1>2, <1>3, <1>4, <1>5, <1>6 DEF C!RequestCommand

\* Every step of the players keeps channels and requests right.
LEMMA ChannelsStep == Present /\ ChannelsInv /\ [PlayersNext]_allVars => ChannelsInv'
<1> SUFFICES ASSUME Present, ChannelsInv, [PlayersNext]_allVars PROVE ChannelsInv'
  OBVIOUS
<1>1. ASSUME NEW p \in Player, Enter(p) \/ Disconnect(p) \/ TakeOver(p) \/ Exit(p) PROVE ChannelsInv'
  BY <1>1, EnterChannels, DisconnectChannels, TakeOverChannels, ExitChannels
<1>2. CASE UNCHANGED <<online, connected, gamemaster, channels>>
  <2>1. ChannelsType' /\ AllListen' /\ C!GamemasterPresent'
    BY <1>2 DEF ChannelsInv, ChannelsType, AllListen, C!GamemasterPresent, channels
  <2>2. C!QueueIsTrue'
    BY <1>2 DEF ChannelsInv, C!QueueIsTrue, C!Watching, channels
  <2> QED
    BY <2>1, <2>2 DEF ChannelsInv
<1>3. CASE PartyCommand /\ UNCHANGED <<connected, gamemaster, channels>>
  BY <1>2, <1>3 DEF PartyCommand, InviteToParty, Join, LeaveParty, RevokeInvitation, PassLeadership
<1>4. CASE (Fight \/ NextRound) /\ UNCHANGED <<connected, gamemaster, channels>>
  BY <1>2, <1>4 DEF Fight, NextRound, vars
<1>5. CASE UNCHANGED allVars
  BY <1>2, <1>5 DEF allVars, vars
<1>6. CASE ChannelCommand /\ UNCHANGED <<online, connected, gamemaster>>
  <2>1. CASE C!RequestCommand
    BY <1>6, <2>1, RequestStep
  <2>2. CASE C!ChannelsCommand
    BY <1>6, <2>2, OpenChannelStep, InviteStep, ExcludeStep, JoinChannelStep, LeaveChannelStep
       DEF C!ChannelsCommand
  <2> QED
    BY <1>6, <2>1, <2>2 DEF ChannelCommand
<1> QED
  BY <1>1, <1>3, <1>4, <1>5, <1>6 DEF PlayersNext, vars

\* ChannelsRight holds in every behaviour of the players: nobody listens to a
\* channel without the right to, no request waits for a gamemaster who left, and
\* a gamemaster sees only requests that can be processed.
THEOREM ChannelsKept == PlayersSpec => []ChannelsRight
<1>1. PlayersInit => ChannelsInv
  <2> SUFFICES ASSUME PlayersInit PROVE ChannelsInv
    OBVIOUS
  <2>1. /\ ChannelArray = <<[Moderator |-> NoPlayer, Subscriber |-> {}, InvitedPlayer |-> {}]>>
        /\ Request = {} /\ RequestProcessingGamemaster = [p \in Player |-> NoPlayer]
        /\ queue = [p \in Player |-> {}] /\ gamemaster = {} /\ connected = {}
    BY DEF PlayersInit, C!ChannelsInit
  <2>2. ChannelsType
    BY <2>1 DEF ChannelsType, C!ChannelRecord
  <2> QED
    BY <2>1, <2>2 DEF ChannelsInv, AllListen, Listens, C!GamemasterPresent, C!QueueIsTrue, C!Watching
<1>2. ChannelsInv => ChannelsRight
  BY AllListenIsEntitled DEF ChannelsInv, ChannelsRight
<1> QED
  BY <1>1, <1>2, ChannelsStep, Presence, PTL DEF PlayersSpec

-----------------------------------------------------------------------------
(* Parties.                                                                *)

\* The leader whom a player believes to have.
Leaders == [p \in Player |-> GetPartyLeader(p, FALSE)]

\* The entries of an array that are parties.
Act(A) == {i \in DOMAIN A : A[i].Leader # NoPlayer}

\* No member is entered twice.
Once(s) == \A j, k \in DOMAIN s : s[j] = s[k] => j = k

\* The entry P is right when the leaders of the players are f and on are online.
EntryRight(P, f, on) ==
    /\ P.Leader \in MembersOf(P) /\ MembersOf(P) \cap P.Invited = {}
    /\ Once(P.Member)
    /\ \A m \in MembersOf(P) : m \in on /\ f[m] = P.Leader

\* MembersAgree for an array and the leaders in which the players believe.
Agree(A, f, on) ==
    /\ \A i \in Act(A) : EntryRight(A[i], f, on)
    /\ \A i, j \in Act(A) : i # j => MembersOf(A[i]) \cap MembersOf(A[j]) = {}
    /\ \A p \in on : f[p] # NoPlayer => \E i \in Act(A) : p \in MembersOf(A[i])

\* A player who is not in the game has no party and has left none.
OfflineForgotten ==
    \A p \in Player \ online : PartyLeader[p] = NoPlayer /\ PartyLeavingRound[p] = 0

PartyInv == TypeOK /\ OfflineForgotten /\ Agree(PartyArray, Leaders, online)

\* What Agree says of the state is MembersAgree.
LEMMA AgreeIsMembersAgree ==
  ASSUME TypeOK, Agree(PartyArray, Leaders, online) PROVE MembersAgree
<1>1. \A i \in DOMAIN PartyArray : MembersOf(PartyArray[i]) \subseteq Player
  <2> SUFFICES ASSUME NEW i \in DOMAIN PartyArray PROVE MembersOf(PartyArray[i]) \subseteq Player
    OBVIOUS
  <2>1. PartyArray[i] \in PartyRecord
    BY LenProperties, ElementOfSeq DEF TypeOK
  <2> QED
    BY <2>1, LenProperties, ElementOfSeq DEF PartyRecord, MembersOf
<1>2. Active = Act(PartyArray)
  BY DEF Active, Act
<1>3. \A p \in online : p \in Player
  BY DEF TypeOK
<1> QED
  BY <1>1, <1>2, <1>3 DEF Agree, EntryRight, Once, MembersAgree, Leaders

\* An entry is added or replaced.  Who was in it and is not any more has no
\* party, who is new in it had none, and nobody else is touched.
Changed(A, B, f, g, on, on2, i, old, new) ==
    /\ on \subseteq Player /\ on2 \subseteq Player
    /\ i \in DOMAIN B /\ DOMAIN B = DOMAIN A \cup {i} /\ \A j \in DOMAIN A \ {i} : B[j] = A[j]
    /\ old = IF i \in Act(A) THEN MembersOf(A[i]) ELSE {}
    /\ new = IF i \in Act(B) THEN MembersOf(B[i]) ELSE {}
    /\ i \in Act(B) => EntryRight(B[i], g, on2)
    /\ \A m \in new \ old : f[m] = NoPlayer
    /\ \A m \in old \ new : m \notin on2 \/ g[m] = NoPlayer
    /\ \A m \in Player \ (old \cup new) : g[m] = f[m] /\ (m \in on2 <=> m \in on)

\* Then the records still agree.
LEMMA EntryChanged ==
  ASSUME NEW A, NEW B, NEW f, NEW g, NEW on, NEW on2, NEW i, NEW old, NEW new,
         Agree(A, f, on), Changed(A, B, f, g, on, on2, i, old, new)
  PROVE  Agree(B, g, on2)
<1> USE DEF Changed
<1>1. \A j \in Act(B) \ {i} : j \in Act(A) /\ j \in DOMAIN A /\ B[j] = A[j]
  BY DEF Act
<1>2. ASSUME NEW j \in Act(B) \ {i}, NEW m \in MembersOf(B[j])
      PROVE  /\ m \notin old \cup new /\ m \in on /\ f[m] = B[j].Leader /\ B[j].Leader # NoPlayer
             /\ m \in on2 /\ g[m] = f[m]
  <2>1. j \in Act(A) /\ B[j] = A[j] /\ B[j].Leader # NoPlayer
    BY <1>1 DEF Act
  <2>2. m \in on /\ f[m] = B[j].Leader
    BY <2>1 DEF Agree, EntryRight
  <2>3. m \notin old
    BY <2>1 DEF Agree
  <2>4. m \notin new
    BY <2>1, <2>2, <2>3
  <2> QED
    BY <2>1, <2>2, <2>3, <2>4
<1>3. \A j \in Act(B) : EntryRight(B[j], g, on2)
  BY <1>1, <1>2 DEF Agree, EntryRight
<1>4. \A j, k \in Act(B) : j # k => MembersOf(B[j]) \cap MembersOf(B[k]) = {}
  <2>1. \A j \in Act(B) \ {i} : i \in Act(B) => MembersOf(B[i]) \cap MembersOf(B[j]) = {}
    BY <1>2
  <2>2. \A j, k \in Act(B) \ {i} : j # k => MembersOf(B[j]) \cap MembersOf(B[k]) = {}
    BY <1>1 DEF Agree
  <2> QED
    BY <2>1, <2>2
<1>5. ASSUME NEW p \in on2, g[p] # NoPlayer PROVE \E j \in Act(B) : p \in MembersOf(B[j])
  <2>1. CASE p \in new
    BY <2>1
  <2>2. CASE p \notin new
    <3>1. p \notin old /\ p \in on /\ f[p] # NoPlayer
      BY <1>5, <2>2
    <3>2. PICK j \in Act(A) : p \in MembersOf(A[j])
      BY <3>1 DEF Agree
    <3>3. j # i
      BY <3>1, <3>2
    <3>4. j \in Act(B) /\ B[j] = A[j]
      BY <3>3 DEF Act
    <3> QED
      BY <3>2, <3>4
  <2> QED
    BY <2>1, <2>2
<1> QED
  BY <1>3, <1>4, <1>5 DEF Agree

\* The members of an entry are players, and entries are numbers.
LEMMA EntryFacts ==
  ASSUME TypeOK
  PROVE  /\ DOMAIN PartyArray = 1 .. Len(PartyArray) /\ Len(PartyArray) \in Nat
         /\ \A i \in DOMAIN PartyArray : /\ i \in Nat /\ PartyArray[i] \in PartyRecord
                                         /\ MembersOf(PartyArray[i]) \subseteq Player
<1>1. DOMAIN PartyArray = 1 .. Len(PartyArray) /\ Len(PartyArray) \in Nat
  BY LenProperties DEF TypeOK
<1>2. ASSUME NEW i \in DOMAIN PartyArray
      PROVE  i \in Nat /\ PartyArray[i] \in PartyRecord /\ MembersOf(PartyArray[i]) \subseteq Player
  <2>1. PartyArray[i] \in PartyRecord /\ i \in Nat
    BY <1>1, ElementOfSeq DEF TypeOK
  <2> QED
    BY <2>1, LenProperties, ElementOfSeq DEF PartyRecord, MembersOf
<1> QED
  BY <1>1, <1>2

\* get_party finds an entry of that leader if there is one.
LEMMA GetPartyFound ==
  ASSUME TypeOK, NEW l, PartiesOf(l) # {}
  PROVE  /\ GetParty(l) \in DOMAIN PartyArray /\ PartyArray[GetParty(l)].Leader = l
         /\ PartyArray[GetParty(l)] \in PartyRecord
<1>1. PartiesOf(l) \subseteq Nat
  BY EntryFacts DEF PartiesOf
<1>2. \E i \in PartiesOf(l) : \A j \in PartiesOf(l) : i <= j
  BY <1>1, Least
<1>3. GetParty(l) \in PartiesOf(l)
  BY <1>2 DEF GetParty
<1> QED
  BY <1>3, EntryFacts DEF PartiesOf

\* Who believes to have a leader is a member of the party that get_party finds
\* for this leader.
LEMMA MemberOfParty ==
  ASSUME PartyInv, NEW m \in online, GetPartyLeader(m, FALSE) # NoPlayer
  PROVE  /\ PartiesOf(GetPartyLeader(m, FALSE)) # {}
         /\ m \in MembersOf(PartyArray[GetParty(GetPartyLeader(m, FALSE))])
<1> DEFINE l == GetPartyLeader(m, FALSE)
<1>1. m \in Player /\ Leaders[m] = l /\ l # NoPlayer
  BY DEF PartyInv, TypeOK, Leaders
<1> HIDE DEF l
<1>2. PICK i \in Act(PartyArray) : m \in MembersOf(PartyArray[i])
  BY <1>1 DEF PartyInv, Agree
<1>3. PartyArray[i].Leader = l /\ l \in MembersOf(PartyArray[i])
  BY <1>1, <1>2 DEF PartyInv, Agree, EntryRight
<1>4. PartiesOf(l) # {}
  BY <1>2, <1>3 DEF PartiesOf, Act
<1>5. GetParty(l) \in DOMAIN PartyArray /\ PartyArray[GetParty(l)].Leader = l
  BY <1>4, GetPartyFound DEF PartyInv
<1>6. GetParty(l) \in Act(PartyArray)
  BY <1>1, <1>5 DEF Act
<1>7. l \in MembersOf(PartyArray[GetParty(l)])
  BY <1>5, <1>6 DEF PartyInv, Agree, EntryRight
<1>8. GetParty(l) = i
  BY <1>3, <1>6, <1>7 DEF PartyInv, Agree
<1> QED
  BY <1>2, <1>4, <1>8 DEF l

\* Who is refused or accepted as a newcomer has no party.
LEMMA NoLeader ==
  ASSUME TypeOK, NEW p \in Player, GetPartyLeader(p, TRUE) = NoPlayer
  PROVE  Leaders[p] = NoPlayer
  BY DEF Leaders, GetPartyLeader

-----------------------------------------------------------------------------
(* Commands on parties.                                                    *)

\* The types of the fields and of the array after a step, and what the players
\* believe then.
Fields ==
    /\ RoundNr \in 1 .. MaxRound /\ online \subseteq Player
    /\ PartyLeader \in [Player -> Player \cup {NoPlayer}]
    /\ PartyLeavingRound \in [Player -> 0 .. MaxRound]
    /\ OfflineForgotten

\* What a player believes after a step.
LEMMA NewLeaders ==
  \A p \in Player : Leaders'[p] = IF PartyLeavingRound'[p] = 0 THEN PartyLeader'[p] ELSE NoPlayer
  BY DEF Leaders, GetPartyLeader

\* What a player believes before the step.
LEMMA OldLeaders ==
  \A p \in Player : Leaders[p] = IF PartyLeavingRound[p] = 0 THEN PartyLeader[p] ELSE NoPlayer
  BY DEF Leaders, GetPartyLeader

\* The entry of a party is replaced.
LEMMA PartyChanged ==
  ASSUME PartyInv, NEW i \in DOMAIN PartyArray, NEW Q \in PartyRecord,
         PartyArray[i].Leader # NoPlayer, PartyArray' = [PartyArray EXCEPT ![i] = Q], Fields',
         NEW new, new = IF Q.Leader # NoPlayer THEN MembersOf(Q) ELSE {},
         Q.Leader # NoPlayer => EntryRight(Q, Leaders', online'),
         \A m \in new \ MembersOf(PartyArray[i]) : Leaders[m] = NoPlayer,
         \A m \in MembersOf(PartyArray[i]) \ new : m \notin online' \/ Leaders'[m] = NoPlayer,
         \A m \in Player \ (MembersOf(PartyArray[i]) \cup new) :
            Leaders'[m] = Leaders[m] /\ (m \in online' <=> m \in online)
  PROVE  PartyInv'
<1>1. /\ PartyArray' \in Seq(PartyRecord) /\ Len(PartyArray') = Len(PartyArray)
      /\ DOMAIN PartyArray' = DOMAIN PartyArray
      /\ PartyArray'[i] = Q /\ \A j \in DOMAIN PartyArray \ {i} : PartyArray'[j] = PartyArray[j]
  BY ExceptSeq, EntryFacts DEF PartyInv, TypeOK
<1>2. TypeOK' /\ OfflineForgotten'
  BY <1>1 DEF Fields, TypeOK, PartyInv
<1>3. i \in Act(PartyArray) /\ (i \in Act(PartyArray') <=> Q.Leader # NoPlayer)
  BY <1>1 DEF Act
<1>4. new = IF i \in Act(PartyArray') THEN MembersOf(PartyArray'[i]) ELSE {}
  BY <1>1, <1>3
<1>5. i \in Act(PartyArray') => EntryRight(PartyArray'[i], Leaders', online')
  BY <1>1, <1>3
<1>6. DOMAIN PartyArray' = DOMAIN PartyArray \cup {i} /\ i \in DOMAIN PartyArray'
  BY <1>1
<1>7. online \subseteq Player /\ online' \subseteq Player /\ Agree(PartyArray, Leaders, online)
  BY DEF PartyInv, TypeOK, Fields
<1>8. MembersOf(PartyArray[i]) = IF i \in Act(PartyArray) THEN MembersOf(PartyArray[i]) ELSE {}
  BY <1>3
<1>9. Changed(PartyArray, PartyArray', Leaders, Leaders', online, online', i, MembersOf(PartyArray[i]), new)
  BY <1>1, <1>4, <1>5, <1>6, <1>7, <1>8 DEF Changed
<1>10. Agree(PartyArray', Leaders', online')
  BY <1>7, <1>9, EntryChanged
<1> QED
  BY <1>2, <1>10 DEF PartyInv

\* Fewer active entries than players: a new one finds room.
LEMMA RoomForParty ==
  ASSUME PartyInv, NEW h \in Player, Leaders[h] = NoPlayer, PartiesOf(NoPlayer) = {}
  PROVE  Len(PartyArray) + 1 <= Cardinality(Player)
<1> DEFINE n == Len(PartyArray)
           L == [i \in 1 .. n |-> PartyArray[i].Leader]
<1>1. n \in Nat /\ DOMAIN PartyArray = 1 .. n /\ \A i \in 1 .. n : i \in Act(PartyArray)
  BY EntryFacts DEF PartyInv, PartiesOf, Act
<1>2. ASSUME NEW i \in 1 .. n PROVE L[i] \in Player \ {h} /\ L[i] \in MembersOf(PartyArray[i])
  <2>1. /\ EntryRight(PartyArray[i], Leaders, online) /\ MembersOf(PartyArray[i]) \subseteq Player
        /\ PartyArray[i].Leader # NoPlayer
    BY <1>1, EntryFacts DEF PartyInv, Agree, Act
  <2> QED
    BY <2>1 DEF EntryRight
<1>3. \A i, j \in 1 .. n : L[i] = L[j] => i = j
  BY <1>1, <1>2 DEF PartyInv, Agree
<1>4. L \in Injection(1 .. n, Player \ {h})
  BY <1>2, <1>3 DEF Injection, IsInjective
<1>5. IsFiniteSet(Player)
  BY PartyAssumption
<1>6. IsFiniteSet(Player \ {h}) /\ Cardinality(Player \ {h}) = Cardinality(Player) - 1
  BY <1>5, FS_RemoveElement
<1>7. Cardinality(1 .. n) <= Cardinality(Player \ {h})
  BY <1>4, <1>6, FS_Injection
<1>8. Cardinality(1 .. n) = n
  BY <1>1, FS_Interval
<1>9. Cardinality(Player) \in Nat
  BY <1>5, FS_CardinalityType
<1> QED
  BY <1>1, <1>6, <1>7, <1>8, <1>9

\* Facts about the party of a leader.
LEMMA PartyOf ==
  ASSUME PartyInv, NEW h \in Player, PartiesOf(h) # {}
  PROVE  /\ GetParty(h) \in DOMAIN PartyArray /\ PartyArray[GetParty(h)] \in PartyRecord
         /\ PartyArray[GetParty(h)].Leader = h /\ h # NoPlayer
         /\ EntryRight(PartyArray[GetParty(h)], Leaders, online)
         /\ MembersOf(PartyArray[GetParty(h)]) \subseteq Player
         /\ \A m \in MembersOf(PartyArray[GetParty(h)]) : Leaders[m] = h /\ m \in online
<1>1. /\ GetParty(h) \in DOMAIN PartyArray /\ PartyArray[GetParty(h)] \in PartyRecord
      /\ PartyArray[GetParty(h)].Leader = h /\ h # NoPlayer
  BY GetPartyFound, PartyAssumption DEF PartyInv
<1>2. EntryRight(PartyArray[GetParty(h)], Leaders, online)
  BY <1>1 DEF PartyInv, Agree, Act
<1> QED
  BY <1>1, <1>2, EntryFacts DEF EntryRight, PartyInv

\* The array with a new party: in the first disbanded entry or at the end.
Entered(P) ==
    IF PartiesOf(NoPlayer) = {} THEN Append(PartyArray, P) ELSE [PartyArray EXCEPT ![GetParty(NoPlayer)] = P]

\* invite_to_party uses an entry that is no party.
LEMMA FoundEntry ==
  ASSUME PartyInv, NEW h \in Player, Leaders[h] = NoPlayer, NEW P \in PartyRecord, PartyArray' = Entered(P)
  PROVE  \E i \in DOMAIN PartyArray' :
            /\ PartyArray' \in Seq(PartyRecord) /\ Len(PartyArray') <= Cardinality(Player)
            /\ DOMAIN PartyArray' = DOMAIN PartyArray \cup {i} /\ i \notin Act(PartyArray)
            /\ PartyArray'[i] = P /\ \A j \in DOMAIN PartyArray \ {i} : PartyArray'[j] = PartyArray[j]
<1>1. CASE PartiesOf(NoPlayer) # {}
  <2> DEFINE i == GetParty(NoPlayer)
  <2>1. i \in DOMAIN PartyArray /\ PartyArray[i].Leader = NoPlayer
    BY <1>1, GetPartyFound DEF PartyInv
  <2> HIDE DEF i
  <2>2. PartyArray' = [PartyArray EXCEPT ![i] = P]
    BY <1>1 DEF i, Entered
  <2>3. PartyArray \in Seq(PartyRecord) /\ Len(PartyArray) <= Cardinality(Player)
    BY DEF PartyInv, TypeOK
  <2>4. i \in 1 .. Len(PartyArray)
    BY <2>1, <2>3, LenProperties
  <2>5. /\ PartyArray' \in Seq(PartyRecord) /\ Len(PartyArray') = Len(PartyArray)
        /\ DOMAIN PartyArray' = DOMAIN PartyArray
        /\ PartyArray'[i] = P /\ \A j \in DOMAIN PartyArray \ {i} : PartyArray'[j] = PartyArray[j]
    BY <2>1, <2>2, <2>3, <2>4, ExceptSeq, LenProperties
  <2>6. i \notin Act(PartyArray)
    BY <2>1 DEF Act
  <2> QED
    BY <2>1, <2>3, <2>5, <2>6
<1>2. CASE PartiesOf(NoPlayer) = {}
  <2> DEFINE n == Len(PartyArray) + 1
  <2>1. n <= Cardinality(Player) /\ n \in Nat
    BY <1>2, RoomForParty, EntryFacts DEF PartyInv
  <2>2. /\ PartyArray' \in Seq(PartyRecord) /\ Len(PartyArray') = n /\ PartyArray'[n] = P
        /\ \A j \in 1 .. Len(PartyArray) : PartyArray'[j] = PartyArray[j]
    <3>1. PartyArray' = Append(PartyArray, P)
      BY <1>2 DEF Entered
    <3> QED
      BY <3>1, AppendProperties, EntryFacts DEF PartyInv, TypeOK
  <2>3. /\ DOMAIN PartyArray' = 1 .. n /\ DOMAIN PartyArray = 1 .. Len(PartyArray)
        /\ Len(PartyArray) \in Nat
    BY <2>2, LenProperties, EntryFacts DEF PartyInv
  <2>4. DOMAIN PartyArray' = DOMAIN PartyArray \cup {n} /\ n \notin DOMAIN PartyArray
    BY <2>3
  <2> HIDE DEF n
  <2> QED
    BY <2>1, <2>2, <2>3, <2>4 DEF Act
<1> QED
  BY <1>1, <1>2

\* invite_to_party founds a party.
LEMMA FoundPartyStep ==
  ASSUME PartyInv, NEW h \in online, NEW g \in online \ {h}, FoundParty(h, g), UNCHANGED <<RoundNr, online>>
  PROVE  PartyInv'
<1> DEFINE P == [Leader |-> h, Member |-> <<h>>, Invited |-> {g}]
<1>1. h \in Player /\ g \in Player /\ Leaders[h] = NoPlayer /\ h # NoPlayer
  BY NoLeader, PartyAssumption DEF PartyInv, TypeOK, FoundParty
<1>2. P \in PartyRecord /\ MembersOf(P) = {h} /\ P.Leader = h
  BY <1>1 DEF PartyRecord, MembersOf
<1>3. /\ PartyLeader' = [p \in Player |-> IF p = h THEN h ELSE PartyLeader[p]]
      /\ PartyLeavingRound' = [p \in Player |-> IF p = h THEN 0 ELSE PartyLeavingRound[p]]
  BY DEF FoundParty, JoinParty
<1>4. Leaders'[h] = h /\ \A m \in Player \ {h} : Leaders'[m] = Leaders[m]
  BY <1>1, <1>3, NewLeaders, OldLeaders
<1>5. Fields'
  <2>1. 0 \in 0 .. MaxRound
    BY PartyAssumption
  <2>2. /\ PartyLeader' \in [Player -> Player \cup {NoPlayer}]
        /\ PartyLeavingRound' \in [Player -> 0 .. MaxRound]
    BY <1>1, <1>3, <2>1 DEF PartyInv, TypeOK
  <2>3. OfflineForgotten'
    BY <1>1, <1>3 DEF PartyInv, OfflineForgotten
  <2> QED
    BY <2>2, <2>3 DEF PartyInv, TypeOK, Fields
<1>6. EntryRight(P, Leaders', online')
  BY <1>1, <1>2, <1>4 DEF EntryRight, Once
<1>7. PartyArray' = Entered(P)
  BY DEF FoundParty, Entered
<1> HIDE DEF P
<1>8. \E i \in DOMAIN PartyArray' :
         /\ PartyArray' \in Seq(PartyRecord) /\ Len(PartyArray') <= Cardinality(Player)
         /\ DOMAIN PartyArray' = DOMAIN PartyArray \cup {i} /\ i \notin Act(PartyArray)
         /\ PartyArray'[i] = P /\ \A j \in DOMAIN PartyArray \ {i} : PartyArray'[j] = PartyArray[j]
  BY <1>1, <1>2, <1>7, FoundEntry
<1>9. PICK i \in DOMAIN PartyArray' :
         /\ PartyArray' \in Seq(PartyRecord) /\ Len(PartyArray') <= Cardinality(Player)
         /\ DOMAIN PartyArray' = DOMAIN PartyArray \cup {i} /\ i \notin Act(PartyArray)
         /\ PartyArray'[i] = P /\ \A j \in DOMAIN PartyArray \ {i} : PartyArray'[j] = PartyArray[j]
  BY <1>8
<1>10. TypeOK' /\ OfflineForgotten'
  BY <1>5, <1>9 DEF TypeOK, Fields
<1>11. i \in Act(PartyArray')
  BY <1>1, <1>2, <1>9 DEF Act
<1>12. Changed(PartyArray, PartyArray', Leaders, Leaders', online, online', i, {}, {h})
  BY <1>1, <1>2, <1>4, <1>6, <1>9, <1>11 DEF Changed, PartyInv, TypeOK
<1>13. Agree(PartyArray', Leaders', online')
  BY <1>12, EntryChanged DEF PartyInv
<1> QED
  BY <1>10, <1>13 DEF PartyInv

\* invite_to_party of a leader: the guest is not a member.
LEMMA AddInvitationStep ==
  ASSUME PartyInv, NEW h \in online, NEW g \in online, GetPartyLeader(g, TRUE) = NoPlayer,
         AddInvitation(h, g), UNCHANGED <<RoundNr, online>>
  PROVE  PartyInv'
<1> DEFINE i == GetParty(h)
           P == PartyArray[i]
           Q == [P EXCEPT !.Invited = P.Invited \cup {g}]
<1>1. h \in Player /\ g \in Player /\ PartiesOf(h) # {} /\ Leaders[g] = NoPlayer
  BY NoLeader DEF PartyInv, TypeOK, AddInvitation
<1>2. /\ i \in DOMAIN PartyArray /\ P \in PartyRecord /\ P.Leader = h /\ h # NoPlayer
      /\ EntryRight(P, Leaders, online) /\ MembersOf(P) \subseteq Player
  BY <1>1, PartyOf
<1>3. PartyArray' = [PartyArray EXCEPT ![i] = Q] /\ UNCHANGED fields
  BY DEF AddInvitation
<1>4. Fields' /\ Leaders' = Leaders
  BY <1>3 DEF PartyInv, TypeOK, Fields, OfflineForgotten, fields, Leaders, GetPartyLeader
<1> HIDE DEF i, P
<1>5. /\ Q \in PartyRecord /\ Q.Leader = h /\ Q.Member = P.Member /\ Q.Invited = P.Invited \cup {g}
  BY <1>1, <1>2 DEF PartyRecord
<1> HIDE DEF Q
<1>6. MembersOf(Q) = MembersOf(P)
  BY <1>5 DEF MembersOf
<1>7. EntryRight(Q, Leaders', online')
  BY <1>1, <1>2, <1>4, <1>5, <1>6 DEF EntryRight
<1> QED
  BY <1>2, <1>3, <1>4, <1>5, <1>6, <1>7, PartyChanged DEF P

\* revoke_invitation, which may end the party.
LEMMA RevokeInvitationStep ==
  ASSUME PartyInv, NEW h \in Player, NEW g \in Player, RevokeInvitation(h, g)
  PROVE  PartyInv'
<1> DEFINE i == GetParty(h)
           P == PartyArray[i]
           Q == [P EXCEPT !.Invited = P.Invited \ {g}]
           R == [Q EXCEPT !.Leader = NoPlayer]
<1>1. PartiesOf(h) # {} /\ UNCHANGED <<RoundNr, online, PartyLeader>>
  BY DEF RevokeInvitation
<1>2. /\ i \in DOMAIN PartyArray /\ P \in PartyRecord /\ P.Leader = h /\ h # NoPlayer
      /\ EntryRight(P, Leaders, online) /\ MembersOf(P) \subseteq Player
      /\ \A m \in MembersOf(P) : m \in online
  BY <1>1, PartyOf
<1>3. \/ PartyArray' = [PartyArray EXCEPT ![i] = R] /\ PartyLeavingRound' = Left(MembersOf(Q) \cap online)
      \/ PartyArray' = [PartyArray EXCEPT ![i] = Q] /\ UNCHANGED PartyLeavingRound
  BY DEF RevokeInvitation
<1> HIDE DEF i, P
<1>4. /\ Q \in PartyRecord /\ Q.Leader = h /\ Q.Member = P.Member /\ Q.Invited = P.Invited \ {g}
  BY <1>2 DEF PartyRecord
<1>5. R \in PartyRecord /\ R.Leader = NoPlayer
  BY <1>4 DEF PartyRecord
<1> HIDE DEF Q, R
<1>6. MembersOf(Q) = MembersOf(P)
  BY <1>4 DEF MembersOf
<1>7. CASE PartyArray' = [PartyArray EXCEPT ![i] = R] /\ PartyLeavingRound' = Left(MembersOf(Q) \cap online)
  <2>1. PartyLeavingRound' = [p \in Player |-> IF p \in MembersOf(P) THEN RoundNr ELSE PartyLeavingRound[p]]
    BY <1>2, <1>6, <1>7 DEF Left
  <2>2. RoundNr \in 1 .. MaxRound /\ MaxRound \in Nat
    BY PartyAssumption DEF PartyInv, TypeOK
  <2>3. Fields'
    BY <1>1, <1>2, <2>1, <2>2 DEF PartyInv, TypeOK, Fields, OfflineForgotten
  <2>4. \A p \in Player : Leaders'[p] = IF p \in MembersOf(P) THEN NoPlayer ELSE Leaders[p]
    BY <1>1, <2>1, <2>2, NewLeaders, OldLeaders
  <2> DEFINE new == {}
  <2>5. new = IF R.Leader # NoPlayer THEN MembersOf(R) ELSE {}
    BY <1>5
  <2>6. /\ \A m \in new \ MembersOf(PartyArray[i]) : Leaders[m] = NoPlayer
        /\ \A m \in MembersOf(PartyArray[i]) \ new : m \notin online' \/ Leaders'[m] = NoPlayer
        /\ \A m \in Player \ (MembersOf(PartyArray[i]) \cup new) :
              Leaders'[m] = Leaders[m] /\ (m \in online' <=> m \in online)
    BY <1>1, <1>2, <2>4 DEF P
  <2> HIDE DEF new
  <2>7. PartyArray[i].Leader # NoPlayer
    BY <1>2 DEF P
  <2> QED
    BY <1>2, <1>5, <1>7, <2>3, <2>5, <2>6, <2>7, PartyChanged
<1>8. CASE PartyArray' = [PartyArray EXCEPT ![i] = Q] /\ UNCHANGED PartyLeavingRound
  <2>1. Fields' /\ Leaders' = Leaders
    BY <1>1, <1>8 DEF PartyInv, TypeOK, Fields, OfflineForgotten, Leaders, GetPartyLeader
  <2>2. EntryRight(Q, Leaders', online')
    BY <1>1, <1>2, <1>4, <1>6, <2>1 DEF EntryRight
  <2> QED
    BY <1>1, <1>2, <1>4, <1>6, <1>8, <2>1, <2>2, PartyChanged DEF P
<1> QED
  BY <1>3, <1>7, <1>8

\* join_party: the guest had no party, and is now a member of the host's.
LEMMA JoinStep ==
  ASSUME PartyInv, NEW g \in Player, NEW h \in Player, Join(g, h)
  PROVE  PartyInv'
<1> DEFINE i == GetParty(h)
           P == PartyArray[i]
           Q == Accept(P, g)
<1>1. /\ PartiesOf(h) # {} /\ UNCHANGED <<RoundNr, online>> /\ g \in online
      /\ PartyArray' = [PartyArray EXCEPT ![i] = Q]
      /\ PartyLeader' = [p \in Player |-> IF p = g THEN h ELSE PartyLeader[p]]
      /\ PartyLeavingRound' = [p \in Player |-> IF p = g THEN 0 ELSE PartyLeavingRound[p]]
  BY DEF Join, JoinParty
<1>2. Leaders[g] = NoPlayer
  BY NoLeader DEF Join, PartyInv
<1>3. /\ i \in DOMAIN PartyArray /\ P \in PartyRecord /\ P.Leader = h /\ h # NoPlayer
      /\ EntryRight(P, Leaders, online) /\ MembersOf(P) \subseteq Player
      /\ \A m \in MembersOf(P) : Leaders[m] = h /\ m \in online
  BY <1>1, PartyOf
<1> HIDE DEF i, P
<1>4. Leaders'[g] = h /\ \A m \in Player \ {g} : Leaders'[m] = Leaders[m]
  BY <1>1, NewLeaders, OldLeaders
<1>5. Fields'
  <2>1. 0 \in 0 .. MaxRound
    BY PartyAssumption
  <2>2. /\ PartyLeader' \in [Player -> Player \cup {NoPlayer}]
        /\ PartyLeavingRound' \in [Player -> 0 .. MaxRound]
    BY <1>1, <2>1 DEF PartyInv, TypeOK
  <2>3. OfflineForgotten'
    BY <1>1 DEF PartyInv, OfflineForgotten
  <2> QED
    BY <1>1, <2>2, <2>3 DEF PartyInv, TypeOK, Fields
<1>6. P.Member \in Seq(Player)
  BY <1>3 DEF PartyRecord
<1>7. /\ Q \in PartyRecord /\ Q.Leader = h /\ Q.Member = Append(P.Member, g) /\ Q.Invited = P.Invited \ {g}
  BY <1>3, <1>6, AppendProperties DEF Accept, PartyRecord
<1> HIDE DEF Q
<1>8. g \notin MembersOf(P)
  BY <1>2, <1>3
<1>9. MembersOf(Q) = MembersOf(P) \cup {g} /\ Once(Q.Member)
  <2> DEFINE n == Len(P.Member)
  <2>1. /\ n \in Nat /\ DOMAIN P.Member = 1 .. n /\ DOMAIN Q.Member = 1 .. n + 1
        /\ Q.Member[n + 1] = g /\ \A j \in 1 .. n : Q.Member[j] = P.Member[j]
    BY <1>6, <1>7, AppendProperties, LenProperties
  <2> HIDE DEF n
  <2>2. DOMAIN Q.Member = DOMAIN P.Member \cup {n + 1}
    BY <2>1
  <2>3. Once(P.Member)
    BY <1>3 DEF EntryRight
  <2> QED
    BY <1>8, <2>1, <2>2, <2>3 DEF MembersOf, Once
<1>10. EntryRight(Q, Leaders', online')
  BY <1>1, <1>3, <1>4, <1>7, <1>9 DEF EntryRight
<1> DEFINE new == MembersOf(Q)
<1>11. new = IF Q.Leader # NoPlayer THEN MembersOf(Q) ELSE {}
  BY <1>3, <1>7
<1>12. /\ \A m \in new \ MembersOf(PartyArray[i]) : Leaders[m] = NoPlayer
       /\ \A m \in MembersOf(PartyArray[i]) \ new : m \notin online' \/ Leaders'[m] = NoPlayer
       /\ \A m \in Player \ (MembersOf(PartyArray[i]) \cup new) :
             Leaders'[m] = Leaders[m] /\ (m \in online' <=> m \in online)
  BY <1>1, <1>2, <1>4, <1>9 DEF P
<1> HIDE DEF new
<1>13. PartyArray[i].Leader # NoPlayer
  BY <1>3 DEF P
<1> QED
  BY <1>1, <1>3, <1>5, <1>7, <1>10, <1>11, <1>12, <1>13, PartyChanged

\* pass_leadership: the new leader is one of the members, and all of them are
\* told.
LEMMA PassLeadershipStep ==
  ASSUME PartyInv, NEW h \in Player, NEW l \in Player, PassLeadership(h, l)
  PROVE  PartyInv'
<1> DEFINE i == GetParty(h)
           P == PartyArray[i]
           Q == Passed(P, l)
<1>1. /\ PartiesOf(h) # {} /\ UNCHANGED <<RoundNr, online>> /\ l \in online
      /\ PartyArray' = [PartyArray EXCEPT ![i] = Q]
      /\ JoinParty(MembersOf(P) \cap online, l)
      /\ GetPartyLeader(l, FALSE) = h
  BY DEF PassLeadership
<1>2. /\ i \in DOMAIN PartyArray /\ P \in PartyRecord /\ P.Leader = h /\ h # NoPlayer
      /\ EntryRight(P, Leaders, online) /\ MembersOf(P) \subseteq Player
      /\ \A m \in MembersOf(P) : Leaders[m] = h /\ m \in online
  BY <1>1, PartyOf
<1>3. l \in MembersOf(P) /\ l # NoPlayer
  BY <1>1, <1>2, MemberOfParty, PartyAssumption
<1> HIDE DEF i, P
<1>4. /\ PartyLeader' = [p \in Player |-> IF p \in MembersOf(P) THEN l ELSE PartyLeader[p]]
      /\ PartyLeavingRound' = [p \in Player |-> IF p \in MembersOf(P) THEN 0 ELSE PartyLeavingRound[p]]
  BY <1>1, <1>2 DEF JoinParty
<1>5. \A m \in Player : Leaders'[m] = IF m \in MembersOf(P) THEN l ELSE Leaders[m]
  BY <1>4, NewLeaders, OldLeaders
<1>6. Fields'
  <2>1. 0 \in 0 .. MaxRound
    BY PartyAssumption
  <2>2. /\ PartyLeader' \in [Player -> Player \cup {NoPlayer}]
        /\ PartyLeavingRound' \in [Player -> 0 .. MaxRound]
    BY <1>4, <2>1 DEF PartyInv, TypeOK
  <2>3. OfflineForgotten'
    BY <1>1, <1>2, <1>4 DEF PartyInv, OfflineForgotten
  <2> QED
    BY <1>1, <2>2, <2>3 DEF PartyInv, TypeOK, Fields
<1>7. Q \in PartyRecord /\ Q.Leader = l /\ Q.Member = P.Member /\ Q.Invited = {}
  BY <1>2 DEF Passed, PartyRecord
<1> HIDE DEF Q
<1>8. MembersOf(Q) = MembersOf(P)
  BY <1>7 DEF MembersOf
<1>9. EntryRight(Q, Leaders', online')
  BY <1>1, <1>2, <1>3, <1>5, <1>7, <1>8 DEF EntryRight
<1> DEFINE new == MembersOf(Q)
<1>11. new = IF Q.Leader # NoPlayer THEN MembersOf(Q) ELSE {}
  BY <1>3, <1>7
<1>12. /\ \A m \in new \ MembersOf(PartyArray[i]) : Leaders[m] = NoPlayer
       /\ \A m \in MembersOf(PartyArray[i]) \ new : m \notin online' \/ Leaders'[m] = NoPlayer
       /\ \A m \in Player \ (MembersOf(PartyArray[i]) \cup new) :
             Leaders'[m] = Leaders[m] /\ (m \in online' <=> m \in online)
  BY <1>1, <1>5, <1>8 DEF P
<1> HIDE DEF new
<1>13. PartyArray[i].Leader # NoPlayer
  BY <1>2 DEF P
<1> QED
  BY <1>1, <1>2, <1>6, <1>7, <1>9, <1>11, <1>12, <1>13, PartyChanged

\* What is in a sequence.
Entries(s) == {s[i] : i \in DOMAIN s}

\* The removal takes one member out and keeps the others, each once.
LEMMA RemovedFacts ==
  ASSUME NEW S, NEW s \in Seq(S), NEW m, Once(s), \E k \in DOMAIN s : s[k] = m
  PROVE  /\ Removed(s, m) \in Seq(S) /\ Once(Removed(s, m))
         /\ Entries(Removed(s, m)) = Entries(s) \ {m}
<1> DEFINE k == CHOOSE k \in DOMAIN s : s[k] = m
           n == Len(s)
           r == [i \in 1 .. n - 1 |-> IF i < k THEN s[i] ELSE s[i + 1]]
<1>1. k \in DOMAIN s /\ s[k] = m
  OBVIOUS
<1>2. Removed(s, m) = r
  BY <1>1 DEF Removed
<1> HIDE DEF k
<1>3. n \in Nat /\ DOMAIN s = 1 .. n /\ \A i \in 1 .. n : s[i] \in S
  BY LenProperties, ElementOfSeq
<1>4. k \in 1 .. n
  BY <1>1, <1>3
<1> HIDE DEF n
<1>5. DOMAIN r = 1 .. n - 1 /\ n - 1 \in Nat
  BY <1>3, <1>4
<1>6. \A i \in 1 .. n - 1 : r[i] = s[IF i < k THEN i ELSE i + 1] /\ (IF i < k THEN i ELSE i + 1) \in 1 .. n
  BY <1>3, <1>4
<1> HIDE DEF r
<1>7. r \in Seq(S)
  <2>1. \A i \in 1 .. n - 1 : r[i] \in S
    BY <1>3, <1>6
  <2>2. r = [i \in 1 .. n - 1 |-> r[i]]
    BY <1>5 DEF r
  <2> QED
    BY <1>5, <2>1, <2>2, IsASeq
<1>8. Once(r)
  <2> SUFFICES ASSUME NEW i \in 1 .. n - 1, NEW j \in 1 .. n - 1, r[i] = r[j] PROVE i = j
    BY <1>5 DEF Once
  <2>1. (IF i < k THEN i ELSE i + 1) = (IF j < k THEN j ELSE j + 1)
    BY <1>3, <1>6 DEF Once
  <2> QED
    BY <1>3, <1>4, <2>1
<1>9. ASSUME NEW i \in 1 .. n - 1 PROVE r[i] \in {s[j] : j \in DOMAIN s} \ {m}
  <2>1. (IF i < k THEN i ELSE i + 1) # k
    BY <1>3, <1>4
  <2>2. r[i] # m
    BY <1>1, <1>3, <1>4, <1>6, <2>1 DEF Once
  <2> QED
    BY <1>3, <1>6, <2>2
<1>10. ASSUME NEW j \in 1 .. n, s[j] # m PROVE \E i \in 1 .. n - 1 : s[j] = r[i]
  <2>1. j # k
    BY <1>1, <1>10
  <2>2. CASE j < k
    BY <1>3, <1>4, <1>6, <2>2
  <2>3. CASE k < j
    <3>1. j - 1 \in 1 .. n - 1 /\ ~(j - 1 < k) /\ (j - 1) + 1 = j
      BY <1>3, <1>4, <2>3
    <3> QED
      BY <1>6, <3>1
  <2> QED
    BY <1>3, <1>4, <2>1, <2>2, <2>3
<1>11. {r[i] : i \in DOMAIN r} = {s[i] : i \in DOMAIN s} \ {m}
  <2>1. \A x \in {r[i] : i \in DOMAIN r} : x \in {s[i] : i \in DOMAIN s} \ {m}
    BY <1>5, <1>9
  <2>2. ASSUME NEW x \in {s[i] : i \in DOMAIN s} \ {m} PROVE x \in {r[i] : i \in DOMAIN r}
    <3>1. PICK j \in 1 .. n : x = s[j]
      BY <1>3, <2>2
    <3> QED
      BY <1>5, <1>10, <2>2, <3>1
  <2> QED
    BY <2>1, <2>2
<1> QED
  BY <1>2, <1>7, <1>8, <1>11 DEF Entries

\* The party P ends when m leaves it: m is alone in it, or one of a pair that
\* expects nobody.
EndsWith(m, P) ==
    MembersOf(P) = {m} \/ (P.Invited = {} /\ \E q \in MembersOf(P) : MembersOf(P) = {m, q})

\* The same by the number of members, as leave_party asks.
LEMMA EndsByLength ==
  ASSUME NEW P \in PartyRecord, Once(P.Member), NEW m \in MembersOf(P)
  PROVE  EndsWith(m, P) <=> Len(P.Member) = 1 \/ (Len(P.Member) = 2 /\ P.Invited = {})
<1> DEFINE n == Len(P.Member)
           M == MembersOf(P)
<1>1. n \in Nat /\ DOMAIN P.Member = 1 .. n /\ M = {P.Member[j] : j \in 1 .. n}
  BY LenProperties DEF PartyRecord, MembersOf
<1>2. \A j, k \in 1 .. n : P.Member[j] = P.Member[k] => j = k
  BY <1>1 DEF Once
<1>3. PICK k \in 1 .. n : P.Member[k] = m
  BY <1>1
<1> HIDE DEF n, M
<1>4. ASSUME n = 1 PROVE M = {m}
  BY <1>1, <1>3, <1>4
<1>5. ASSUME n = 2 PROVE \E q \in M : M = {m, q}
  <2>1. 1 .. n = {1, 2}
    BY <1>5
  <2>2. M = {P.Member[1], P.Member[2]}
    BY <1>1, <2>1
  <2> QED
    BY <1>3, <2>1, <2>2
<1>6. ASSUME M = {m} PROVE n = 1
  <2>1. \A j \in 1 .. n : j = k
    BY <1>1, <1>2, <1>3, <1>6
  <2>2. n \in 1 .. n /\ 1 \in 1 .. n
    BY <1>1, <1>3
  <2> QED
    BY <2>1, <2>2
<1>7. ASSUME NEW q \in M, M = {m, q} PROVE n = 1 \/ n = 2
  <2> SUFFICES ASSUME n # 1, n # 2 PROVE FALSE
    OBVIOUS
  <2>1. 1 \in 1 .. n /\ 2 \in 1 .. n /\ 3 \in 1 .. n
    BY <1>1, <1>3
  <2>2. P.Member[1] \in {m, q} /\ P.Member[2] \in {m, q} /\ P.Member[3] \in {m, q}
    BY <1>1, <1>7, <2>1
  <2>3. P.Member[1] # P.Member[2] /\ P.Member[1] # P.Member[3] /\ P.Member[2] # P.Member[3]
    BY <1>2, <2>1
  <2> QED
    BY <2>2, <2>3
<1>8. EndsWith(m, P) <=> M = {m} \/ (P.Invited = {} /\ \E q \in M : M = {m, q})
  BY DEF EndsWith, M
<1> QED
  BY <1>4, <1>5, <1>6, <1>7, <1>8 DEF n

\* The group of an entry P after m has left it, with the entry Q.
Departs(m, P, Q) ==
    IF Q.Leader = NoPlayer THEN EndsWith(m, P)
    ELSE /\ ~EndsWith(m, P) /\ MembersOf(Q) = MembersOf(P) \ {m}
         /\ IF m = P.Leader THEN Q.Invited = {} ELSE Q.Leader = P.Leader /\ Q.Invited = P.Invited

\* What leave_party of m leaves when m is in the party of the entry i, which
\* becomes Q: those who stay (none if the party ends) know the leader of Q, the
\* others of the party have left it, and nobody else is touched.
Leaves(m, i, Q, stay) ==
    /\ i \in DOMAIN PartyArray /\ PartyArray[i].Leader # NoPlayer /\ m \in MembersOf(PartyArray[i])
    /\ Q \in PartyRecord /\ LeaveResult(m).array = [PartyArray EXCEPT ![i] = Q]
    /\ LeaveResult(m).leader \in [Player -> Player \cup {NoPlayer}]
    /\ LeaveResult(m).round \in [Player -> 0 .. MaxRound]
    /\ stay = IF Q.Leader # NoPlayer THEN MembersOf(Q) ELSE {}
    /\ stay \subseteq MembersOf(PartyArray[i]) \ {m}
    /\ Q.Leader # NoPlayer => /\ Q.Leader \in stay /\ stay \cap Q.Invited = {} /\ Once(Q.Member)
    /\ \A p \in stay : LeaveResult(m).round[p] = 0 /\ LeaveResult(m).leader[p] = Q.Leader
    /\ \A p \in MembersOf(PartyArray[i]) \ stay : LeaveResult(m).round[p] # 0
    /\ \A p \in Player \ MembersOf(PartyArray[i]) :
          LeaveResult(m).round[p] = PartyLeavingRound[p] /\ LeaveResult(m).leader[p] = PartyLeader[p]
    /\ Departs(m, PartyArray[i], Q)

\* leave_party by one without a party changes nothing.
LEMMA LeaveNothing ==
  ASSUME NEW m, GetPartyLeader(m, FALSE) = NoPlayer
  PROVE  /\ LeaveResult(m).array = PartyArray /\ LeaveResult(m).leader = PartyLeader
         /\ LeaveResult(m).round = PartyLeavingRound
  BY DEF LeaveResult

\* Otherwise it takes m out of its party.
LEMMA LeaveMember ==
  ASSUME PartyInv, NEW m \in online, GetPartyLeader(m, FALSE) # NoPlayer
  PROVE  \E i, Q, stay : Leaves(m, i, Q, stay)
<1> DEFINE l == GetPartyLeader(m, FALSE)
           i == GetParty(l)
           P == PartyArray[i]
           n == Len(P.Member)
           last == n = 1 \/ (n = 2 /\ P.Invited = {})
           M == MembersOf(P)
           r == LeaveResult(m)
<1>1. m \in Player /\ l # NoPlayer /\ PartiesOf(l) # {} /\ m \in M
  BY MemberOfParty DEF PartyInv, TypeOK
<1>2. l \in Player
  BY <1>1 DEF GetPartyLeader, PartyInv, TypeOK
<1>3. /\ i \in DOMAIN PartyArray /\ P \in PartyRecord /\ P.Leader = l
      /\ EntryRight(P, Leaders, online) /\ M \subseteq Player
      /\ \A p \in M : Leaders[p] = l /\ p \in online
  BY <1>1, <1>2, PartyOf
<1>4. /\ P.Member \in Seq(Player) /\ n \in Nat /\ DOMAIN P.Member = 1 .. n
      /\ M = {P.Member[j] : j \in 1 .. n} /\ M \cap online = M
  BY <1>3, LenProperties DEF PartyRecord, MembersOf
<1>5. \A p \in M : PartyLeavingRound[p] = 0 /\ PartyLeader[p] = l
  BY <1>1, <1>3, OldLeaders
<1>6. RoundNr \in 1 .. MaxRound /\ MaxRound \in Nat /\ RoundNr # 0 /\ RoundNr \in 0 .. MaxRound /\ 0 \in 0 .. MaxRound
  BY PartyAssumption DEF PartyInv, TypeOK
<1>7. /\ PartyLeader \in [Player -> Player \cup {NoPlayer}]
      /\ PartyLeavingRound \in [Player -> 0 .. MaxRound] /\ PartyArray \in Seq(PartyRecord)
  BY DEF PartyInv, TypeOK
<1>10. EndsWith(m, P) <=> last
  BY <1>1, <1>3, EndsByLength DEF EntryRight
<1> HIDE DEF l, i, P, n, last, M, r
<1>8. CASE last
  <2> DEFINE Q == [P EXCEPT !.Leader = NoPlayer]
  <2>1. r = [array |-> Disbanded(i), leader |-> PartyLeader, round |-> Left(M \cap online)]
    BY <1>1, <1>8 DEF LeaveResult, l, i, P, n, last, M, r
  <2>2. /\ r.array = [PartyArray EXCEPT ![i] = Q] /\ r.leader = PartyLeader
        /\ r.round = [p \in Player |-> IF p \in M THEN RoundNr ELSE PartyLeavingRound[p]]
    BY <1>4, <2>1 DEF Disbanded, Left, P
  <2>3. Q \in PartyRecord /\ Q.Leader = NoPlayer
    BY <1>3 DEF PartyRecord
  <2>4. r.round \in [Player -> 0 .. MaxRound]
    BY <1>6, <1>7, <2>2
  <2>6. Departs(m, P, Q)
    BY <1>8, <1>10, <2>3 DEF Departs
  <2> HIDE DEF Q
  <2>5. Leaves(m, i, Q, {})
    BY <1>1, <1>3, <1>6, <1>7, <2>2, <2>3, <2>4, <2>6 DEF Leaves, P, M, r
  <2> QED
    BY <2>5
<1>9. CASE ~last
  <2> DEFINE heir == IF P.Member[1] = m THEN P.Member[2] ELSE P.Member[1]
             heirs == IF l = m /\ heir \in online /\ GetPartyLeader(heir, FALSE) = m
                      THEN M \cap online ELSE {}
             R == IF heirs = {} THEN P ELSE Passed(P, heir)
             Q == [R EXCEPT !.Member = Removed(@, m)]
  <2>1. r = [array |-> [PartyArray EXCEPT ![i] = Q],
             leader |-> [p \in Player |-> IF p \in heirs THEN heir ELSE PartyLeader[p]],
             round |-> [p \in Player |-> CASE p = m /\ m \in M -> RoundNr
                                           [] p \in heirs \ {m} -> 0
                                           [] OTHER -> PartyLeavingRound[p]]]
    BY <1>1, <1>9 DEF LeaveResult, l, i, P, n, last, M, r
  <2>2. n \in 2 .. n
    <3>1. n # 0
      BY <1>1, <1>4
    <3> QED
      BY <1>4, <1>9, <3>1 DEF last
  <2>3. heir \in M /\ heir # m
    <3>1. 1 \in 1 .. n /\ 2 \in 1 .. n
      BY <1>4, <2>2
    <3>2. P.Member[1] \in M /\ P.Member[2] \in M /\ P.Member[1] # P.Member[2]
      <4>1. P.Member[1] \in M /\ P.Member[2] \in M
        BY <1>4, <3>1
      <4>2. Once(P.Member)
        BY <1>3 DEF EntryRight
      <4>3. P.Member[1] # P.Member[2]
        BY <1>4, <3>1, <4>2 DEF Once
      <4> QED
        BY <4>1, <4>3
    <3> QED
      BY <3>2
  <2>4. heirs = IF l = m THEN M ELSE {}
    <3>1. heir \in online /\ Leaders[heir] = l /\ heir \in Player
      BY <1>3, <2>3
    <3>2. GetPartyLeader(heir, FALSE) = l
      BY <3>1 DEF Leaders
    <3> QED
      BY <1>4, <3>1, <3>2
  <2> DEFINE head == IF l = m THEN heir ELSE l
             rest == Removed(P.Member, m)
  <2>5. /\ r.array = [PartyArray EXCEPT ![i] = Q]
        /\ r.leader = [p \in Player |-> IF p \in heirs THEN heir ELSE PartyLeader[p]]
        /\ r.round = [p \in Player |-> IF p = m THEN RoundNr ELSE IF p \in heirs THEN 0 ELSE PartyLeavingRound[p]]
    <3> HIDE DEF heir, heirs, Q
    <3>1. /\ r.array = [PartyArray EXCEPT ![i] = Q]
          /\ r.leader = [p \in Player |-> IF p \in heirs THEN heir ELSE PartyLeader[p]]
          /\ r.round = [p \in Player |-> CASE p = m /\ m \in M -> RoundNr
                                           [] p \in heirs \ {m} -> 0
                                           [] OTHER -> PartyLeavingRound[p]]
      BY <2>1
    <3> QED
      BY <1>1, <3>1
  <2>6. R \in PartyRecord /\ R.Leader = head /\ R.Member = P.Member
        /\ R.Invited = IF l = m THEN {} ELSE P.Invited
    <3> HIDE DEF heir, heirs
    <3>1. heir \in Player
      BY <1>3, <2>3
    <3>2. CASE l = m
      <4>1. R = Passed(P, heir)
        BY <1>1, <2>4, <3>2
      <4> QED
        BY <1>3, <3>1, <3>2, <4>1 DEF Passed, PartyRecord
    <3>3. CASE l # m
      <4>1. R = P
        BY <2>4, <3>3
      <4> QED
        BY <1>3, <3>3, <4>1
    <3> QED
      BY <3>2, <3>3
  <2> HIDE DEF heirs, heir, R
  <2>7. /\ rest \in Seq(Player) /\ Once(rest)
        /\ Entries(rest) = M \ {m}
    <3>1. Once(P.Member) /\ \E k \in DOMAIN P.Member : P.Member[k] = m
      BY <1>1, <1>3, <1>4 DEF EntryRight
    <3>2. P.Member \in Seq(Player)
      BY <1>4
    <3>3. rest \in Seq(Player) /\ Once(rest) /\ Entries(rest) = Entries(P.Member) \ {m}
      BY <3>1, <3>2, RemovedFacts
    <3>4. M = Entries(P.Member)
      BY DEF M, MembersOf, Entries
    <3> QED
      BY <3>3, <3>4
  <2> HIDE DEF rest
  <2>8. Q \in PartyRecord /\ Q.Leader = head /\ Q.Member = rest /\ Q.Invited = R.Invited
    BY <2>6, <2>7 DEF PartyRecord, rest
  <2>9. head # NoPlayer /\ head \in M \ {m}
    <3>1. l \in M /\ NoPlayer \notin M
      BY <1>3, PartyAssumption DEF EntryRight, M
    <3> QED
      BY <2>3, <3>1
  <2>10. \A p \in M \ {m} : r.round[p] = 0 /\ r.leader[p] = head
    BY <1>3, <1>5, <2>4, <2>5
  <2> HIDE DEF head, Q
  <2>11. MembersOf(Q) = M \ {m}
    BY <2>7, <2>8 DEF MembersOf, Entries
  <2>12. r.leader \in [Player -> Player \cup {NoPlayer}] /\ r.round \in [Player -> 0 .. MaxRound]
    BY <1>3, <1>6, <1>7, <2>3, <2>5
  <2>13. r.round[m] # 0
    BY <1>1, <1>6, <2>5
  <2>14. \A p \in Player \ M : r.round[p] = PartyLeavingRound[p] /\ r.leader[p] = PartyLeader[p]
    BY <1>1, <2>4, <2>5
  <2>15. (M \ {m}) \cap Q.Invited = {}
    BY <1>3, <2>6, <2>8 DEF EntryRight, M
  <2> DEFINE stay == M \ {m}
  <2>16. stay = IF Q.Leader # NoPlayer THEN MembersOf(Q) ELSE {}
    BY <2>8, <2>9, <2>11
  <2>18. Departs(m, P, Q)
    BY <1>3, <1>9, <1>10, <2>6, <2>8, <2>9, <2>11 DEF Departs, M, head
  <2>17. Leaves(m, i, Q, stay)
    BY <1>1, <1>3, <2>5, <2>7, <2>8, <2>9, <2>10, <2>12, <2>13, <2>14, <2>15, <2>16, <2>18 DEF Leaves, P, M, r
  <2> QED
    BY <2>17
<1> QED
  BY <1>8, <1>9

\* leave_party, by the command of a client.
LEMMA LeavePartyStep ==
  ASSUME PartyInv, NEW m \in Player, LeaveParty(m)
  PROVE  PartyInv'
<1>1. /\ m \in online /\ GetPartyLeader(m, FALSE) # NoPlayer /\ UNCHANGED <<RoundNr, online>>
      /\ PartyArray' = LeaveResult(m).array /\ PartyLeader' = LeaveResult(m).leader
      /\ PartyLeavingRound' = LeaveResult(m).round
  BY DEF LeaveParty
<1>2. PICK i, Q, stay : Leaves(m, i, Q, stay)
  BY <1>1, LeaveMember
<1> DEFINE M == MembersOf(PartyArray[i])
<1>3. \A p \in M : p \in online /\ p \in Player
  <2>1. i \in Act(PartyArray)
    BY <1>2 DEF Leaves, Act
  <2> QED
    BY <2>1 DEF PartyInv, TypeOK, Agree, EntryRight
<1> HIDE DEF M
<1>4. /\ \A p \in stay : p \in M /\ Leaders'[p] = Q.Leader
      /\ \A p \in M \ stay : Leaders'[p] = NoPlayer
      /\ \A p \in Player \ M : Leaders'[p] = Leaders[p]
  BY <1>1, <1>2, <1>3, NewLeaders, OldLeaders DEF Leaves, M
<1>5. Fields'
  <2>1. OfflineForgotten'
    BY <1>1, <1>2, <1>3 DEF Leaves, M, PartyInv, OfflineForgotten
  <2> QED
    BY <1>1, <1>2, <2>1 DEF Leaves, PartyInv, TypeOK, Fields
<1>6. Q.Leader # NoPlayer => EntryRight(Q, Leaders', online')
  BY <1>1, <1>2, <1>3, <1>4 DEF Leaves, EntryRight, M
<1>7. /\ \A p \in stay \ M : Leaders[p] = NoPlayer
      /\ \A p \in M \ stay : p \notin online' \/ Leaders'[p] = NoPlayer
      /\ \A p \in Player \ (M \cup stay) : Leaders'[p] = Leaders[p] /\ (p \in online' <=> p \in online)
  BY <1>1, <1>4
<1>8. /\ i \in DOMAIN PartyArray /\ Q \in PartyRecord /\ PartyArray[i].Leader # NoPlayer
      /\ PartyArray' = [PartyArray EXCEPT ![i] = Q]
      /\ stay = IF Q.Leader # NoPlayer THEN MembersOf(Q) ELSE {}
  BY <1>1, <1>2 DEF Leaves
<1> QED
  BY <1>5, <1>6, <1>7, <1>8, PartyChanged DEF M

\* ~TPlayer: whoever leaves the game is in no party afterwards.
LEMMA LogoutStep ==
  ASSUME PartyInv, NEW m \in Player, Logout(m)
  PROVE  PartyInv'
<1>1. /\ m \in online /\ UNCHANGED RoundNr /\ online' = online \ {m}
      /\ PartyArray' = LeaveResult(m).array /\ PartyLeader' = [LeaveResult(m).leader EXCEPT ![m] = NoPlayer]
      /\ PartyLeavingRound' = [LeaveResult(m).round EXCEPT ![m] = 0]
  BY DEF Logout
<1>2. 0 \in 0 .. MaxRound
  BY PartyAssumption
<1>3. CASE GetPartyLeader(m, FALSE) = NoPlayer
  <2>1. /\ PartyArray' = PartyArray /\ PartyLeader' = [PartyLeader EXCEPT ![m] = NoPlayer]
        /\ PartyLeavingRound' = [PartyLeavingRound EXCEPT ![m] = 0]
    BY <1>1, <1>3, LeaveNothing
  <2>2. /\ PartyLeader \in [Player -> Player \cup {NoPlayer}]
        /\ PartyLeavingRound \in [Player -> 0 .. MaxRound]
    BY DEF PartyInv, TypeOK
  <2>3. \A p \in Player \ {m} : PartyLeader'[p] = PartyLeader[p] /\ PartyLeavingRound'[p] = PartyLeavingRound[p]
    BY <2>1, <2>2
  <2>4. PartyLeader'[m] = NoPlayer /\ PartyLeavingRound'[m] = 0
    BY <2>1, <2>2
  <2>5. \A p \in Player \ {m} : Leaders'[p] = Leaders[p]
    BY <2>3, NewLeaders, OldLeaders
  <2>6. TypeOK' /\ OfflineForgotten'
    <3>1. OfflineForgotten'
      BY <1>1, <2>3, <2>4 DEF PartyInv, OfflineForgotten
    <3>2. /\ PartyLeader' \in [Player -> Player \cup {NoPlayer}]
          /\ PartyLeavingRound' \in [Player -> 0 .. MaxRound]
      BY <1>2, <2>1, <2>2
    <3> QED
      BY <1>1, <2>1, <3>1, <3>2 DEF PartyInv, TypeOK
  <2>7. Leaders[m] = NoPlayer
    BY <1>3 DEF Leaders
  <2>8. Agree(PartyArray, Leaders', online')
    <3>1. \A i \in Act(PartyArray) : /\ EntryRight(PartyArray[i], Leaders, online)
                                     /\ PartyArray[i].Leader # NoPlayer
      BY DEF PartyInv, Agree, Act
    <3>2. \A i \in Act(PartyArray) : \A p \in MembersOf(PartyArray[i]) :
             p \in online /\ p # m /\ p \in Player /\ Leaders[p] = PartyArray[i].Leader
      BY <2>7, <3>1 DEF EntryRight, PartyInv, TypeOK
    <3>3. \A i \in Act(PartyArray) : \A p \in MembersOf(PartyArray[i]) :
             p \in online' /\ Leaders'[p] = PartyArray[i].Leader
      BY <1>1, <2>5, <3>2
    <3>4. \A i \in Act(PartyArray) : EntryRight(PartyArray[i], Leaders', online')
      BY <3>1, <3>3 DEF EntryRight
    <3>5. \A p \in online' : p \in online /\ p \in Player \ {m}
      BY <1>1 DEF PartyInv, TypeOK
    <3>6. \A p \in online' : Leaders'[p] # NoPlayer => \E i \in Act(PartyArray) : p \in MembersOf(PartyArray[i])
      BY <2>5, <3>5 DEF PartyInv, Agree
    <3> QED
      BY <3>4, <3>6 DEF Agree, PartyInv
  <2> QED
    BY <2>1, <2>6, <2>8 DEF PartyInv
<1>4. CASE GetPartyLeader(m, FALSE) # NoPlayer
  <2>1. PICK i, Q, stay : Leaves(m, i, Q, stay)
    BY <1>1, <1>4, LeaveMember
  <2> DEFINE M == MembersOf(PartyArray[i])
             lead == LeaveResult(m).leader
             round == LeaveResult(m).round
  <2>2. m \in M /\ \A p \in M : p \in online /\ p \in Player
    <3>1. i \in Act(PartyArray) /\ m \in M
      BY <2>1 DEF Leaves, Act
    <3> QED
      BY <3>1 DEF PartyInv, TypeOK, Agree, EntryRight
  <2> HIDE DEF M, lead, round
  <2>3. /\ lead \in [Player -> Player \cup {NoPlayer}] /\ round \in [Player -> 0 .. MaxRound]
        /\ PartyLeader' = [lead EXCEPT ![m] = NoPlayer] /\ PartyLeavingRound' = [round EXCEPT ![m] = 0]
    BY <1>1, <2>1 DEF Leaves, lead, round
  <2>4. /\ stay \subseteq M \ {m} /\ \A p \in stay : round[p] = 0 /\ lead[p] = Q.Leader
        /\ \A p \in M \ stay : round[p] # 0
        /\ \A p \in Player \ M : round[p] = PartyLeavingRound[p] /\ lead[p] = PartyLeader[p]
    BY <2>1 DEF Leaves, M, lead, round
  <2>5. /\ PartyLeader'[m] = NoPlayer /\ PartyLeavingRound'[m] = 0
        /\ \A p \in Player \ {m} : PartyLeader'[p] = lead[p] /\ PartyLeavingRound'[p] = round[p]
    BY <2>3
  <2>6. /\ \A p \in stay : Leaders'[p] = Q.Leader /\ p \in online'
        /\ \A p \in M \ stay : p \notin online' \/ Leaders'[p] = NoPlayer
        /\ \A p \in Player \ M : Leaders'[p] = Leaders[p] /\ (p \in online' <=> p \in online)
    BY <1>1, <2>2, <2>4, <2>5, NewLeaders, OldLeaders
  <2>7. Fields'
    <3>1. OfflineForgotten'
      BY <1>1, <2>2, <2>4, <2>5 DEF PartyInv, OfflineForgotten
    <3>2. /\ PartyLeader' \in [Player -> Player \cup {NoPlayer}]
          /\ PartyLeavingRound' \in [Player -> 0 .. MaxRound]
      BY <1>2, <2>3
    <3> QED
      BY <1>1, <3>1, <3>2 DEF PartyInv, TypeOK, Fields
  <2>8. Q.Leader # NoPlayer => EntryRight(Q, Leaders', online')
    BY <2>1, <2>6 DEF Leaves, EntryRight
  <2>9. /\ i \in DOMAIN PartyArray /\ Q \in PartyRecord /\ PartyArray[i].Leader # NoPlayer
        /\ PartyArray' = [PartyArray EXCEPT ![i] = Q]
        /\ stay = IF Q.Leader # NoPlayer THEN MembersOf(Q) ELSE {}
    BY <1>1, <2>1 DEF Leaves
  <2>10. /\ \A p \in stay \ M : Leaders[p] = NoPlayer
         /\ \A p \in M \ stay : p \notin online' \/ Leaders'[p] = NoPlayer
         /\ \A p \in Player \ (M \cup stay) : Leaders'[p] = Leaders[p] /\ (p \in online' <=> p \in online)
    BY <2>4, <2>6
  <2> QED
    BY <2>7, <2>8, <2>9, <2>10, PartyChanged DEF M
<1> QED
  BY <1>3, <1>4

\* Who enters the game has no party and has left none.
LEMMA LoginStep ==
  ASSUME PartyInv, NEW p \in Player, Login(p)
  PROVE  PartyInv'
<1>1. /\ p \notin online /\ online' = online \cup {p} /\ UNCHANGED <<RoundNr, PartyLeader, PartyLeavingRound, PartyArray>>
  BY DEF Login, fields
<1>2. Leaders' = Leaders /\ Leaders[p] = NoPlayer
  BY <1>1 DEF Leaders, GetPartyLeader, PartyInv, OfflineForgotten
<1>3. TypeOK' /\ OfflineForgotten'
  BY <1>1 DEF PartyInv, TypeOK, OfflineForgotten
<1>4. Agree(PartyArray', Leaders', online')
  BY <1>1, <1>2 DEF PartyInv, Agree, EntryRight
<1> QED
  BY <1>3, <1>4 DEF PartyInv

\* Every step of the parties preserves the invariant.
LEMMA PartyStep == PartyInv /\ [Next]_vars => PartyInv'
<1> SUFFICES ASSUME PartyInv, [Next]_vars PROVE PartyInv'
  OBVIOUS
<1>1. ASSUME NEW p \in Player, Login(p) \/ Logout(p) \/ LeaveParty(p) PROVE PartyInv'
  BY <1>1, LoginStep, LogoutStep, LeavePartyStep
<1>2. ASSUME NEW p \in Player, NEW q \in Player, InviteToParty(p, q) PROVE PartyInv'
  BY <1>2, FoundPartyStep, AddInvitationStep DEF InviteToParty
<1>3. ASSUME NEW p \in Player, NEW q \in Player, RevokeInvitation(p, q) \/ Join(p, q) \/ PassLeadership(p, q)
      PROVE  PartyInv'
  BY <1>3, RevokeInvitationStep, JoinStep, PassLeadershipStep
<1>4. ASSUME online' = online, PartyLeader' = PartyLeader, PartyLeavingRound' = PartyLeavingRound,
             PartyArray' = PartyArray, RoundNr' \in 1 .. MaxRound
      PROVE  PartyInv'
  <2>1. Leaders' = Leaders
    BY <1>4 DEF Leaders, GetPartyLeader
  <2>2. TypeOK' /\ OfflineForgotten'
    BY <1>4 DEF PartyInv, TypeOK, OfflineForgotten
  <2>3. Agree(PartyArray', Leaders', online')
    BY <1>4, <2>1 DEF PartyInv
  <2> QED
    BY <2>2, <2>3 DEF PartyInv
<1>5. CASE NextRound
  <2>1. RoundNr' \in 1 .. MaxRound
    BY <1>5, PartyAssumption DEF NextRound, PartyInv, TypeOK
  <2> QED
    BY <1>4, <1>5, <2>1 DEF NextRound, fields
<1>6. CASE UNCHANGED vars
  BY <1>4, <1>6 DEF vars, fields, PartyInv, TypeOK
<1> QED
  BY <1>1, <1>2, <1>3, <1>5, <1>6 DEF Next

\* Before the first login there are no parties.
LEMMA PartyStart == Init => PartyInv
<1> SUFFICES ASSUME Init PROVE PartyInv
  OBVIOUS
<1>1. PartyArray \in Seq(PartyRecord) /\ Len(PartyArray) = 0 /\ DOMAIN PartyArray = {}
  BY EmptySeq DEF Init
<1>2. Cardinality(Player) \in Nat
  BY PartyAssumption, FS_CardinalityType
<1>3. TypeOK
  BY <1>1, <1>2, PartyAssumption DEF Init, TypeOK
<1>4. OfflineForgotten
  BY DEF Init, OfflineForgotten
<1>5. Agree(PartyArray, Leaders, online)
  BY <1>1 DEF Agree, Act, Init
<1> QED
  BY <1>3, <1>4, <1>5 DEF PartyInv

\* The parties: the array and the fields of the players keep their types, which
\* includes that the array never has more entries than there are players, and
\* the two records agree.
THEOREM PartyInvariance == Spec => []PartyInv
<1>1. Init => PartyInv
  BY PartyStart
<1>2. PartyInv /\ [Next]_vars => PartyInv'
  BY PartyStep
<1> QED
  BY <1>1, <1>2, PTL DEF Spec

-----------------------------------------------------------------------------
(* The parties are groups.                                                 *)

\* A player who knows no leader is in no group.
LEMMA AloneWithout ==
  ASSUME PartyInv, NEW p \in Player, Leaders[p] = NoPlayer PROVE Grp!Alone(p)
<1> SUFFICES ASSUME NEW i \in Active PROVE p \notin Group(PartyArray[i]).members
  BY DEF Grp!Alone, AllGroups
<1>1. i \in Act(PartyArray) /\ PartyArray[i].Leader # NoPlayer
  BY DEF Active, Act
<1> QED
  BY <1>1 DEF PartyInv, Agree, EntryRight, Group

\* Two parties are two groups.
LEMMA GroupsDiffer ==
  ASSUME PartyInv, NEW i \in Active, NEW j \in Active, i # j
  PROVE  Group(PartyArray[i]) # Group(PartyArray[j])
<1>1. i \in Act(PartyArray) /\ j \in Act(PartyArray)
  BY DEF Active, Act
<1>2. /\ PartyArray[i].Leader \in MembersOf(PartyArray[i])
      /\ MembersOf(PartyArray[i]) \cap MembersOf(PartyArray[j]) = {}
  BY <1>1 DEF PartyInv, Agree, EntryRight
<1> QED
  BY <1>2 DEF Group

\* When the entry of a party is replaced, its group is, and no other.
LEMMA GroupReplaced ==
  ASSUME PartyInv, NEW i \in DOMAIN PartyArray, PartyArray[i].Leader # NoPlayer,
         NEW Q \in PartyRecord, PartyArray' = [PartyArray EXCEPT ![i] = Q]
  PROVE  /\ Group(PartyArray[i]) \in AllGroups
         /\ Q.Leader = NoPlayer => AllGroups' = AllGroups \ {Group(PartyArray[i])}
         /\ Q.Leader # NoPlayer => AllGroups' = (AllGroups \ {Group(PartyArray[i])}) \cup {Group(Q)}
<1> DEFINE X == Group(PartyArray[i])
           rest == {Group(PartyArray[j]) : j \in Active \ {i}}
<1>1. /\ DOMAIN PartyArray' = DOMAIN PartyArray
      /\ PartyArray'[i] = Q /\ \A j \in DOMAIN PartyArray \ {i} : PartyArray'[j] = PartyArray[j]
  BY DEF PartyInv, TypeOK
<1>2. i \in Active
  BY DEF Active
<1>3. Active' \ {i} = Active \ {i} /\ (i \in Active' <=> Q.Leader # NoPlayer)
  BY <1>1 DEF Active
<1>4. \A j \in Active \ {i} : j \in DOMAIN PartyArray /\ PartyArray'[j] = PartyArray[j]
  BY <1>1 DEF Active
<1>5. AllGroups = rest \cup {X} /\ X \notin rest
  BY <1>2, GroupsDiffer DEF AllGroups
<1>6. AllGroups' = {Group(PartyArray'[j]) : j \in Active'}
  BY DEF AllGroups, Group, MembersOf
<1>7. {Group(PartyArray'[j]) : j \in Active' \ {i}} = rest
  BY <1>3, <1>4
<1>8. AllGroups' = IF Q.Leader = NoPlayer THEN rest ELSE rest \cup {Group(Q)}
  <2>1. CASE Q.Leader = NoPlayer
    BY <1>3, <1>6, <1>7, <2>1
  <2>2. CASE Q.Leader # NoPlayer
    <3>1. i \in Active'
      BY <1>3, <2>2
    <3>2. AllGroups' = {Group(PartyArray'[j]) : j \in Active' \ {i}} \cup {Group(PartyArray'[i])}
      BY <1>6, <3>1
    <3> QED
      BY <1>1, <1>7, <2>2, <3>2
  <2> QED
    BY <2>1, <2>2
<1> QED
  BY <1>5, <1>8

\* invite_to_party of a player without a party founds a group.
LEMMA FoundGroup ==
  ASSUME PartyInv, NEW h \in online, NEW g \in online \ {h}, FoundParty(h, g), GetPartyLeader(g, TRUE) = NoPlayer
  PROVE  Grp!Found(h, g)
<1> DEFINE P == [Leader |-> h, Member |-> <<h>>, Invited |-> {g}]
<1>1. h \in Player /\ g \in Player /\ Leaders[h] = NoPlayer /\ Leaders[g] = NoPlayer /\ h # NoPlayer
  BY NoLeader, PartyAssumption DEF PartyInv, TypeOK, FoundParty
<1>2. P \in PartyRecord /\ Group(P) = Grp!GroupOf(h, {h}, {g}) /\ P.Leader = h
  BY <1>1 DEF PartyRecord, Group, MembersOf, Grp!GroupOf
<1>3. PartyArray' = Entered(P)
  BY DEF FoundParty, Entered
<1> HIDE DEF P
<1>4. PICK i \in DOMAIN PartyArray' :
         /\ DOMAIN PartyArray' = DOMAIN PartyArray \cup {i} /\ i \notin Act(PartyArray)
         /\ PartyArray'[i] = P /\ \A j \in DOMAIN PartyArray \ {i} : PartyArray'[j] = PartyArray[j]
  BY <1>1, <1>2, <1>3, FoundEntry
<1>5. Active' = Active \cup {i} /\ i \notin Active
  BY <1>1, <1>2, <1>4 DEF Active, Act
<1>6. \A j \in Active : j # i /\ PartyArray'[j] = PartyArray[j]
  BY <1>4, <1>5 DEF Active
<1>7. AllGroups' = {Group(PartyArray'[j]) : j \in Active'}
  BY DEF AllGroups, Group, MembersOf
<1>8. AllGroups' = AllGroups \cup {Group(P)}
  BY <1>4, <1>5, <1>6, <1>7 DEF AllGroups
<1> QED
  BY <1>1, <1>2, <1>8, AloneWithout DEF Grp!Found

\* invite_to_party of a leader.
LEMMA InviteGroup ==
  ASSUME PartyInv, NEW h \in online, NEW g \in online, AddInvitation(h, g), GetPartyLeader(g, TRUE) = NoPlayer
  PROVE  \E X \in AllGroups : Grp!Invite(X, g)
<1> DEFINE i == GetParty(h)
           P == PartyArray[i]
           Q == [P EXCEPT !.Invited = P.Invited \cup {g}]
<1>1. h \in Player /\ g \in Player /\ PartiesOf(h) # {} /\ Leaders[g] = NoPlayer
  BY NoLeader DEF PartyInv, TypeOK, AddInvitation
<1>2. i \in DOMAIN PartyArray /\ P \in PartyRecord /\ P.Leader = h /\ h # NoPlayer
  BY <1>1, PartyOf
<1>3. PartyArray' = [PartyArray EXCEPT ![i] = Q]
  BY DEF AddInvitation
<1> HIDE DEF i
<1>4. Q \in PartyRecord /\ Q.Leader = h /\ Q.Member = P.Member /\ Q.Invited = P.Invited \cup {g}
  BY <1>1, <1>2 DEF PartyRecord
<1> HIDE DEF Q
<1>5. Group(P) \in AllGroups /\ AllGroups' = (AllGroups \ {Group(P)}) \cup {Group(Q)}
  BY <1>2, <1>3, <1>4, GroupReplaced
<1>6. Group(Q) = Grp!GroupOf(Group(P).leader, Group(P).members, Group(P).invited \cup {g})
  BY <1>2, <1>4 DEF Group, MembersOf, Grp!GroupOf
<1>7. Grp!Invite(Group(P), g)
  BY <1>1, <1>5, <1>6, AloneWithout DEF Grp!Invite, Grp!Becomes
<1> QED
  BY <1>5, <1>7

\* revoke_invitation.
LEMMA RevokeGroup ==
  ASSUME PartyInv, NEW h \in Player, NEW g \in Player, RevokeInvitation(h, g)
  PROVE  \E X \in AllGroups : Grp!Revoke(X, g)
<1> DEFINE i == GetParty(h)
           P == PartyArray[i]
           Q == [P EXCEPT !.Invited = P.Invited \ {g}]
           R == [Q EXCEPT !.Leader = NoPlayer]
           last == Len(P.Member) = 1 /\ P.Invited \ {g} = {}
<1>1. PartiesOf(h) # {} /\ g \in P.Invited
  BY DEF RevokeInvitation
<1>2. /\ i \in DOMAIN PartyArray /\ P \in PartyRecord /\ P.Leader = h /\ h # NoPlayer
      /\ EntryRight(P, Leaders, online) /\ P.Leader \in MembersOf(P)
  BY <1>1, PartyOf DEF EntryRight
<1>3. Q \in PartyRecord /\ Q.Leader = h /\ Q.Member = P.Member /\ Q.Invited = P.Invited \ {g}
  BY <1>2 DEF PartyRecord
<1>4. R \in PartyRecord /\ R.Leader = NoPlayer
  BY <1>3 DEF PartyRecord
<1>5. PartyArray' = IF last THEN [PartyArray EXCEPT ![i] = R] ELSE [PartyArray EXCEPT ![i] = Q]
  BY <1>3 DEF RevokeInvitation
<1>6. Len(P.Member) = 1 <=> MembersOf(P) = {P.Leader}
  <2> DEFINE E == [P EXCEPT !.Invited = Player]
  <2>1. E \in PartyRecord /\ E.Member = P.Member /\ E.Invited = Player /\ MembersOf(E) = MembersOf(P)
    BY <1>2 DEF PartyRecord, MembersOf
  <2> HIDE DEF E
  <2>2. EndsWith(P.Leader, E) <=> Len(P.Member) = 1
    BY <1>1, <1>2, <2>1, EndsByLength DEF EntryRight
  <2> QED
    BY <2>1, <2>2 DEF EndsWith
<1> HIDE DEF i, Q, R
<1>7. last <=> Group(P).members = {Group(P).leader} /\ Group(P).invited = {g}
  BY <1>1, <1>6 DEF Group
<1>8. CASE last
  <2>1. Group(P) \in AllGroups /\ AllGroups' = AllGroups \ {Group(P)}
    BY <1>2, <1>4, <1>5, <1>8, GroupReplaced
  <2>2. Grp!Revoke(Group(P), g)
    BY <1>1, <1>7, <1>8, <2>1 DEF Grp!Revoke, Grp!Ends, Group
  <2> QED
    BY <2>1, <2>2
<1>9. CASE ~last
  <2>1. Group(P) \in AllGroups /\ AllGroups' = (AllGroups \ {Group(P)}) \cup {Group(Q)}
    BY <1>2, <1>3, <1>5, <1>9, GroupReplaced
  <2>2. Group(Q) = Grp!GroupOf(Group(P).leader, Group(P).members, Group(P).invited \ {g})
    BY <1>2, <1>3 DEF Group, MembersOf, Grp!GroupOf
  <2>3. g \in Group(P).invited
    BY <1>1 DEF Group
  <2>4. Grp!Revoke(Group(P), g)
    BY <1>7, <1>9, <2>1, <2>2, <2>3 DEF Grp!Revoke, Grp!Becomes
  <2> QED
    BY <2>1, <2>4
<1> QED
  BY <1>8, <1>9

\* join_party.
LEMMA JoinGroup ==
  ASSUME PartyInv, NEW g \in Player, NEW h \in Player, Join(g, h)
  PROVE  \E X \in AllGroups : Grp!Join(X, g)
<1> DEFINE i == GetParty(h)
           P == PartyArray[i]
           Q == Accept(P, g)
<1>1. PartiesOf(h) # {} /\ g \in P.Invited /\ PartyArray' = [PartyArray EXCEPT ![i] = Q]
  BY DEF Join
<1>2. Leaders[g] = NoPlayer
  BY NoLeader DEF Join, PartyInv
<1>3. i \in DOMAIN PartyArray /\ P \in PartyRecord /\ P.Leader = h /\ h # NoPlayer
  BY <1>1, PartyOf
<1>4. P.Member \in Seq(Player)
  BY <1>3 DEF PartyRecord
<1>5. Q \in PartyRecord /\ Q.Leader = h /\ Q.Member = Append(P.Member, g) /\ Q.Invited = P.Invited \ {g}
  BY <1>3, <1>4, AppendProperties DEF Accept, PartyRecord
<1> HIDE DEF i, Q
<1>6. MembersOf(Q) = MembersOf(P) \cup {g}
  <2> DEFINE n == Len(P.Member)
  <2>1. /\ n \in Nat /\ DOMAIN P.Member = 1 .. n /\ DOMAIN Q.Member = 1 .. n + 1
        /\ Q.Member[n + 1] = g /\ \A j \in 1 .. n : Q.Member[j] = P.Member[j]
    BY <1>4, <1>5, AppendProperties, LenProperties
  <2> HIDE DEF n
  <2>2. DOMAIN Q.Member = DOMAIN P.Member \cup {n + 1}
    BY <2>1
  <2> QED
    BY <2>1, <2>2 DEF MembersOf
<1>7. Group(P) \in AllGroups /\ AllGroups' = (AllGroups \ {Group(P)}) \cup {Group(Q)}
  BY <1>1, <1>3, <1>5, GroupReplaced
<1>8. Group(Q) = Grp!GroupOf(Group(P).leader, Group(P).members \cup {g}, Group(P).invited \ {g})
  BY <1>3, <1>5, <1>6 DEF Group, Grp!GroupOf
<1>9. g \in Group(P).invited
  BY <1>1 DEF Group
<1>10. Grp!Join(Group(P), g)
  BY <1>2, <1>7, <1>8, <1>9, AloneWithout DEF Grp!Join, Grp!Becomes
<1> QED
  BY <1>7, <1>10

\* pass_leadership.
LEMMA PassGroup ==
  ASSUME PartyInv, NEW h \in Player, NEW l \in Player, PassLeadership(h, l)
  PROVE  \E X \in AllGroups : Grp!Pass(X, l)
<1> DEFINE i == GetParty(h)
           P == PartyArray[i]
           Q == Passed(P, l)
<1>1. /\ PartiesOf(h) # {} /\ l \in online \ {h} /\ GetPartyLeader(l, FALSE) = h
      /\ PartyArray' = [PartyArray EXCEPT ![i] = Q]
  BY DEF PassLeadership
<1>2. i \in DOMAIN PartyArray /\ P \in PartyRecord /\ P.Leader = h /\ h # NoPlayer
  BY <1>1, PartyOf
<1>3. l \in MembersOf(P) /\ l # NoPlayer
  BY <1>1, <1>2, MemberOfParty, PartyAssumption
<1>4. Q \in PartyRecord /\ Q.Leader = l /\ Q.Member = P.Member /\ Q.Invited = {}
  BY <1>2 DEF Passed, PartyRecord
<1> HIDE DEF i, Q
<1>5. Group(P) \in AllGroups /\ AllGroups' = (AllGroups \ {Group(P)}) \cup {Group(Q)}
  BY <1>1, <1>2, <1>3, <1>4, GroupReplaced
<1>6. Group(Q) = Grp!GroupOf(l, Group(P).members, {})
  BY <1>4 DEF Group, MembersOf, Grp!GroupOf
<1>7. l \in Group(P).members \ {Group(P).leader}
  BY <1>1, <1>2, <1>3 DEF Group
<1>8. Grp!Pass(Group(P), l)
  BY <1>5, <1>6, <1>7 DEF Grp!Pass, Grp!Becomes
<1> QED
  BY <1>5, <1>8

\* leave_party, by command or by ~TPlayer.
LEMMA LeaveGroup ==
  ASSUME PartyInv, NEW m \in online, PartyArray' = LeaveResult(m).array
  PROVE  AllGroups' = AllGroups \/ \E X \in AllGroups : Grp!Leave(X, m)
<1>1. CASE GetPartyLeader(m, FALSE) = NoPlayer
  <2>1. PartyArray' = PartyArray
    BY <1>1, LeaveNothing
  <2> QED
    BY <2>1 DEF AllGroups, Active
<1>2. CASE GetPartyLeader(m, FALSE) # NoPlayer
  <2>1. PICK i, Q, stay : Leaves(m, i, Q, stay)
    BY <1>2, LeaveMember
  <2> DEFINE P == PartyArray[i]
             X == Group(P)
             Y == Group(Q)
  <2>2. /\ i \in DOMAIN PartyArray /\ P.Leader # NoPlayer /\ m \in MembersOf(P) /\ Q \in PartyRecord
        /\ PartyArray' = [PartyArray EXCEPT ![i] = Q]
        /\ Q.Leader # NoPlayer => Q.Leader \in MembersOf(P) \ {m}
        /\ Departs(m, P, Q)
    BY <2>1 DEF Leaves
  <2>3. /\ X \in AllGroups
        /\ Q.Leader = NoPlayer => AllGroups' = AllGroups \ {X}
        /\ Q.Leader # NoPlayer => AllGroups' = (AllGroups \ {X}) \cup {Y}
    BY <2>2, GroupReplaced
  <2>4. /\ X.leader = P.Leader /\ X.members = MembersOf(P) /\ X.invited = P.Invited
        /\ Y = Grp!GroupOf(Q.Leader, MembersOf(Q), Q.Invited)
    BY DEF Group, Grp!GroupOf
  <2> HIDE DEF P, X, Y
  <2>5. EndsWith(m, P) <=> X.members = {m} \/ (X.invited = {} /\ \E q \in X.members : X.members = {m, q})
    BY <2>4 DEF EndsWith
  <2>6. CASE Q.Leader = NoPlayer
    BY <2>2, <2>3, <2>4, <2>5, <2>6 DEF Departs, Grp!Leave, Grp!Ends
  <2>7. CASE Q.Leader # NoPlayer
    <3>1. ~EndsWith(m, P) /\ MembersOf(Q) = X.members \ {m} /\ Grp!Becomes(X, Y)
      BY <2>2, <2>3, <2>4, <2>7 DEF Departs, Grp!Becomes
    <3>2. CASE m # X.leader
      <4>1. Y = Grp!GroupOf(X.leader, X.members \ {m}, X.invited)
        BY <2>2, <2>4, <2>7, <3>1, <3>2 DEF Departs
      <4> QED
        BY <2>2, <2>3, <2>4, <2>5, <3>1, <3>2, <4>1 DEF Grp!Leave
    <3>3. CASE m = X.leader
      <4>1. Y = Grp!GroupOf(Q.Leader, X.members \ {m}, {}) /\ Q.Leader \in X.members \ {m}
        BY <2>2, <2>4, <2>7, <3>1, <3>3 DEF Departs
      <4> QED
        BY <2>2, <2>3, <2>4, <2>5, <3>1, <3>3, <4>1 DEF Grp!Leave
    <3> QED
      BY <3>2, <3>3
  <2> QED
    BY <2>6, <2>7
<1> QED
  BY <1>1, <1>2

\* Every step of the parties is one of the groups, or leaves them alone.
LEMMA GroupStep == PartyInv /\ [Next]_vars => [Grp!GroupsNext]_AllGroups
<1> SUFFICES ASSUME PartyInv, [Next]_vars PROVE Grp!GroupsNext \/ UNCHANGED AllGroups
  OBVIOUS
<1>1. CASE UNCHANGED PartyArray
  BY <1>1 DEF AllGroups, Active
<1>2. ASSUME NEW p \in Player, Login(p) \/ Logout(p) \/ LeaveParty(p) PROVE Grp!GroupsNext \/ UNCHANGED AllGroups
  <2>1. CASE Login(p)
    BY <1>1, <2>1 DEF Login
  <2>2. CASE Logout(p) \/ LeaveParty(p)
    <3>1. p \in online /\ PartyArray' = LeaveResult(p).array
      BY <2>2 DEF Logout, LeaveParty
    <3> QED
      BY <3>1, LeaveGroup DEF Grp!GroupsNext
  <2> QED
    BY <1>2, <2>1, <2>2
<1>3. ASSUME NEW p \in Player, NEW q \in Player, InviteToParty(p, q) PROVE Grp!GroupsNext
  <2>1. p \in online /\ q \in online \ {p} /\ GetPartyLeader(q, TRUE) = NoPlayer
    BY <1>3 DEF InviteToParty
  <2>2. CASE FoundParty(p, q)
    BY <2>1, <2>2, FoundGroup DEF Grp!GroupsNext
  <2>3. CASE AddInvitation(p, q)
    BY <2>1, <2>3, InviteGroup DEF Grp!GroupsNext
  <2> QED
    BY <1>3, <2>2, <2>3 DEF InviteToParty
<1>4. ASSUME NEW p \in Player, NEW q \in Player, RevokeInvitation(p, q) \/ Join(p, q) \/ PassLeadership(p, q)
      PROVE  Grp!GroupsNext
  BY <1>4, RevokeGroup, JoinGroup, PassGroup DEF Grp!GroupsNext
<1>5. CASE NextRound \/ UNCHANGED vars
  BY <1>1, <1>5 DEF NextRound, vars
<1> QED
  BY <1>2, <1>3, <1>4, <1>5 DEF Next

\* The players' parties are groups in every behaviour: entries that are found by
\* the fields of the players and used again after disband_party behave as groups
\* in which a player is at most once, into which nobody gets without an
\* invitation that counts, and which keep a leader when theirs goes.
THEOREM GroupsImplemented == PlayersSpec => ImplementsGroups
<1>1. Init => Grp!GroupsInit
  BY DEF Init, Grp!GroupsInit, AllGroups, Active
<1>2. PartyInv /\ [Next]_vars => [Grp!GroupsNext]_AllGroups
  BY GroupStep
<1> QED
  BY <1>1, <1>2, PartyPart, PartyInvariance, PTL DEF Spec, ImplementsGroups, Grp!GroupsSpec

\* MembersAgree holds of the parties in every behaviour of the players: what
\* the array and the players' fields say of who is in which party is the same.
THEOREM MembersKept == PlayersSpec => []MembersAgree
<1>1. PartyInv => MembersAgree
  BY AgreeIsMembersAgree DEF PartyInv
<1> QED
  BY <1>1, PartyPart, PartyInvariance, PTL

\* MarksRight holds in every behaviour of the players: who carries a mark has a
\* logout block whose end takes the mark away, a mark names two players in the
\* game, and of two players only one is the attacker.
THEOREM MarksKept == PlayersSpec => []MarksRight
<1>1. PlayersInit => MarksInv
  BY DEF PlayersInit, Init, MarksInit, MarksInv, MarksEnd, MarksForgotten
<1>2. PartyInv => RoundPositive
  BY PartyAssumption DEF PartyInv, TypeOK, RoundPositive
<1>4. RoundPositive /\ Present /\ MarksInv /\ [PlayersNext]_allVars => MarksInv'
  BY MarksStep
<1>5. MarksInv => MarksRight
  BY DEF MarksInv, MarksRight
<1> QED
  BY <1>1, <1>2, <1>4, <1>5, Presence, PartyPart, PartyInvariance, PTL DEF PlayersSpec

=============================================================================
