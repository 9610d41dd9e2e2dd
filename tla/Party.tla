------------------------------- MODULE Party --------------------------------
(***************************************************************************)
(* Parties (game_data/operate/operate.cpp, "Party").  Who is in a party is *)
(* recorded twice: in PartyArray, and in the fields PartyLeader and        *)
(* PartyLeavingRound of every player (creature/player/player.cpp).  For a  *)
(* few rounds after leaving, a player counts as a former member.           *)
(*                                                                         *)
(* Every action is one command of a client (protocol/receiving), a logout  *)
(* or the passing of a round; all run on the game thread.  A command that  *)
(* only answers with a message is left out.  The order of the invitations  *)
(* does not matter; the order of the members decides who leads next.       *)
(***************************************************************************)
EXTENDS Integers, Sequences, FiniteSets

CONSTANTS
    Player, NoPlayer,   \* characters; NoPlayer is ID 0
    FormerRounds,       \* how long a former member is one (5 in the code)
    MaxRound            \* bound on RoundNr

ASSUME PartyAssumption ==
    /\ IsFiniteSet(Player) /\ NoPlayer \notin Player
    /\ FormerRounds \in Nat /\ MaxRound \in Nat \ {0}

VARIABLES
    RoundNr,
    online,                         \* the players for whom get_player finds a TPlayer
    PartyLeader, PartyLeavingRound, \* fields of TPlayer, zero without one
    PartyArray                      \* the first Parties entries of the array

fields == <<PartyLeader, PartyLeavingRound>>
vars == <<RoundNr, online, fields, PartyArray>>

PartyRecord == [Leader : Player \cup {NoPlayer}, Member : Seq(Player), Invited : SUBSET Player]

MembersOf(P) == {P.Member[i] : i \in DOMAIN P.Member}

\* A disbanded entry is used again before the array grows, so that there are
\* never more entries than players.
TypeOK ==
    /\ RoundNr \in 1 .. MaxRound
    /\ online \subseteq Player
    /\ PartyLeader \in [Player -> Player \cup {NoPlayer}]
    /\ PartyLeavingRound \in [Player -> 0 .. MaxRound]
    /\ PartyArray \in Seq(PartyRecord)
    /\ Len(PartyArray) <= Cardinality(Player)

\* Players enter after the first round has begun.
Init ==
    /\ RoundNr = 1
    /\ online = {}
    /\ PartyLeader = [p \in Player |-> NoPlayer]
    /\ PartyLeavingRound = [p \in Player |-> 0]
    /\ PartyArray = <<>>

-----------------------------------------------------------------------------
(* Helpers                                                                 *)

GetPartyLeader(p, CheckFormer) ==
    IF PartyLeavingRound[p] = 0 \/ (CheckFormer /\ PartyLeavingRound[p] + FormerRounds >= RoundNr)
    THEN PartyLeader[p] ELSE NoPlayer

\* get_party, as the set of entries that match.
PartiesOf(l) == {i \in DOMAIN PartyArray : PartyArray[i].Leader = l}
GetParty(l) == CHOOSE i \in PartiesOf(l) : \A j \in PartiesOf(l) : i <= j

\* TPlayer::JoinParty and TPlayer::LeaveParty for a set of players.
JoinParty(S, l) ==
    /\ PartyLeader' = [p \in Player |-> IF p \in S THEN l ELSE PartyLeader[p]]
    /\ PartyLeavingRound' = [p \in Player |-> IF p \in S THEN 0 ELSE PartyLeavingRound[p]]

Left(S) == [p \in Player |-> IF p \in S THEN RoundNr ELSE PartyLeavingRound[p]]

\* disband_party leaves the lists of the entry as they are.
Disbanded(i) == [PartyArray EXCEPT ![i].Leader = NoPlayer]

\* pass_leadership, for the entry of the array.
Passed(P, l) == [P EXCEPT !.Leader = l, !.Invited = {}]

-----------------------------------------------------------------------------
(* Commands                                                                *)

\* Mutant: an entry that is used again keeps the invitations of the disbanded party.
BugFoundParty(h, g) ==
    /\ GetPartyLeader(h, TRUE) = NoPlayer
    /\ LET P == [Leader |-> h, Member |-> <<h>>, Invited |-> {g}] IN
          PartyArray' = IF PartiesOf(NoPlayer) = {} THEN Append(PartyArray, P)
                        ELSE [PartyArray EXCEPT ![GetParty(NoPlayer)] =
                                 [P EXCEPT !.Invited = (@ \cup PartyArray[GetParty(NoPlayer)].Invited) \ {h}]]
    /\ JoinParty({h}, h)

\* invite_to_party of a player without a party.
FoundParty(h, g) ==
    /\ GetPartyLeader(h, TRUE) = NoPlayer
    /\ LET P == [Leader |-> h, Member |-> <<h>>, Invited |-> {g}] IN
          PartyArray' = IF PartiesOf(NoPlayer) = {} THEN Append(PartyArray, P)
                        ELSE [PartyArray EXCEPT ![GetParty(NoPlayer)] = P]
    /\ JoinParty({h}, h)

\* invite_to_party of a leader.
AddInvitation(h, g) ==
    /\ GetPartyLeader(h, FALSE) = h
    /\ PartiesOf(h) # {}
    /\ PartyArray' = [PartyArray EXCEPT ![GetParty(h)].Invited = @ \cup {g}]
    /\ UNCHANGED fields

InviteToParty(h, g) ==
    /\ h \in online /\ g \in online \ {h}
    /\ GetPartyLeader(g, TRUE) = NoPlayer
    /\ FoundParty(h, g) \/ AddInvitation(h, g)
    /\ UNCHANGED <<RoundNr, online>>

\* The guest need not be online any more.
RevokeInvitation(h, g) ==
    /\ h \in online /\ GetPartyLeader(h, FALSE) = h
    /\ PartiesOf(h) # {}
    /\ LET i == GetParty(h)
           P == [PartyArray[i] EXCEPT !.Invited = @ \ {g}]
       IN /\ g \in PartyArray[i].Invited
          /\ IF Len(P.Member) = 1 /\ P.Invited = {}
             THEN /\ PartyArray' = [PartyArray EXCEPT ![i] = [P EXCEPT !.Leader = NoPlayer]]
                  /\ PartyLeavingRound' = Left(MembersOf(P) \cap online)
             ELSE /\ PartyArray' = [PartyArray EXCEPT ![i] = P]
                  /\ UNCHANGED PartyLeavingRound
    /\ UNCHANGED <<RoundNr, online, PartyLeader>>

Accept(P, g) == [P EXCEPT !.Member = Append(@, g), !.Invited = @ \ {g}]

\* join_party.  The host is whoever leads the party now.
Join(g, h) ==
    /\ g \in online /\ h \in online \ {g}
    /\ GetPartyLeader(g, TRUE) = NoPlayer
    /\ PartiesOf(h) # {}
    /\ g \in PartyArray[GetParty(h)].Invited
    /\ PartyArray' = [PartyArray EXCEPT ![GetParty(h)] = Accept(@, g)]
    /\ JoinParty({g}, h)
    /\ UNCHANGED <<RoundNr, online>>

PassLeadership(h, l) ==
    /\ h \in online /\ l \in online \ {h}
    /\ GetPartyLeader(h, FALSE) = h
    /\ GetPartyLeader(l, FALSE) = h
    /\ PartiesOf(h) # {}
    /\ PartyArray' = [PartyArray EXCEPT ![GetParty(h)] = Passed(@, l)]
    /\ JoinParty(MembersOf(PartyArray[GetParty(h)]) \cap online, l)
    /\ UNCHANGED <<RoundNr, online>>

\* The ordered removal that keeps the oldest members first.
Removed(s, m) ==
    LET k == CHOOSE k \in DOMAIN s : s[k] = m
    IN IF \A i \in DOMAIN s : s[i] # m THEN s
       ELSE [i \in 1 .. Len(s) - 1 |-> IF i < k THEN s[i] ELSE s[i + 1]]

\* leave_party, as the values it leaves: the party ends with its last pair,
\* otherwise the oldest other member becomes the leader if the leader goes,
\* unless pass_leadership refuses.
LeaveResult(m) ==
    LET l == GetPartyLeader(m, FALSE)
        i == GetParty(l)
        P == PartyArray[i]
        heir == IF P.Member[1] = m THEN P.Member[2] ELSE P.Member[1]
        heirs == IF l = m /\ heir \in online /\ GetPartyLeader(heir, FALSE) = m
                 THEN MembersOf(P) \cap online ELSE {}
        Q == IF heirs = {} THEN P ELSE Passed(P, heir)
    IN IF l = NoPlayer \/ PartiesOf(l) = {}
       THEN [array |-> PartyArray, leader |-> PartyLeader, round |-> PartyLeavingRound]
       ELSE IF Len(P.Member) = 1 \/ (Len(P.Member) = 2 /\ P.Invited = {})
       THEN [array |-> Disbanded(i), leader |-> PartyLeader, round |-> Left(MembersOf(P) \cap online)]
       ELSE [array |-> [PartyArray EXCEPT ![i] = [Q EXCEPT !.Member = Removed(@, m)]],
             leader |-> [p \in Player |-> IF p \in heirs THEN heir ELSE PartyLeader[p]],
             round |-> [p \in Player |-> CASE p = m /\ m \in MembersOf(P) -> RoundNr
                                           [] p \in heirs \ {m} -> 0
                                           [] OTHER -> PartyLeavingRound[p]]]

\* The command is refused during a fight, which may be the case at any time.
LeaveParty(m) ==
    /\ m \in online
    /\ GetPartyLeader(m, FALSE) # NoPlayer
    /\ PartyArray' = LeaveResult(m).array
    /\ PartyLeader' = LeaveResult(m).leader
    /\ PartyLeavingRound' = LeaveResult(m).round
    /\ UNCHANGED <<RoundNr, online>>

-----------------------------------------------------------------------------
\* The constructor starts with the fields at zero.
Login(p) ==
    /\ p \notin online
    /\ online' = online \cup {p}
    /\ UNCHANGED <<RoundNr, fields, PartyArray>>

\* Mutant: the destructor does not leave the party.
BugLogout(p) ==
    /\ p \in online
    /\ online' = online \ {p}
    /\ PartyLeader' = [PartyLeader EXCEPT ![p] = NoPlayer]
    /\ PartyLeavingRound' = [PartyLeavingRound EXCEPT ![p] = 0]
    /\ UNCHANGED <<RoundNr, PartyArray>>

\* ~TPlayer leaves the party by force, then the player and its fields are gone.
Logout(p) ==
    /\ p \in online
    /\ online' = online \ {p}
    /\ PartyArray' = LeaveResult(p).array
    /\ PartyLeader' = [LeaveResult(p).leader EXCEPT ![p] = NoPlayer]
    /\ PartyLeavingRound' = [LeaveResult(p).round EXCEPT ![p] = 0]
    /\ UNCHANGED RoundNr

NextRound ==
    /\ RoundNr < MaxRound
    /\ RoundNr' = RoundNr + 1
    /\ UNCHANGED <<online, fields, PartyArray>>

Next ==
    \/ \E p \in Player : Login(p) \/ Logout(p) \/ LeaveParty(p)
    \/ \E p, q \in Player : \/ InviteToParty(p, q) \/ RevokeInvitation(p, q)
                            \/ Join(p, q) \/ PassLeadership(p, q)
    \/ NextRound

Spec == Init /\ [][Next]_vars

-----------------------------------------------------------------------------
Active == {i \in DOMAIN PartyArray : PartyArray[i].Leader # NoPlayer}

\* The two records of a party agree, through invitations, changes of the
\* leader, logouts and returns: a party's members are online, each once and in
\* one party only, they know its leader, the leader is one of them, none of
\* them is still invited, and who believes to be in a party is a member of it.
\* (The error messages "Party of leader not found" and "Member not found" never
\* appear.)
MembersAgree ==
    /\ \A i \in Active : LET P == PartyArray[i] IN
          /\ P.Leader \in MembersOf(P) /\ MembersOf(P) \cap P.Invited = {}
          /\ \A j, k \in DOMAIN P.Member : P.Member[j] = P.Member[k] => j = k
          /\ \A m \in MembersOf(P) : m \in online /\ GetPartyLeader(m, FALSE) = P.Leader
          /\ \A j \in Active \ {i} : MembersOf(P) \cap MembersOf(PartyArray[j]) = {}
    /\ \A p \in online : GetPartyLeader(p, FALSE) # NoPlayer
          => \E i \in Active : p \in MembersOf(PartyArray[i])

\* The group that an entry of the array stands for; a disbanded one is none.
Group(P) == [leader |-> P.Leader, members |-> MembersOf(P), invited |-> P.Invited]

AllGroups == {Group(PartyArray[i]) : i \in Active}

Grp == INSTANCE Groups WITH groups <- AllGroups

\* The entries of PartyArray, searched by the fields of the players and used
\* again after disband_party, behave as groups: a command changes the group it
\* is about and no other, nobody gets into a group that has not invited him
\* since it was founded or since its leader changed, nobody is in two, and a
\* player who leaves or logs out takes away neither the group of the others
\* nor their leader.
ImplementsGroups == Grp!GroupsSpec

=============================================================================
