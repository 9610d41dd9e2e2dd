-------------------------------- MODULE Marks -------------------------------
(***************************************************************************)
(* Player-killer marks (creature/player/player.cpp): who attacked whom     *)
(* first, and who is an aggressor.  They decide whether an attack is       *)
(* justified, in which parties have a say, and they last as long as the    *)
(* attacker may not log out, and for some rounds as former marks.          *)
(* World type NORMAL; red skulls (PlayerkillerEnd) do not change here.     *)
(***************************************************************************)
EXTENDS Party

CONSTANTS
    Redskull,      \* players with PlayerkillerEnd # 0
    BlockRounds    \* how long an attack blocks the logout (60 in the code)

ASSUME MarksAssumption == BlockRounds \in Nat

VARIABLES
    connected,                              \* players with a connection
    AttackedPlayers, FormerAttackedPlayers, \* sets of victims
    Aggressor, FormerAggressor,             \* sets of players
    FormerLogoutRound, EarliestLogoutRound

marks == <<AttackedPlayers, FormerAttackedPlayers, Aggressor, FormerAggressor, FormerLogoutRound>>
markVars == <<marks, EarliestLogoutRound>>

MarksInit ==
    /\ AttackedPlayers = [p \in Player |-> {}]
    /\ FormerAttackedPlayers = [p \in Player |-> {}]
    /\ Aggressor = {} /\ FormerAggressor = {}
    /\ FormerLogoutRound = [p \in Player |-> 0]
    /\ EarliestLogoutRound = [p \in Player |-> 0]

-----------------------------------------------------------------------------
InPartyWith(p, q, CheckFormer) ==
    /\ GetPartyLeader(p, CheckFormer) # NoPlayer
    /\ GetPartyLeader(p, CheckFormer) = GetPartyLeader(q, CheckFormer)

\* Whether the former marks of p still count.
Recent(p) == FormerLogoutRound[p] + FormerRounds >= RoundNr

IsAttacker(p, v, CheckFormer) ==
    v \in AttackedPlayers[p] \/ (CheckFormer /\ Recent(p) /\ v \in FormerAttackedPlayers[p])

IsAggressor(p, CheckFormer) ==
    p \in Aggressor \/ (CheckFormer /\ p \in FormerAggressor /\ Recent(p))

IsAttackJustified(p, v) ==
    v \notin Redskull =>
        \/ IsAggressor(v, TRUE)
        \/ InPartyWith(v, p, TRUE)
        \/ IsAttacker(v, p, TRUE)

\* RecordAttack: the first blow makes an attacker, an unjustified one an
\* aggressor.
RecordAttack(p, v) ==
    /\ AttackedPlayers' =
          IF InPartyWith(v, p, TRUE) \/ IsAttacker(v, p, TRUE) THEN AttackedPlayers
          ELSE [AttackedPlayers EXCEPT ![p] = @ \cup {v}]
    /\ Aggressor' = IF IsAttackJustified(p, v) THEN Aggressor ELSE Aggressor \cup {p}
    /\ UNCHANGED <<FormerAttackedPlayers, FormerAggressor, FormerLogoutRound>>

\* Whose logout an attack of p on v blocks.  A victim without a connection is
\* not kept in the game.
Blocked(p, v) == {p} \cup (IF v \in connected THEN {v} ELSE {})

\* TCombat::Attack between players.
Attack(p, v) ==
    /\ p \in online /\ v \in online \ {p}
    /\ EarliestLogoutRound' = [q \in Player |->
          IF q \in Blocked(p, v) /\ EarliestLogoutRound[q] < RoundNr + BlockRounds
          THEN RoundNr + BlockRounds ELSE EarliestLogoutRound[q]]
    /\ RecordAttack(p, v)

\* Mutant: the marks of others against p stay.
BugUnmarked(p) == [AttackedPlayers EXCEPT ![p] = {}]

\* ClearAttacker for every player, and p's own marks.
Unmarked(p) == [q \in Player |-> IF q = p THEN {} ELSE AttackedPlayers[q] \ {p}]

ClearPlayerkillingMarks(p) ==
    /\ AttackedPlayers' = Unmarked(p)
    /\ FormerAttackedPlayers' = [FormerAttackedPlayers EXCEPT ![p] = AttackedPlayers[p]]
    /\ Aggressor' = Aggressor \ {p}
    /\ FormerAggressor' = IF p \in Aggressor THEN FormerAggressor \cup {p} ELSE FormerAggressor \ {p}
    /\ FormerLogoutRound' = [FormerLogoutRound EXCEPT ![p] = RoundNr]

\* process_creatures, when the logout block is over.
BlockEnds(p) ==
    /\ p \in online
    /\ EarliestLogoutRound[p] \in 1 .. RoundNr
    /\ ClearPlayerkillingMarks(p)
    /\ EarliestLogoutRound' = [EarliestLogoutRound EXCEPT ![p] = 0]

\* ~TPlayer clears the marks, then the player and its fields are gone.
MarksLogout(p) ==
    /\ AttackedPlayers' = Unmarked(p)
    /\ FormerAttackedPlayers' = [FormerAttackedPlayers EXCEPT ![p] = {}]
    /\ Aggressor' = Aggressor \ {p} /\ FormerAggressor' = FormerAggressor \ {p}
    /\ FormerLogoutRound' = [FormerLogoutRound EXCEPT ![p] = 0]
    /\ EarliestLogoutRound' = [EarliestLogoutRound EXCEPT ![p] = 0]

-----------------------------------------------------------------------------
MarksEnd ==
    \A p \in online : AttackedPlayers[p] # {} \/ p \in Aggressor => EarliestLogoutRound[p] # 0

MarksForgotten ==
    \A p, q \in Player : q \in AttackedPlayers[p] => /\ p \in online /\ q \in online
                                                     /\ p \notin AttackedPlayers[q]

\* Every mark ends: whoever carries one cannot simply log out, and
\* process_creatures will take it away.  A logout ends the marks against a player
\* too: whoever comes back has been attacked by nobody, and of two players only
\* one is the attacker.
MarksRight == MarksEnd /\ MarksForgotten

=============================================================================
