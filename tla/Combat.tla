------------------------------- MODULE Combat -------------------------------
(***************************************************************************)
(* The damage that a creature takes, the list of those who dealt it, its   *)
(* death and the experience that its killers receive (TCreature::Damage,   *)
(* TCombat's combat list).  One victim, several attackers, of whom one may *)
(* be summoned by another.                                                 *)
(***************************************************************************)
EXTENDS Integers, Sequences, FiniteSets, FiniteSetsExt

CONSTANTS
    Attacker, NoAttacker,
    Servant, Master,    \* the summoned attacker and its master
    CombatSlots,        \* entries of CombatList (20)
    MaxHitPoints, MaxMana, Armor,
    Blows,              \* the strength of a blow: a set of numbers
    Exp,                \* the experience points of the victim
    Level, VictimLevel, \* the levels of the attackers and of the victim
    Recent,             \* rounds in which an attacker is dangerous (60)
    Word,               \* uint32 is modulo Word
    MaxBlows            \* bound: blows against one victim

VARIABLES
    victim,     \* "PLAYER" or "MONSTER", its points and what protects it
    CombatList, CombatDamage, ActCombatEntry,
    present,    \* attackers who are in the game
    origin,     \* PoisonDamageOrigin, and the strength of the poison
    received,   \* experience that each attacker received
    blows, round

combatVars == <<victim, CombatList, CombatDamage, ActCombatEntry, present, origin, received, blows, round>>
listVars == <<CombatList, CombatDamage, ActCombatEntry>>

Slot == 1 .. CombatSlots
Least(a, b) == IF a < b THEN a ELSE b

CombatInit ==
    /\ victim \in [Type : {"PLAYER", "MONSTER"}, hp : {MaxHitPoints}, mana : {MaxMana},
                   shield : BOOLEAN, uses : {1}, IsDead : {FALSE}, gone : {FALSE}, killers : {{}}]
    /\ CombatList = [i \in Slot |-> [ID |-> NoAttacker, Damage |-> 0, TimeStamp |-> 0]]
    /\ CombatDamage = 0 /\ ActCombatEntry = 1
    /\ present = Attacker
    /\ origin = [ID |-> NoAttacker, Cycle |-> 0]
    /\ received = [a \in Attacker |-> 0]
    /\ blows = 0 /\ round = 0

-----------------------------------------------------------------------------
\* AddDamageToCombatList: the list is a ring, and an attacker who is not in it
\* takes the place of the next one.
AddDamage(l, a, damage) ==
    LET old == {i \in Slot : l.list[i].ID = a}
        i == IF old = {} THEN l.act ELSE CHOOSE k \in old : \A n \in old : k <= n
    IN [list |-> [l.list EXCEPT ![i] = [ID |-> a, TimeStamp |-> round,
                     Damage |-> IF old = {} THEN damage ELSE (@.Damage + damage) % Word]],
        sum |-> (l.sum + damage) % Word,
        act |-> IF old = {} THEN (l.act % CombatSlots) + 1 ELSE l.act]

\* Mutant: the first damage of an attacker is not added to the sum.
BugAddDamageToCombatList(l, a, damage) ==
    LET m == AddDamage(l, a, damage)
    IN IF m.act = l.act THEN m ELSE [m EXCEPT !.sum = l.sum]

AddDamageToCombatList(l, a, damage) == AddDamage(l, a, damage)

GetMostDangerousAttacker(list) ==
    LET dangerous == {i \in Slot : round - list[i].TimeStamp < Recent /\ list[i].Damage > 0}
        worst == {i \in dangerous : \A k \in dangerous : list[k].Damage <= list[i].Damage}
    IN IF dangerous = {} THEN NoAttacker ELSE list[CHOOSE i \in worst : \A k \in worst : i <= k].ID

\* The master answers for its creature, as long as it is in the game.
Responsible(a) == IF a = Servant /\ Master \in present THEN Master ELSE a

\* What reaches the victim: players hurt players half, and an item protects a
\* player until it is worn out.
Mitigated(v, a, damage, periodic) ==
    LET d == IF a # NoAttacker /\ a # Servant /\ v.Type = "PLAYER" /\ ~periodic THEN (damage + 1) \div 2 ELSE damage
    IN IF v.Type = "PLAYER" /\ d > 0 /\ v.uses > 0
       THEN [damage |-> d \div 2, v |-> [v EXCEPT !.uses = @ - 1]]
       ELSE [damage |-> d, v |-> v]

\* The combat list after a wound; nobody deals the damage of a field, or of
\* poison whose originator has left.
Blamed(a, damage) ==
    LET l == [list |-> CombatList, sum |-> CombatDamage, act |-> ActCombatEntry]
        r == Responsible(a)
    IN IF a = NoAttacker THEN l
       ELSE IF r = a THEN AddDamageToCombatList(l, a, damage)
       ELSE AddDamageToCombatList(AddDamageToCombatList(l, a, damage \div 2), r, damage \div 2)

\* A player's death is recorded with the player who is responsible for the last
\* blow and with the most dangerous one, if that is another player.
Killers(v, a, list) ==
    IF v.Type = "PLAYER"
    THEN ({Responsible(a)} \cup {GetMostDangerousAttacker(list)}) \cap (Attacker \ {Servant})
    ELSE {}

\* The points after a wound, and the death.
Wounded(v, a, damage, list) ==
    LET d == Least(damage, v.hp)
    IN [v EXCEPT !.hp = @ - d, !.IsDead = d = v.hp,
                 !.killers = IF d = v.hp THEN Killers(v, a, list) ELSE @]

\* TCreature::Damage for damage that hits at once.
Strike(a, damage, physical) ==
    LET m == Mitigated(victim, a, damage, FALSE)
        d == IF physical THEN m.damage - Armor ELSE m.damage
        absorbed == m.v.shield /\ d <= m.v.mana
        rest == IF m.v.shield THEN d - m.v.mana ELSE d
        v == IF m.v.shield THEN [m.v EXCEPT !.mana = IF absorbed THEN @ - d ELSE 0] ELSE m.v
        l == Blamed(a, Least(rest, v.hp))
    IN IF victim.IsDead \/ m.damage <= 0 \/ d <= 0
       THEN victim' = (IF victim.IsDead THEN victim ELSE m.v) /\ UNCHANGED listVars
       ELSE IF absorbed THEN victim' = v /\ UNCHANGED listVars
       ELSE /\ victim' = Wounded(v, a, rest, l.list)
            /\ CombatList' = l.list /\ CombatDamage' = l.sum /\ ActCombatEntry' = l.act

ManaDrain(a) ==
    /\ ~victim.gone /\ ~victim.IsDead /\ a \in present /\ blows < MaxBlows /\ blows' = blows + 1
    /\ \E d \in Blows : LET m == Mitigated(victim, a, d, FALSE)
                        IN victim' = [m.v EXCEPT !.mana = @ - Least(m.damage, @)]
    /\ UNCHANGED <<listVars, present, origin, received, round>>

\* CloseAttack, DistanceAttack, WandAttack and the spells.
Hit(a) ==
    /\ ~victim.gone /\ a \in present /\ blows < MaxBlows /\ blows' = blows + 1
    /\ \E d \in Blows, physical \in BOOLEAN : Strike(a, d, physical)
    /\ UNCHANGED <<present, origin, received, round>>

\* Poison that is weaker than the one at work does nothing.
Poison(a) ==
    /\ ~victim.gone /\ ~victim.IsDead /\ a \in present /\ blows < MaxBlows /\ blows' = blows + 1
    /\ \E d \in Blows :
          LET m == Mitigated(victim, a, d, TRUE)
          IN /\ victim' = m.v
             /\ origin' = IF m.damage > origin.Cycle THEN [ID |-> a, Cycle |-> m.damage] ELSE origin
    /\ UNCHANGED <<listVars, present, received, round>>

\* SkillPoison::Event.
PoisonEvent ==
    /\ ~victim.gone /\ origin.Cycle > 0
    /\ origin' = [origin EXCEPT !.Cycle = @ - 1]
    /\ Strike(IF origin.ID \in present THEN origin.ID ELSE NoAttacker, 1, FALSE)
    /\ UNCHANGED <<present, received, blows, round>>

\* Healing: the dead are not healed.
Heal ==
    /\ ~victim.gone /\ ~victim.IsDead /\ victim.hp < MaxHitPoints /\ blows < MaxBlows /\ blows' = blows + 1
    /\ victim' = [victim EXCEPT !.hp = MaxHitPoints]
    /\ UNCHANGED <<listVars, present, origin, received, round>>

\* An attacker leaves the game or dies.
Depart(a) ==
    /\ ~victim.gone /\ a \in present
    /\ present' = present \ {a}
    /\ UNCHANGED <<victim, listVars, origin, received, blows, round>>

RoundPasses ==
    /\ ~victim.gone /\ ~victim.IsDead /\ round < Recent
    /\ round' = round + 1
    /\ UNCHANGED <<victim, listVars, present, origin, received, blows>>

\* A player who kills a player gets more, the lower its level is.
Share(i) ==
    LET amount == ((Exp * CombatList[i].Damage) % Word) \div CombatDamage
        a == CombatList[i].ID
        LevelLimit == (VictimLevel * 11) \div 10
    IN IF victim.Type = "MONSTER" \/ a = Servant THEN amount
       ELSE IF Level[a] >= LevelLimit THEN 0 ELSE ((LevelLimit - Level[a]) * amount) \div VictimLevel

\* Who is passed over: the members of the victim's party, and everybody when a
\* player dies in a world that is not PVP_ENFORCED (TPlayer::Death).
PassedOver ==
    IF victim.Type = "MONSTER" THEN {{}} ELSE (SUBSET (Attacker \ {Servant})) \cup {Attacker}

\* DistributeExperiencePoints, from the destructor, some time after the death, or
\* for a player at its death.
DistributeExperiencePoints ==
    /\ victim.IsDead /\ ~victim.gone
    /\ victim' = [victim EXCEPT !.gone = TRUE]
    /\ \E over \in PassedOver :
          received' = [a \in Attacker |->
             LET mine == {i \in Slot : CombatList[i].ID = a}
             IN IF CombatDamage = 0 \/ a \notin present \ over THEN 0 ELSE MapThenSumSet(Share, mine)]
    /\ UNCHANGED <<listVars, present, origin, blows, round>>

CombatNext ==
    \/ \E a \in Attacker : Hit(a) \/ ManaDrain(a) \/ Poison(a) \/ Depart(a)
    \/ PoisonEvent \/ Heal \/ RoundPasses \/ DistributeExperiencePoints

-----------------------------------------------------------------------------
\* The experience of a victim is divided, never multiplied, whatever happened
\* to the list, the attackers and the products in between: those who are left
\* share at most Exp, or a tenth more where they are players of low level who
\* killed a player.  An attacker has one entry, and the entries never account
\* for more than the damage that was done.
ExperienceDivided ==
    /\ MapThenSumSet(LAMBDA a : received[a], Attacker) * 10 <= Exp * (IF victim.Type = "PLAYER" THEN 11 ELSE 10)
    /\ MapThenSumSet(LAMBDA i : CombatList[i].Damage, Slot) <= CombatDamage
    /\ \A i, j \in Slot : CombatList[i].ID = CombatList[j].ID /\ i # j => CombatList[i].ID = NoAttacker
    /\ victim.IsDead <=> victim.hp = 0

=============================================================================
