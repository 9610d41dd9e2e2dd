------------------------------ MODULE Creatures ------------------------------
(***************************************************************************)
(* Creatures in the game thread: how they fight (Combat), cast spells      *)
(* (Magic), are spawned and decide (Monsters), and what the clients are    *)
(* told of them (KnownCreatures).                                          *)
(*                                                                         *)
(* The parts share no state that their properties are about: one part is   *)
(* at work in a behaviour, the others stay in an initial state; the        *)
(* variables of Combat are then unused (0).                                *)
(***************************************************************************)
EXTENDS KnownCreatures, Monsters, Magic

CONSTANTS
    Topic,     \* the parts of a run
    Attacker, NoAttacker, Servant, Master, CombatSlots, MaxHitPoints, MaxMana, Armor, Blows, Exp,
    Level, VictimLevel, Recent, Word, MaxBlows

VARIABLES
    topic,     \* the part that is at work
    victim, CombatList, CombatDamage, ActCombatEntry, present, origin, received, blows, round

F == INSTANCE Combat

combatVars == <<victim, CombatList, CombatDamage, ActCombatEntry, present, origin, received, blows, round>>

creatureVars == <<topic, combatVars, monsterVars, knownVars, magicVars>>

\* No monster is there when Monsters is not at work.
CreaturesInit ==
    /\ topic \in Topic
    /\ KnownInit /\ MonstersInit /\ MagicInit
    /\ topic # "monsters" => /\ monster = [m \in Monster |-> Absent]
                             /\ \A h \in Homes : home[h].Timer \in {0, RegenerationTime}
    /\ topic # "magic" => ~scene.unlimited
    /\ \/ topic = "combat" /\ F!CombatInit
       \/ /\ topic # "combat"
          /\ victim = 0 /\ CombatList = 0 /\ CombatDamage = 0 /\ ActCombatEntry = 0 /\ present = 0
          /\ origin = 0 /\ received = 0 /\ blows = 0 /\ round = 0

CreaturesNext ==
    /\ \/ topic = "combat" /\ F!CombatNext /\ UNCHANGED <<monsterVars, knownVars, magicVars>>
       \/ topic = "monsters" /\ MonstersNext /\ UNCHANGED <<combatVars, knownVars, magicVars>>
       \/ topic = "clients" /\ KnownNext /\ UNCHANGED <<combatVars, monsterVars, magicVars>>
       \/ topic = "magic" /\ MagicNext /\ UNCHANGED <<combatVars, monsterVars, knownVars>>
    /\ UNCHANGED topic

CreaturesSpec == CreaturesInit /\ [][CreaturesNext]_creatureVars

-----------------------------------------------------------------------------
\* Who earned experience gets its share, see Combat (DistributeExperiencePoints).
ExperienceDivided == topic = "combat" => F!ExperienceDivided

=============================================================================
