CONSTANTS
    Topic = {"combat", "monsters", "clients", "magic"}
    Attacker = {a1, a2, sm}
    NoAttacker = none
    Servant = sm
    Master = a1
    CombatSlots = 2
    MaxHitPoints = 3
    MaxMana = 1
    Armor = 1
    Blows = {2, 3}
    Exp = 20
    Level <- MCLevel
    VictimLevel = 20
    Recent = 1
    Word = 32
    MaxBlows = 3
    Monster = {m1, m2}
    Person = {p1, p2}
    Nobody = none
    Monsterhomes = 2
    MaxMonsters = 2
    RegenerationTime = 5
    MaxServants = 2
    Link = {p1, p2}
    Beast = {m1, m2}
    NoBeast = none
    TableSize = 1
    MaxMissed = 1
    Prices <- MCPrices
    SummonCost = 1
    MaxMagic = 1
    MaxCharges = 1
    Slaves = 2
SPECIFICATION CreaturesSpec
SYMMETRY Symmetry
INVARIANTS ExperienceDivided HomesRefill MonstersAct ClientKnows
PROPERTIES SpellPaid
CHECK_DEADLOCK FALSE
