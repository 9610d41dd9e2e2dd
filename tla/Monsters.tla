------------------------------ MODULE Monsters ------------------------------
(***************************************************************************)
(* Monsters between their homes, their masters and the players around them *)
(* (monster.cpp): homes that breed anew what has died, monsters that sleep *)
(* while nobody is near, and summoned or convinced monsters that serve a   *)
(* player, who may leave the game and come back.                           *)
(***************************************************************************)
EXTENDS Integers, FiniteSets

CONSTANTS
    Monster,            \* identities of monsters
    Person,             \* players
    Nobody,
    Monsterhomes,       \* the number of homes
    MaxMonsters,        \* monsters of a home
    RegenerationTime,   \* of a home: its longest timer
    MaxServants         \* creatures that a player may have summoned (2)

ASSUME MonstersAssumption ==
    /\ IsFiniteSet(Monster) /\ Nobody \notin Person
    /\ Monsterhomes \in Nat /\ MaxMonsters \in Nat /\ RegenerationTime \in Nat /\ MaxServants \in Nat

VARIABLES
    home,     \* ActMonsters and Timer of each home
    monster,  \* what each monster is and does
    person    \* where each player is, and its SummonedCreatures

monsterVars == <<home, monster, person>>

Homes == 1 .. Monsterhomes

\* A monster that is not in the game.
Absent == [in |-> FALSE, LoggingOut |-> FALSE, Home |-> 0, Master |-> Nobody,
           State |-> "SLEEPING", Target |-> Nobody, todo |-> FALSE]

\* TMonster::TMonster, which ends with ToDoYield.
Created(h, master) ==
    [Absent EXCEPT !.in = TRUE, !.Home = h, !.Master = master, !.State = "IDLE", !.todo = TRUE]

Free == {m \in Monster : ~monster[m].in}
Near(p) == person[p].place = "near"

\* start_monsterhome_timer: random(MaxTimer / 2, MaxTimer), where many players make
\* MaxTimer as small as two fifths of the time of the home.
Timers == ((RegenerationTime * 2) \div 5) \div 2 .. RegenerationTime

\* load_monsterhomes: the homes are numbered from 1, and the loop that fills
\* them ends before the last one.  A home gets as many of its monsters as find
\* room (search_spawn_field), and a timer if some are missing.
MonstersInit ==
    \E at \in [Monster -> 0 .. Monsterhomes - 1], t \in [Homes -> Timers \cup {0}] :
        LET act(h) == Cardinality({m \in Monster : at[m] = h})
        IN /\ \A h \in Homes :
                 /\ act(h) <= MaxMonsters
                 /\ t[h] \in IF h < Monsterhomes /\ act(h) < MaxMonsters THEN Timers ELSE {0}
           /\ home = [h \in Homes |-> [ActMonsters |-> act(h), Timer |-> t[h]]]
           /\ monster = [m \in Monster |-> IF at[m] # 0 THEN Created(at[m], Nobody) ELSE Absent]
           /\ person = [p \in Person |-> [place |-> "away", Summoned |-> 0]]

-----------------------------------------------------------------------------
(* Homes.                                                                  *)

\* Mutant: a home waits for the next death after it has bred one monster.
BugRestart(h, act) == {0}

\* The timer runs on while the home is not full.
Restart(h, act) == IF act < MaxMonsters THEN Timers ELSE {0}

\* process_monsterhomes: a home whose timer ends breeds one monster, unless a
\* player would see it or there is no room, and starts its timer again if it
\* is still not full.
process_monsterhomes ==
    LET due == {h \in Homes : home[h].Timer = 1}
    IN /\ \E h \in Homes : home[h].Timer > 0
       /\ \E bred \in SUBSET due, who \in [due -> Monster], t \in [due -> Timers \cup {0}] :
             LET act(h) == home[h].ActMonsters + (IF h \in bred THEN 1 ELSE 0)
             IN /\ \A g, h \in bred : who[g] \in Free /\ (who[g] = who[h] => g = h)
                /\ \A h \in due : t[h] \in Restart(h, act(h))
                /\ home' = [h \in Homes |->
                      IF h \in due THEN [ActMonsters |-> act(h), Timer |-> t[h]]
                      ELSE [home[h] EXCEPT !.Timer = IF @ > 0 THEN @ - 1 ELSE 0]]
                /\ monster' = [m \in Monster |->
                      IF \E h \in bred : who[h] = m THEN Created(CHOOSE h \in bred : who[h] = m, Nobody)
                      ELSE monster[m]]
       /\ UNCHANGED person

\* notify_monsterhome_of_death.
notify_monsterhome_of_death(h) ==
    IF h = 0 \/ home[h].ActMonsters < 1 THEN UNCHANGED home
    ELSE \E t \in Timers :
            home' = [home EXCEPT ![h].ActMonsters = @ - 1,
                                 ![h].Timer = IF @ = 0 THEN t ELSE @]

-----------------------------------------------------------------------------
(* Monsters.                                                               *)

\* The monsters that are told of a movement, and wake up.
CreatureMoveStimulus(ms) ==
    [m \in Monster |-> IF ms[m].in /\ ~ms[m].LoggingOut /\ ms[m].State = "SLEEPING"
                       THEN [ms[m] EXCEPT !.State = "IDLE", !.todo = TRUE] ELSE ms[m]]

\* Why a monster goes: its time is up, it has left its home, or its master has
\* gone, has come back without it, or is too far away.
Leaves(m, far) ==
    LET s == monster[m]
    IN IF s.Master = Nobody THEN s.Home # 0 /\ far
       ELSE person[s.Master].place = "away" \/ person[s.Master].Summoned = 0 \/ far

\* The target of a servant is what its master attacks, or the master, if it is
\* in reach.
Targets(m, lost) ==
    LET s == monster[m]
    IN IF s.Master # Nobody THEN {p \in Person : Near(p)} \cup {s.Master, Nobody}
       ELSE IF s.Target # Nobody /\ Near(s.Target) /\ ~lost THEN {s.Target}
       ELSE {p \in Person : Near(p)} \cup {Nobody}

\* The state in which it goes on, or falls asleep: nobody sees it, nothing has
\* hurt it.
Decided(m, target, fists) ==
    LET s == monster[m]
        state == IF s.State \in {"PANIC", "UNDERATTACK"} THEN s.State ELSE "IDLE"
        alone == \A p \in Person : ~Near(p)
    IN IF target = Nobody /\ alone /\ state = "IDLE" /\ s.Master = Nobody THEN "SLEEPING"
       ELSE IF target = Nobody THEN "IDLE"
       ELSE IF target = s.Master THEN state
       ELSE IF state = "PANIC" THEN "PANIC"
       ELSE IF fists THEN "ATTACKING" ELSE state

\* Mutant: a monster that sees no target does not look for anything to do.
BugIdleStimulus(m) ==
    /\ monster[m].in /\ monster[m].todo
    /\ \E target \in Targets(m, FALSE) :
          monster' = [monster EXCEPT ![m].Target = target, ![m].State = Decided(m, target, FALSE), ![m].todo = FALSE]
    /\ UNCHANGED <<home, person>>

\* TMonster::IdleStimulus, when the list of things to do has come to its end.
\* Whatever it decides, and also if the way is blocked (ToDoGo throws), it
\* leaves a new list, or sleeps.
IdleStimulus(m) ==
    /\ monster[m].in /\ monster[m].todo /\ ~monster[m].LoggingOut
    /\ \E far \in BOOLEAN :
          \/ /\ Leaves(m, far)
             /\ monster' = [monster EXCEPT ![m].LoggingOut = TRUE, ![m].State = "SLEEPING", ![m].todo = FALSE]
          \/ /\ ~Leaves(m, far)
             /\ \E target \in Targets(m, FALSE) \cup Targets(m, TRUE) :
                   \E state \in {Decided(m, target, fists) : fists \in BOOLEAN}, blocked \in BOOLEAN :
                      monster' = [monster EXCEPT ![m].Target = IF blocked THEN Nobody ELSE target,
                                                 ![m].State = state, ![m].todo = state # "SLEEPING"]
    /\ UNCHANGED <<home, person>>

\* TMonster::DamageStimulus; poison reaches a monster that sleeps.
DamageStimulus(m) ==
    /\ monster[m].in /\ ~monster[m].LoggingOut
    /\ LET s == monster[m]
       IN monster' = [monster EXCEPT
             ![m].State = IF s.Target = Nobody THEN "PANIC"
                          ELSE IF s.State \in {"SLEEPING", "IDLE"} THEN "UNDERATTACK" ELSE @,
             ![m].todo = @ \/ s.State = "SLEEPING"]
    /\ UNCHANGED <<home, person>>

\* Death: TCreature::Death; TMonster::KickCreature kills, too.
Die(m) ==
    /\ monster[m].in /\ ~monster[m].LoggingOut
    /\ monster' = [monster EXCEPT ![m].LoggingOut = TRUE]
    /\ UNCHANGED <<home, person>>

\* ~TMonster.
Destroy(m) ==
    /\ monster[m].in /\ monster[m].LoggingOut
    /\ monster' = [monster EXCEPT ![m] = Absent]
    /\ LET p == monster[m].Master
       IN person' = IF p # Nobody /\ person[p].place # "away" /\ person[p].Summoned > 0
                    THEN [person EXCEPT ![p].Summoned = @ - 1] ELSE person
    /\ notify_monsterhome_of_death(monster[m].Home)

-----------------------------------------------------------------------------
(* Players.                                                                *)

\* A login; the creature is new, and has summoned nothing.
Login(p) ==
    /\ person[p].place = "away"
    /\ \E where \in {"near", "far"} :
          /\ person' = [person EXCEPT ![p] = [place |-> where, Summoned |-> 0]]
          /\ monster' = IF where = "near" THEN CreatureMoveStimulus(monster) ELSE monster
    /\ UNCHANGED home

Logout(p) ==
    /\ person[p].place # "away"
    /\ person' = [person EXCEPT ![p] = [place |-> "away", Summoned |-> 0]]
    /\ UNCHANGED <<home, monster>>

Walk(p) ==
    /\ person[p].place # "away"
    /\ \/ /\ ~Near(p) /\ person' = [person EXCEPT ![p].place = "near"]
          /\ monster' = CreatureMoveStimulus(monster)
       \/ /\ Near(p) /\ person' = [person EXCEPT ![p].place = "far"]
          /\ UNCHANGED monster
    /\ UNCHANGED home

\* summon_creature of a player.
Summon(p) ==
    /\ Near(p) /\ person[p].Summoned < MaxServants
    /\ \E m \in Free : monster' = [CreatureMoveStimulus(monster) EXCEPT ![m] = Created(0, p)]
    /\ person' = [person EXCEPT ![p].Summoned = @ + 1]
    /\ UNCHANGED home

\* TMonster::Convince: the monster leaves its home or its master, whose count
\* is not looked at; if the two are the same, nothing is gained.
Convince(p, m) ==
    LET old == monster[m].Master
    IN /\ Near(p) /\ person[p].Summoned < MaxServants /\ monster[m].in /\ ~monster[m].LoggingOut
       /\ notify_monsterhome_of_death(monster[m].Home)
       /\ monster' = [monster EXCEPT ![m].Home = 0, ![m].Master = p, ![m].todo = TRUE]
       /\ person' = [q \in Person |->
             [person[q] EXCEPT !.Summoned =
                 @ + (IF q = p THEN 1 ELSE 0) - (IF q = old /\ person[q].place # "away" THEN 1 ELSE 0)]]

\* challenge_monster.
Challenge(p, m) ==
    /\ Near(p) /\ monster[m].in /\ ~monster[m].LoggingOut
    /\ monster' = [monster EXCEPT ![m].Target = p, ![m].todo = TRUE]
    /\ UNCHANGED <<home, person>>

MonstersNext ==
    \/ process_monsterhomes
    \/ \E m \in Monster : IdleStimulus(m) \/ DamageStimulus(m) \/ Die(m) \/ Destroy(m)
    \/ \E p \in Person : Login(p) \/ Logout(p) \/ Walk(p) \/ Summon(p)
    \/ \E p \in Person, m \in Monster : Convince(p, m) \/ Challenge(p, m)

MonstersSpec == MonstersInit /\ [][MonstersNext]_monsterVars

-----------------------------------------------------------------------------
\* A home counts the monsters that it has bred and that have neither died nor
\* changed sides, never has too many, and breeds again as long as one is
\* missing.  The last home is left out: load_monsterhomes never fills it, and
\* its timer never starts.
HomesRefill ==
    \A h \in Homes :
        /\ home[h].ActMonsters = Cardinality({m \in Monster : monster[m].in /\ monster[m].Home = h})
        /\ home[h].ActMonsters <= MaxMonsters
        /\ h < Monsterhomes => (home[h].Timer > 0 <=> home[h].ActMonsters < MaxMonsters)

\* A monster that is awake has something to do, so that it will decide again:
\* nothing that happens while it decides leaves it standing.  One that sleeps
\* does so out of sight, and serves nobody.  No player has more servants on
\* record than follow it.
MonstersAct ==
    /\ \A m \in Monster : monster[m].in /\ ~monster[m].LoggingOut =>
          IF monster[m].State = "SLEEPING" /\ ~monster[m].todo
          THEN (\A p \in Person : ~Near(p)) /\ monster[m].Master = Nobody
          ELSE monster[m].todo
    /\ \A p \in Person : person[p].Summoned <= Cardinality({m \in Monster : monster[m].in /\ monster[m].Master = p})

=============================================================================
