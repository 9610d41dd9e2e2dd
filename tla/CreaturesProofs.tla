-------------------------- MODULE CreaturesProofs ---------------------------
(***************************************************************************)
(* Proofs about three of the parts of Creatures: the monsters with their   *)
(* homes and masters, what the clients know of the creatures, and what     *)
(* spells take.                                                            *)
(***************************************************************************)
EXTENDS KnownCreatures, Monsters, Magic, FiniteSetTheorems, WellFoundedInduction, TLAPS

-----------------------------------------------------------------------------
(***************************************************************************)
(* Monsters, for any number of homes, monsters and players.                *)
(***************************************************************************)

MonsterRecord ==
    [in : BOOLEAN, LoggingOut : BOOLEAN, Home : 0 .. Monsterhomes, Master : Person \cup {Nobody},
     State : {"SLEEPING", "IDLE", "UNDERATTACK", "PANIC", "ATTACKING"},
     Target : Person \cup {Nobody}, todo : BOOLEAN]

HomeTypeOK == home \in [Homes -> [ActMonsters : Nat, Timer : Nat]]
MonsterTypeOK == monster \in [Monster -> MonsterRecord]
PersonTypeOK == person \in [Person -> [place : {"near", "far", "away"}, Summoned : Int]]
MonstersTypeOK == HomeTypeOK /\ MonsterTypeOK /\ PersonTypeOK

\* The monsters that a home has bred, and those that serve a player.
Crew(h) == {m \in Monster : monster[m].in /\ monster[m].Home = h}
Followers(p) == {m \in Monster : monster[m].in /\ monster[m].Master = p}

\* The last home is never filled, so nothing starts its timer.
LastHome == \A h \in Homes : h = Monsterhomes => home[h].ActMonsters = 0 /\ home[h].Timer = 0

\* A player who comes back has no servants on record.
AwayHasNone == \A p \in Person : person[p].place = "away" => person[p].Summoned = 0

HomesInv == MonstersTypeOK /\ HomesRefill /\ LastHome
ActInv == MonstersTypeOK /\ MonstersAct /\ AwayHasNone

\* Crews and followers are finite, and a member counts once.
LEMMA CrewFinite ==
    \A S \in SUBSET Monster : IsFiniteSet(S) /\ Cardinality(S) \in Nat
<1> TAKE S \in SUBSET Monster
<1>1. IsFiniteSet(S)
  BY FS_Subset, MonstersAssumption
<1>2. Cardinality(S) \in Nat
  BY <1>1, FS_CardinalityType
<1> QED BY <1>1, <1>2

\* What one monster more or less does to a count.
LEMMA OneMore ==
    ASSUME NEW S \in SUBSET Monster, NEW m \in Monster
    PROVE  /\ m \notin S => Cardinality(S \cup {m}) = Cardinality(S) + 1
           /\ m \in S => Cardinality(S \ {m}) = Cardinality(S) - 1 /\ Cardinality(S) > 0
<1>1. IsFiniteSet(S) /\ IsFiniteSet(S \ {m}) /\ Cardinality(S \ {m}) \in Nat
  BY CrewFinite
<1>2. m \notin S => Cardinality(S \cup {m}) = Cardinality(S) + 1
  BY <1>1, FS_AddElement
<1>3. m \in S => Cardinality(S \ {m}) = Cardinality(S) - 1
  BY <1>1, FS_RemoveElement
<1> QED BY <1>1, <1>2, <1>3, CrewFinite

\* The records that are made are records of monsters.
LEMMA MonsterRecords ==
    /\ Absent \in MonsterRecord
    /\ \A h \in 0 .. Monsterhomes, p \in Person \cup {Nobody} : Created(h, p) \in MonsterRecord
    /\ \A h \in 0 .. Monsterhomes, p \in Person \cup {Nobody} :
           LET c == Created(h, p)
           IN c.in /\ ~c.LoggingOut /\ c.Home = h /\ c.Master = p /\ c.State = "IDLE" /\ c.todo
<1>1. Absent \in MonsterRecord /\ ~Absent.LoggingOut
  BY MonstersAssumption DEF Absent, MonsterRecord
<1> QED BY <1>1 DEF Created, MonsterRecord

\* Timers are natural numbers, and run when the database gives enough time.
LEMMA TimersRun ==
    /\ Timers \subseteq Nat
    /\ RegenerationTime >= 5 => \A t \in Timers : t > 0
BY MonstersAssumption DEF Timers

LEMMA InitMonstersTypeOK == MonstersInit => MonstersTypeOK
<1> SUFFICES ASSUME MonstersInit PROVE MonstersTypeOK
  OBVIOUS
<1>1. PICK at \in [Monster -> 0 .. Monsterhomes - 1], t \in [Homes -> Timers \cup {0}] :
          /\ home = [h \in Homes |-> [ActMonsters |-> Cardinality({m \in Monster : at[m] = h}), Timer |-> t[h]]]
          /\ monster = [m \in Monster |-> IF at[m] # 0 THEN Created(at[m], Nobody) ELSE Absent]
          /\ person = [p \in Person |-> [place |-> "away", Summoned |-> 0]]
  BY DEF MonstersInit
<1>2. HomeTypeOK
  <2>1. \A h \in Homes : Cardinality({m \in Monster : at[m] = h}) \in Nat /\ t[h] \in Nat
    <3> TAKE h \in Homes
    <3>1. {m \in Monster : at[m] = h} \in SUBSET Monster
      OBVIOUS
    <3>2. Cardinality({m \in Monster : at[m] = h}) \in Nat
      BY <3>1, CrewFinite
    <3>3. t[h] \in Nat
      BY MonstersAssumption DEF Timers
    <3> QED BY <3>2, <3>3
  <2> QED BY <1>1, <2>1 DEF HomeTypeOK
<1>3. MonsterTypeOK
  BY <1>1, MonsterRecords, MonstersAssumption DEF MonsterTypeOK
<1>4. PersonTypeOK
  BY <1>1 DEF PersonTypeOK
<1> QED BY <1>2, <1>3, <1>4 DEF MonstersTypeOK

\* notify_monsterhome_of_death: the home counts one monster less, and its timer
\* runs.
LEMMA NotifyStep ==
    ASSUME MonstersTypeOK, NEW h \in Homes, home[h].ActMonsters >= 1, notify_monsterhome_of_death(h)
    PROVE  \E r \in [ActMonsters : Nat, Timer : Nat] :
              /\ home' = [home EXCEPT ![h] = r]
              /\ r.ActMonsters = home[h].ActMonsters - 1
              /\ RegenerationTime >= 5 => r.Timer > 0
<1>1. h # 0 /\ home[h] \in [ActMonsters : Nat, Timer : Nat]
  BY DEF MonstersTypeOK, HomeTypeOK, Homes
<1>2. PICK t \in Timers : home' = [home EXCEPT ![h].ActMonsters = @ - 1, ![h].Timer = IF @ = 0 THEN t ELSE @]
  BY <1>1 DEF notify_monsterhome_of_death
<1>3. t \in Nat /\ (RegenerationTime >= 5 => t > 0)
  BY MonstersAssumption DEF Timers
<1> DEFINE act == home[h].ActMonsters - 1
           timer == IF home[h].Timer = 0 THEN t ELSE home[h].Timer
           r == [home[h] EXCEPT !.ActMonsters = act, !.Timer = timer]
<1>4. home' = [home EXCEPT ![h] = r]
  BY <1>2
<1>5. act \in Nat /\ timer \in Nat /\ (RegenerationTime >= 5 => timer > 0)
  BY <1>1, <1>3
<1> HIDE DEF act, timer
<1>6. r \in [ActMonsters : Nat, Timer : Nat] /\ r.ActMonsters = act /\ r.Timer = timer
  BY <1>1, <1>5
<1> HIDE DEF r
<1>7. r.ActMonsters = home[h].ActMonsters - 1
  BY <1>6 DEF act
<1> QED BY <1>4, <1>5, <1>6, <1>7

LEMMA NotifyTypeOK ==
    ASSUME MonstersTypeOK, NEW h \in 0 .. Monsterhomes, notify_monsterhome_of_death(h)
    PROVE  HomeTypeOK'
<1>1. CASE h = 0 \/ home[h].ActMonsters < 1
  BY <1>1 DEF notify_monsterhome_of_death, MonstersTypeOK, HomeTypeOK
<1>2. CASE ~(h = 0 \/ home[h].ActMonsters < 1)
  <2>1. h \in Homes /\ home[h].ActMonsters >= 1
    BY <1>2, MonstersAssumption DEF Homes, MonstersTypeOK, HomeTypeOK
  <2> QED BY <2>1, NotifyStep DEF MonstersTypeOK, HomeTypeOK
<1> QED BY <1>1, <1>2

\* What process_monsterhomes does: some of the homes that are due get a new
\* monster each.
Breeds(due, bred, who, t) ==
    /\ due = {h \in Homes : home[h].Timer = 1}
    /\ bred \in SUBSET due /\ who \in [due -> Monster] /\ t \in [due -> Timers \cup {0}]
    /\ \A h \in bred : ~monster[who[h]].in
    /\ \A g, h \in bred : who[g] = who[h] => g = h
    /\ \A h \in due : t[h] \in Restart(h, home[h].ActMonsters + (IF h \in bred THEN 1 ELSE 0))
    /\ home' = [h \in Homes |->
          IF h \in due THEN [ActMonsters |-> home[h].ActMonsters + (IF h \in bred THEN 1 ELSE 0), Timer |-> t[h]]
          ELSE [home[h] EXCEPT !.Timer = IF @ > 0 THEN @ - 1 ELSE 0]]
    /\ \A h \in bred : monster'[who[h]] = Created(h, Nobody)
    /\ \A m \in Monster : (\A h \in bred : who[h] # m) => monster'[m] = monster[m]
    /\ monster' = [m \in Monster |-> monster'[m]]

LEMMA ProcessBreeds ==
    ASSUME process_monsterhomes
    PROVE  \E due, bred, who, t : Breeds(due, bred, who, t)
<1> DEFINE due == {h \in Homes : home[h].Timer = 1}
<1>1. PICK bred \in SUBSET due, who \in [due -> Monster], t \in [due -> Timers \cup {0}] :
          LET act(h) == home[h].ActMonsters + (IF h \in bred THEN 1 ELSE 0)
          IN /\ \A g, h \in bred : who[g] \in Free /\ (who[g] = who[h] => g = h)
             /\ \A h \in due : t[h] \in Restart(h, act(h))
             /\ home' = [h \in Homes |->
                   IF h \in due THEN [ActMonsters |-> act(h), Timer |-> t[h]]
                   ELSE [home[h] EXCEPT !.Timer = IF @ > 0 THEN @ - 1 ELSE 0]]
             /\ monster' = [m \in Monster |->
                   IF \E h \in bred : who[h] = m THEN Created(CHOOSE h \in bred : who[h] = m, Nobody)
                   ELSE monster[m]]
  BY DEF process_monsterhomes
<1>2. \A h \in bred : ~monster[who[h]].in
  BY <1>1 DEF Free
<1>3. \A g, h \in bred : who[g] = who[h] => g = h
  BY <1>1
<1>4. \A h \in bred : monster'[who[h]] = Created(h, Nobody)
  <2> TAKE h \in bred
  <2>1. (CHOOSE g \in bred : who[g] = who[h]) = h
    BY <1>3
  <2> QED BY <1>1, <2>1
<1>5. \A m \in Monster : (\A h \in bred : who[h] # m) => monster'[m] = monster[m]
  BY <1>1
<1>6. monster' = [m \in Monster |-> monster'[m]]
  BY <1>1
<1>7. Breeds(due, bred, who, t)
  BY <1>1, <1>2, <1>3, <1>4, <1>5, <1>6 DEF Breeds
<1> QED BY <1>7

LEMMA ProcessTypeOK ==
    ASSUME MonstersTypeOK, process_monsterhomes
    PROVE  HomeTypeOK' /\ MonsterTypeOK'
<1>1. PICK due, bred, who, t : Breeds(due, bred, who, t)
  BY ProcessBreeds
<1>2. HomeTypeOK'
  <2>1. \A h \in due : t[h] \in Nat /\ h \in Homes
    BY <1>1, MonstersAssumption DEF Breeds, Timers
  <2>2. ASSUME NEW h \in Homes PROVE home'[h] \in [ActMonsters : Nat, Timer : Nat]
    BY <1>1, <2>1 DEF Breeds, MonstersTypeOK, HomeTypeOK
  <2> QED BY <1>1, <2>2 DEF Breeds, HomeTypeOK
<1>3. MonsterTypeOK'
  <2>1. ASSUME NEW m \in Monster PROVE monster'[m] \in MonsterRecord
    <3>1. CASE \E h \in bred : who[h] = m
      <4>1. PICK h \in bred : who[h] = m
        BY <3>1
      <4>2. h \in 0 .. Monsterhomes
        BY <1>1 DEF Breeds, Homes
      <4> QED BY <1>1, <4>1, <4>2, MonsterRecords DEF Breeds
    <3>2. CASE \A h \in bred : who[h] # m
      BY <1>1, <3>2 DEF Breeds, MonstersTypeOK, MonsterTypeOK
    <3> QED BY <3>1, <3>2
  <2> QED BY <1>1, <2>1 DEF Breeds, MonsterTypeOK
<1> QED BY <1>2, <1>3

\* A monster that wakes up stays what it is.
LEMMA StimulusKeeps ==
    ASSUME MonstersTypeOK, NEW m \in Monster
    PROVE  LET n == CreatureMoveStimulus(monster)[m]
           IN /\ n \in MonsterRecord
              /\ n.in = monster[m].in /\ n.Home = monster[m].Home /\ n.Master = monster[m].Master
              /\ n.LoggingOut = monster[m].LoggingOut
              /\ n.State = "SLEEPING" /\ n.in /\ ~n.LoggingOut => FALSE
              /\ n.todo \/ n = monster[m]
BY DEF CreatureMoveStimulus, MonstersTypeOK, MonsterTypeOK, MonsterRecord

\* What a monster decides is a state.
LEMMA DecidedState ==
    ASSUME MonstersTypeOK, NEW m \in Monster, NEW target, NEW fists
    PROVE  Decided(m, target, fists) \in {"SLEEPING", "IDLE", "UNDERATTACK", "PANIC", "ATTACKING"}
BY DEF Decided, MonstersTypeOK, MonsterTypeOK, MonsterRecord

LEMMA TargetsPersons ==
    ASSUME MonstersTypeOK, NEW m \in Monster, NEW lost \in BOOLEAN
    PROVE  Targets(m, lost) \subseteq Person \cup {Nobody}
BY DEF Targets, MonstersTypeOK, MonsterTypeOK, MonsterRecord

\* A step of one monster, which stays where it belongs.
Becomes(m, n) == n \in MonsterRecord /\ monster' = [monster EXCEPT ![m] = n]
Stays(m, n) == n.in = monster[m].in /\ n.Home = monster[m].Home /\ n.Master = monster[m].Master

LEMMA IdleStep ==
    ASSUME MonstersTypeOK, NEW m \in Monster, IdleStimulus(m)
    PROVE  \E n : /\ Becomes(m, n) /\ Stays(m, n)
                  /\ ~n.LoggingOut => /\ n.State # "SLEEPING" => n.todo
                                      /\ n.State = "SLEEPING" => (\A p \in Person : ~Near(p)) /\ n.Master = Nobody
<1>1. monster[m] \in MonsterRecord
  BY DEF MonstersTypeOK, MonsterTypeOK
<1>2. CASE monster' = [monster EXCEPT ![m].LoggingOut = TRUE, ![m].State = "SLEEPING", ![m].todo = FALSE]
  <2> DEFINE n == [monster[m] EXCEPT !.LoggingOut = TRUE, !.State = "SLEEPING", !.todo = FALSE]
  <2>1. n \in MonsterRecord /\ n.in = monster[m].in /\ n.Home = monster[m].Home /\ n.Master = monster[m].Master /\ n.LoggingOut
    BY <1>1 DEF MonsterRecord
  <2>2. monster' = [monster EXCEPT ![m] = n]
    BY <1>2
  <2> HIDE DEF n
  <2> QED BY <2>1, <2>2 DEF Becomes, Stays
<1>3. CASE \E target \in Targets(m, FALSE) \cup Targets(m, TRUE) :
              \E st \in {Decided(m, target, fists) : fists \in BOOLEAN}, blocked \in BOOLEAN :
                 monster' = [monster EXCEPT ![m].Target = IF blocked THEN Nobody ELSE target,
                                            ![m].State = st, ![m].todo = st # "SLEEPING"]
  <2>1. PICK target \in Targets(m, FALSE) \cup Targets(m, TRUE) :
              \E st \in {Decided(m, target, fists) : fists \in BOOLEAN}, blocked \in BOOLEAN :
                 monster' = [monster EXCEPT ![m].Target = IF blocked THEN Nobody ELSE target,
                                            ![m].State = st, ![m].todo = st # "SLEEPING"]
    BY <1>3
  <2>2. PICK st \in {Decided(m, target, fists) : fists \in BOOLEAN}, blocked \in BOOLEAN :
                 monster' = [monster EXCEPT ![m].Target = IF blocked THEN Nobody ELSE target,
                                            ![m].State = st, ![m].todo = st # "SLEEPING"]
    BY <2>1
  <2>3. st \in {"SLEEPING", "IDLE", "UNDERATTACK", "PANIC", "ATTACKING"}
    BY DecidedState
  <2>4. st = "SLEEPING" => (\A p \in Person : ~Near(p)) /\ monster[m].Master = Nobody
    BY <1>1 DEF Decided, MonsterRecord
  <2> DEFINE aim == IF blocked THEN Nobody ELSE target
             n == [monster[m] EXCEPT !.Target = aim, !.State = st, !.todo = st # "SLEEPING"]
  <2>5. aim \in Person \cup {Nobody}
    BY TargetsPersons
  <2>6. monster' = [monster EXCEPT ![m] = n]
    BY <2>2
  <2> HIDE DEF aim
  <2>7. n \in MonsterRecord /\ n.in = monster[m].in /\ n.Home = monster[m].Home /\ n.Master = monster[m].Master
        /\ n.State = st /\ n.todo = (st # "SLEEPING")
    BY <1>1, <2>3, <2>5 DEF MonsterRecord
  <2> HIDE DEF n
  <2> QED BY <2>4, <2>6, <2>7 DEF Becomes, Stays
<1> QED BY <1>2, <1>3 DEF IdleStimulus

LEMMA DamageStep ==
    ASSUME MonstersTypeOK, NEW m \in Monster, DamageStimulus(m)
    PROVE  \E n : /\ Becomes(m, n) /\ Stays(m, n)
                  /\ n.State = "SLEEPING" => FALSE
                  /\ n.todo \/ (n.todo = monster[m].todo /\ monster[m].State # "SLEEPING")
<1>1. monster[m] \in MonsterRecord
  BY DEF MonstersTypeOK, MonsterTypeOK
<1> DEFINE st == IF monster[m].Target = Nobody THEN "PANIC"
                 ELSE IF monster[m].State \in {"SLEEPING", "IDLE"} THEN "UNDERATTACK" ELSE monster[m].State
           td == monster[m].todo \/ monster[m].State = "SLEEPING"
           n == [monster[m] EXCEPT !.State = st, !.todo = td]
<1>2. monster' = [monster EXCEPT ![m] = n]
  BY DEF DamageStimulus
<1>3. st \in {"SLEEPING", "IDLE", "UNDERATTACK", "PANIC", "ATTACKING"} /\ td \in BOOLEAN /\ st # "SLEEPING"
  BY <1>1 DEF MonsterRecord
<1>4. td \/ (td = monster[m].todo /\ monster[m].State # "SLEEPING")
  BY <1>1 DEF MonsterRecord
<1> HIDE DEF st, td
<1>5. n \in MonsterRecord /\ n.in = monster[m].in /\ n.Home = monster[m].Home /\ n.Master = monster[m].Master
      /\ n.State = st /\ n.todo = td
  BY <1>1, <1>3 DEF MonsterRecord
<1> HIDE DEF n
<1> QED BY <1>2, <1>3, <1>4, <1>5 DEF Becomes, Stays

LEMMA DieStep ==
    ASSUME MonstersTypeOK, NEW m \in Monster, Die(m)
    PROVE  \E n : Becomes(m, n) /\ Stays(m, n) /\ n.LoggingOut
<1>1. monster[m] \in MonsterRecord
  BY DEF MonstersTypeOK, MonsterTypeOK
<1> DEFINE n == [monster[m] EXCEPT !.LoggingOut = TRUE]
<1>2. monster' = [monster EXCEPT ![m] = n]
  BY DEF Die
<1>3. n \in MonsterRecord /\ n.in = monster[m].in /\ n.Home = monster[m].Home /\ n.Master = monster[m].Master
      /\ n.LoggingOut
  BY <1>1 DEF MonsterRecord
<1> HIDE DEF n
<1> QED BY <1>2, <1>3 DEF Becomes, Stays

LEMMA ChallengeStep ==
    ASSUME MonstersTypeOK, NEW p \in Person, NEW m \in Monster, Challenge(p, m)
    PROVE  \E n : Becomes(m, n) /\ Stays(m, n) /\ n.todo
<1>1. monster[m] \in MonsterRecord
  BY DEF MonstersTypeOK, MonsterTypeOK
<1> DEFINE n == [monster[m] EXCEPT !.Target = p, !.todo = TRUE]
<1>2. monster' = [monster EXCEPT ![m] = n]
  BY DEF Challenge
<1>3. n \in MonsterRecord /\ n.in = monster[m].in /\ n.Home = monster[m].Home /\ n.Master = monster[m].Master
      /\ n.todo
  BY <1>1 DEF MonsterRecord
<1> HIDE DEF n
<1> QED BY <1>2, <1>3 DEF Becomes, Stays

LEMMA ConvinceStep ==
    ASSUME MonstersTypeOK, NEW p \in Person, NEW m \in Monster, Convince(p, m)
    PROVE  \E n : Becomes(m, n) /\ n.in /\ n.Home = 0 /\ n.Master = p /\ n.todo
<1>1. monster[m] \in MonsterRecord /\ monster[m].in
  BY DEF MonstersTypeOK, MonsterTypeOK, Convince
<1> DEFINE n == [monster[m] EXCEPT !.Home = 0, !.Master = p, !.todo = TRUE]
<1>2. monster' = [monster EXCEPT ![m] = n]
  BY DEF Convince
<1>3. 0 \in 0 .. Monsterhomes
  BY MonstersAssumption
<1>4. n \in MonsterRecord /\ n.in /\ n.Home = 0 /\ n.Master = p /\ n.todo
  BY <1>1, <1>3 DEF MonsterRecord
<1> HIDE DEF n
<1> QED BY <1>2, <1>4 DEF Becomes

LEMMA DestroyStep ==
    ASSUME MonstersTypeOK, NEW m \in Monster, Destroy(m)
    PROVE  \E n : Becomes(m, n) /\ ~n.in
<1>1. ~Absent.in
  BY DEF Absent
<1> QED BY <1>1, MonsterRecords DEF Destroy, Becomes

LEMMA BecomesTypeOK ==
    ASSUME MonstersTypeOK, NEW m \in Monster, NEW n, Becomes(m, n)
    PROVE  MonsterTypeOK'
BY DEF MonstersTypeOK, MonsterTypeOK, Becomes

LEMMA NextMonstersTypeOK == MonstersTypeOK /\ [MonstersNext]_monsterVars => MonstersTypeOK'
<1> SUFFICES ASSUME MonstersTypeOK, [MonstersNext]_monsterVars PROVE MonstersTypeOK'
  OBVIOUS
<1> USE DEF MonstersTypeOK
<1>1. CASE UNCHANGED monsterVars
  BY <1>1 DEF monsterVars, HomeTypeOK, MonsterTypeOK, PersonTypeOK
<1>2. CASE process_monsterhomes
  BY <1>2, ProcessTypeOK DEF process_monsterhomes, PersonTypeOK
<1>3. ASSUME NEW m \in Monster, IdleStimulus(m) PROVE MonstersTypeOK'
  BY <1>3, IdleStep, BecomesTypeOK DEF IdleStimulus, HomeTypeOK, PersonTypeOK
<1>4. ASSUME NEW m \in Monster, DamageStimulus(m) PROVE MonstersTypeOK'
  BY <1>4, DamageStep, BecomesTypeOK DEF DamageStimulus, HomeTypeOK, PersonTypeOK
<1>5. ASSUME NEW m \in Monster, Die(m) PROVE MonstersTypeOK'
  BY <1>5, DieStep, BecomesTypeOK DEF Die, HomeTypeOK, PersonTypeOK
<1>6. ASSUME NEW m \in Monster, Destroy(m) PROVE MonstersTypeOK'
  <2>1. HomeTypeOK'
    <3>1. monster[m].Home \in 0 .. Monsterhomes
      BY DEF MonsterTypeOK, MonsterRecord
    <3> QED BY <1>6, <3>1, NotifyTypeOK DEF Destroy
  <2>2. MonsterTypeOK'
    BY <1>6, DestroyStep, BecomesTypeOK
  <2>3. PersonTypeOK'
    BY <1>6 DEF Destroy, PersonTypeOK, MonsterTypeOK, MonsterRecord
  <2> QED BY <2>1, <2>2, <2>3
<1>7. ASSUME NEW p \in Person, Login(p) PROVE MonstersTypeOK'
  <2>1. monster' = CreatureMoveStimulus(monster) \/ monster' = monster
    BY <1>7 DEF Login
  <2>2. MonsterTypeOK'
    BY <2>1, StimulusKeeps DEF MonsterTypeOK, CreatureMoveStimulus
  <2> QED BY <1>7, <2>2 DEF Login, HomeTypeOK, PersonTypeOK
<1>8. ASSUME NEW p \in Person, Logout(p) PROVE MonstersTypeOK'
  BY <1>8 DEF Logout, HomeTypeOK, MonsterTypeOK, PersonTypeOK
<1>9. ASSUME NEW p \in Person, Walk(p) PROVE MonstersTypeOK'
  <2>1. monster' = CreatureMoveStimulus(monster) \/ monster' = monster
    BY <1>9 DEF Walk
  <2>2. MonsterTypeOK'
    BY <2>1, StimulusKeeps DEF MonsterTypeOK, CreatureMoveStimulus
  <2> QED BY <1>9, <2>2 DEF Walk, HomeTypeOK, PersonTypeOK
<1>10. ASSUME NEW p \in Person, Summon(p) PROVE MonstersTypeOK'
  <2>1. PICK m \in Monster : monster' = [CreatureMoveStimulus(monster) EXCEPT ![m] = Created(0, p)]
    BY <1>10 DEF Summon, Free
  <2>2. Created(0, p) \in MonsterRecord
    BY MonsterRecords, MonstersAssumption
  <2>3. CreatureMoveStimulus(monster) \in [Monster -> MonsterRecord]
    BY StimulusKeeps DEF CreatureMoveStimulus
  <2>4. MonsterTypeOK'
    BY <2>1, <2>2, <2>3 DEF MonsterTypeOK
  <2> QED BY <1>10, <2>4 DEF Summon, HomeTypeOK, PersonTypeOK
<1>11. ASSUME NEW p \in Person, NEW m \in Monster, Convince(p, m) PROVE MonstersTypeOK'
  <2>1. HomeTypeOK'
    <3>1. monster[m].Home \in 0 .. Monsterhomes
      BY DEF MonsterTypeOK, MonsterRecord
    <3> QED BY <1>11, <3>1, NotifyTypeOK DEF Convince
  <2>2. MonsterTypeOK'
    BY <1>11, ConvinceStep, BecomesTypeOK
  <2>3. PersonTypeOK'
    BY <1>11 DEF Convince, PersonTypeOK
  <2> QED BY <2>1, <2>2, <2>3
<1>12. ASSUME NEW p \in Person, NEW m \in Monster, Challenge(p, m) PROVE MonstersTypeOK'
  BY <1>12, ChallengeStep, BecomesTypeOK DEF Challenge, HomeTypeOK, PersonTypeOK
<1> QED BY <1>1, <1>2, <1>3, <1>4, <1>5, <1>6, <1>7, <1>8, <1>9, <1>10, <1>11, <1>12 DEF MonstersNext

-----------------------------------------------------------------------------
\* A monster that stays where it belongs changes no crew and no following.
LEMMA CrewsKept ==
    ASSUME MonstersTypeOK, MonstersTypeOK',
           \A m \in Monster : /\ monster'[m].in = monster[m].in /\ monster'[m].Home = monster[m].Home
                              /\ monster'[m].Master = monster[m].Master
    PROVE  (\A h : Crew(h)' = Crew(h)) /\ (\A p : Followers(p)' = Followers(p))
BY DEF Crew, Followers

LEMMA StaysKept ==
    ASSUME MonstersTypeOK, NEW m \in Monster, NEW n, Becomes(m, n), Stays(m, n)
    PROVE  \A k \in Monster : /\ monster'[k].in = monster[k].in /\ monster'[k].Home = monster[k].Home
                              /\ monster'[k].Master = monster[k].Master
BY DEF Becomes, Stays, MonstersTypeOK, MonsterTypeOK

\* A home is right if it is what HomesRefill and LastHome say.
HomeRight(h) ==
    /\ home[h].ActMonsters = Cardinality(Crew(h))
    /\ home[h].ActMonsters <= MaxMonsters
    /\ h < Monsterhomes => (home[h].Timer > 0 <=> home[h].ActMonsters < MaxMonsters)
    /\ h = Monsterhomes => home[h].ActMonsters = 0 /\ home[h].Timer = 0

LEMMA HomesInvRight == HomesInv <=> MonstersTypeOK /\ \A h \in Homes : HomeRight(h)
BY DEF HomesInv, HomesRefill, LastHome, HomeRight, Crew

LEMMA InitHomesInv == RegenerationTime >= 5 /\ MonstersInit => HomesInv
<1> SUFFICES ASSUME RegenerationTime >= 5, MonstersInit PROVE \A h \in Homes : HomeRight(h)
  BY HomesInvRight, InitMonstersTypeOK
<1>1. PICK at \in [Monster -> 0 .. Monsterhomes - 1], t \in [Homes -> Timers \cup {0}] :
          LET act(h) == Cardinality({m \in Monster : at[m] = h})
          IN /\ \A h \in Homes :
                   /\ act(h) <= MaxMonsters
                   /\ t[h] \in IF h < Monsterhomes /\ act(h) < MaxMonsters THEN Timers ELSE {0}
             /\ home = [h \in Homes |-> [ActMonsters |-> act(h), Timer |-> t[h]]]
             /\ monster = [m \in Monster |-> IF at[m] # 0 THEN Created(at[m], Nobody) ELSE Absent]
  BY DEF MonstersInit
<1> TAKE h \in Homes
<1> DEFINE act == Cardinality({m \in Monster : at[m] = h})
<1>2. /\ act <= MaxMonsters
      /\ t[h] \in IF h < Monsterhomes /\ act < MaxMonsters THEN Timers ELSE {0}
      /\ home[h].ActMonsters = act /\ home[h].Timer = t[h]
  BY <1>1
<1>3. h \in Nat /\ h >= 1 /\ h <= Monsterhomes
  BY MonstersAssumption DEF Homes
<1>4. Crew(h) = {m \in Monster : at[m] = h}
  <2>1. ASSUME NEW m \in Monster PROVE (monster[m].in /\ monster[m].Home = h) <=> at[m] = h
    <3>1. at[m] \in 0 .. Monsterhomes
      BY MonstersAssumption
    <3>2. CASE at[m] = 0
      BY <1>1, <1>3, <3>2 DEF Absent
    <3>3. CASE at[m] # 0
      BY <1>1, <3>1, <3>3, MonsterRecords
    <3> QED BY <3>2, <3>3
  <2> QED BY <2>1 DEF Crew
<1>5. h = Monsterhomes => act = 0
  <2> SUFFICES ASSUME h = Monsterhomes PROVE act = 0
    OBVIOUS
  <2>1. {m \in Monster : at[m] = h} = {}
    BY <1>3, MonstersAssumption
  <2> QED BY <2>1, FS_EmptySet
<1>6. act \in Nat
  BY CrewFinite
<1> HIDE DEF act
<1>7. act = Cardinality(Crew(h))
  BY <1>4 DEF act
<1>8. h < Monsterhomes => (t[h] > 0 <=> act < MaxMonsters)
  BY <1>2, <1>3, <1>6, MonstersAssumption DEF Timers
<1>9. h = Monsterhomes => t[h] = 0
  BY <1>2, <1>3, MonstersAssumption
<1> QED BY <1>2, <1>5, <1>7, <1>8, <1>9 DEF HomeRight

\* Homes do not change with a step that leaves them and their monsters alone.
LEMMA HomesUntouched ==
    ASSUME HomesInv, MonstersTypeOK', UNCHANGED home, \A h \in Homes : Crew(h)' = Crew(h)
    PROVE  HomesInv'
<1>1. \A h \in Homes : HomeRight(h)'
  BY HomesInvRight DEF HomeRight
<1> QED BY <1>1 DEF HomesInv, HomesRefill, LastHome, HomeRight, Crew

\* A monster that dies or changes sides leaves its home, which breeds again.
LEMMA HomeLeft ==
    ASSUME RegenerationTime >= 5, HomesInv, MonstersTypeOK', NEW m \in Monster, NEW n, Becomes(m, n),
           monster[m].in, ~n.in \/ n.Home = 0, notify_monsterhome_of_death(monster[m].Home)
    PROVE  HomesInv'
<1> DEFINE g == monster[m].Home
<1>1. MonstersTypeOK /\ g \in 0 .. Monsterhomes /\ \A h \in Homes : HomeRight(h)
  BY HomesInvRight DEF HomesInv, MonstersTypeOK, MonsterTypeOK, MonsterRecord
<1>2. \A k \in Monster : monster'[k] = IF k = m THEN n ELSE monster[k]
  BY <1>1 DEF Becomes, MonstersTypeOK, MonsterTypeOK
<1>3. ASSUME NEW h \in Homes PROVE Crew(h)' = IF h = g THEN Crew(h) \ {m} ELSE Crew(h)
  <2>1. h # 0
    BY DEF Homes
  <2> QED BY <1>2, <2>1 DEF Crew
<1>4. CASE g = 0
  <2>1. UNCHANGED home
    BY <1>4 DEF notify_monsterhome_of_death
  <2>2. \A h \in Homes : h # g
    BY <1>4 DEF Homes
  <2>3. \A h \in Homes : Crew(h)' = Crew(h)
    BY <1>3, <2>2
  <2> QED BY <2>1, <2>3, HomesUntouched
<1>5. CASE g # 0
  <2>1. g \in Homes /\ g \in Nat
    BY <1>1, <1>5, MonstersAssumption DEF Homes
  <2>2. m \in Crew(g) /\ Crew(g) \in SUBSET Monster
    BY DEF Crew
  <2>3. Cardinality(Crew(g) \ {m}) = Cardinality(Crew(g)) - 1 /\ Cardinality(Crew(g)) > 0
        /\ Cardinality(Crew(g)) \in Nat
    BY <2>2, OneMore, CrewFinite
  <2>4. home[g].ActMonsters >= 1
    BY <1>1, <2>1, <2>3 DEF HomeRight
  <2>5. PICK r \in [ActMonsters : Nat, Timer : Nat] :
              /\ home' = [home EXCEPT ![g] = r]
              /\ r.ActMonsters = home[g].ActMonsters - 1
              /\ r.Timer > 0
    BY <1>1, <2>1, <2>4, NotifyStep
  <2>6. \A h \in Homes : home'[h] = IF h = g THEN r ELSE home[h]
    BY <1>1, <2>5 DEF MonstersTypeOK, HomeTypeOK
  <2>7. ASSUME NEW h \in Homes PROVE HomeRight(h)'
    <3>1. CASE h # g
      <4>1. home'[h] = home[h] /\ Crew(h)' = Crew(h)
        BY <1>3, <2>6, <3>1
      <4> QED BY <1>1, <4>1 DEF HomeRight
    <3>2. CASE h = g
      <4>1. home'[h] = r /\ Crew(h)' = Crew(g) \ {m}
        BY <1>3, <2>6, <3>2
      <4>2. HomeRight(g)
        BY <1>1, <2>1
      <4>3. home[g].ActMonsters \in Nat /\ home[g].Timer \in Nat
        BY <1>1, <2>1 DEF MonstersTypeOK, HomeTypeOK
      <4>4. g # Monsterhomes
        BY <2>4, <4>2, <4>3 DEF HomeRight
      <4>5. /\ home'[h].ActMonsters = Cardinality(Crew(h)')
            /\ home'[h].ActMonsters < MaxMonsters /\ home'[h].Timer > 0
        BY <2>3, <2>5, <3>2, <4>1, <4>2, <4>3, MonstersAssumption DEF HomeRight
      <4>6. home'[h].ActMonsters <= MaxMonsters
        BY <2>5, <3>2, <4>1, <4>5, MonstersAssumption
      <4> QED BY <3>2, <4>4, <4>5, <4>6 DEF HomeRight
    <3> QED BY <3>1, <3>2
  <2> QED BY <2>7 DEF HomesInv, HomesRefill, LastHome, HomeRight, Crew
<1> QED BY <1>4, <1>5

\* process_monsterhomes: what is bred belongs to the home that bred it.
LEMMA ProcessHomes ==
    ASSUME RegenerationTime >= 5, HomesInv, MonstersTypeOK', process_monsterhomes
    PROVE  HomesInv'
<1>1. PICK due, bred, who, t : Breeds(due, bred, who, t)
  BY ProcessBreeds
<1>2. MonstersTypeOK /\ \A h \in Homes : HomeRight(h)
  BY HomesInvRight
<1>3. /\ due = {h \in Homes : home[h].Timer = 1} /\ bred \subseteq due
      /\ \A h \in bred : who[h] \in Monster
      /\ \A h \in bred : ~monster[who[h]].in
      /\ \A h, g \in bred : who[g] = who[h] => g = h
      /\ \A h \in bred : monster'[who[h]] = Created(h, Nobody)
      /\ \A m \in Monster : (\A h \in bred : who[h] # m) => monster'[m] = monster[m]
  BY <1>1 DEF Breeds
<1>4. \A h \in bred : monster'[who[h]].in /\ monster'[who[h]].Home = h
  <2> TAKE h \in bred
  <2>1. h \in 0 .. Monsterhomes
    BY <1>3 DEF Homes
  <2> QED BY <1>3, <2>1, MonsterRecords
<1>5. ASSUME NEW h \in Homes
      PROVE  Crew(h)' = IF h \in bred THEN Crew(h) \cup {who[h]} ELSE Crew(h)
  <2>1. ASSUME NEW m \in Monster
        PROVE  (monster'[m].in /\ monster'[m].Home = h)
                  <=> (monster[m].in /\ monster[m].Home = h) \/ (h \in bred /\ m = who[h])
    <3>1. CASE \A g \in bred : who[g] # m
      BY <1>3, <3>1
    <3>2. CASE \E g \in bred : who[g] = m
      <4>1. PICK g \in bred : who[g] = m
        BY <3>2
      <4>2. monster'[m].in /\ monster'[m].Home = g /\ ~monster[m].in
        BY <1>3, <1>4, <4>1
      <4>3. h \in bred /\ m = who[h] <=> h = g
        BY <1>3, <4>1
      <4> QED BY <4>2, <4>3
    <3> QED BY <3>1, <3>2
  <2>2. h \in bred => who[h] \in Monster
    BY <1>3
  <2> QED BY <2>1, <2>2 DEF Crew
<1>6. ASSUME NEW h \in Homes PROVE HomeRight(h)'
  <2>0. HomeRight(h) /\ home[h] \in [ActMonsters : Nat, Timer : Nat] /\ h \in Nat /\ Crew(h) \in SUBSET Monster
    BY <1>2 DEF MonstersTypeOK, HomeTypeOK, Homes, Crew
  <2>1. CASE h \notin due
    <3>1. Crew(h)' = Crew(h) /\ home[h].Timer # 1
      BY <1>3, <1>5, <2>1
    <3>2. home'[h] = [home[h] EXCEPT !.Timer = IF @ > 0 THEN @ - 1 ELSE 0]
      BY <1>1, <2>1 DEF Breeds
    <3>3. home'[h].ActMonsters = home[h].ActMonsters
          /\ home'[h].Timer = IF home[h].Timer > 0 THEN home[h].Timer - 1 ELSE 0
      BY <2>0, <3>2
    <3>4. (home'[h].Timer > 0 <=> home[h].Timer > 0) /\ (home[h].Timer = 0 => home'[h].Timer = 0)
      BY <2>0, <3>1, <3>3
    <3> QED BY <2>0, <3>1, <3>3, <3>4 DEF HomeRight
  <2>2. CASE h \in due
    <3> DEFINE act == home[h].ActMonsters + (IF h \in bred THEN 1 ELSE 0)
    <3>1. home'[h].ActMonsters = act /\ home'[h].Timer = t[h] /\ t[h] \in Restart(h, act)
      BY <1>1, <2>2 DEF Breeds
    <3>2. home[h].Timer = 1
      BY <1>3, <2>2
    <3>3. h < Monsterhomes /\ home[h].ActMonsters < MaxMonsters
      BY <2>0, <3>2, MonstersAssumption DEF HomeRight, Homes
    <3>4. act \in Nat /\ act <= MaxMonsters
      BY <2>0, <3>3, MonstersAssumption
    <3>5. act = Cardinality(Crew(h)')
      <4>1. CASE h \in bred
        <5>1. who[h] \in Monster /\ who[h] \notin Crew(h)
          BY <1>3, <4>1 DEF Crew
        <5>2. Cardinality(Crew(h) \cup {who[h]}) = Cardinality(Crew(h)) + 1
          BY <2>0, <5>1, OneMore
        <5>3. Crew(h)' = Crew(h) \cup {who[h]} /\ act = home[h].ActMonsters + 1
          BY <1>5, <4>1
        <5> QED BY <2>0, <5>2, <5>3 DEF HomeRight
      <4>2. CASE h \notin bred
        <5>1. Crew(h)' = Crew(h) /\ act = home[h].ActMonsters
          BY <1>5, <4>2, <2>0
        <5> QED BY <2>0, <5>1 DEF HomeRight
      <4> QED BY <4>1, <4>2
    <3> HIDE DEF act
    <3>6. t[h] > 0 <=> act < MaxMonsters
      BY <3>1, <3>4, MonstersAssumption DEF Restart, Timers
    <3> QED BY <3>1, <3>3, <3>4, <3>5, <3>6, MonstersAssumption DEF HomeRight
  <2> QED BY <2>1, <2>2
<1> QED BY <1>6 DEF HomesInv, HomesRefill, LastHome, HomeRight, Crew

LEMMA NextHomesInv ==
    ASSUME RegenerationTime >= 5, HomesInv, [MonstersNext]_monsterVars
    PROVE  HomesInv'
<1>1. MonstersTypeOK /\ MonstersTypeOK'
  BY NextMonstersTypeOK DEF HomesInv
<1>2. ASSUME NEW m \in Monster, NEW n, Becomes(m, n), Stays(m, n), UNCHANGED home PROVE HomesInv'
  BY <1>1, <1>2, StaysKept, CrewsKept, HomesUntouched
<1>3. CASE UNCHANGED monsterVars
  <2>1. \A h \in Homes : Crew(h)' = Crew(h)
    BY <1>3 DEF monsterVars, Crew
  <2> QED BY <1>1, <1>3, <2>1, HomesUntouched DEF monsterVars
<1>4. CASE process_monsterhomes
  BY <1>1, <1>4, ProcessHomes
<1>5. ASSUME NEW m \in Monster, IdleStimulus(m) PROVE HomesInv'
  BY <1>1, <1>2, <1>5, IdleStep DEF IdleStimulus
<1>6. ASSUME NEW m \in Monster, DamageStimulus(m) PROVE HomesInv'
  BY <1>1, <1>2, <1>6, DamageStep DEF DamageStimulus
<1>7. ASSUME NEW m \in Monster, Die(m) PROVE HomesInv'
  BY <1>1, <1>2, <1>7, DieStep DEF Die
<1>8. ASSUME NEW m \in Monster, Destroy(m) PROVE HomesInv'
  <2>1. PICK n : Becomes(m, n) /\ ~n.in
    BY <1>1, <1>8, DestroyStep
  <2>2. monster[m].in /\ notify_monsterhome_of_death(monster[m].Home)
    BY <1>8 DEF Destroy
  <2> QED BY <1>1, <2>1, <2>2, HomeLeft
<1>9. ASSUME UNCHANGED home, monster' = CreatureMoveStimulus(monster) \/ monster' = monster PROVE HomesInv'
  <2>1. \A h \in Homes : Crew(h)' = Crew(h)
    BY <1>1, <1>9, StimulusKeeps DEF Crew
  <2> QED BY <1>1, <1>9, <2>1, HomesUntouched
<1>10. ASSUME NEW p \in Person, Login(p) \/ Logout(p) \/ Walk(p) PROVE HomesInv'
  BY <1>9, <1>10 DEF Login, Logout, Walk
<1>11. ASSUME NEW p \in Person, Summon(p) PROVE HomesInv'
  <2>1. PICK m \in Monster : ~monster[m].in /\ monster' = [CreatureMoveStimulus(monster) EXCEPT ![m] = Created(0, p)]
    BY <1>11 DEF Summon, Free
  <2>2. Created(0, p).Home = 0
    BY MonsterRecords, MonstersAssumption
  <2>3. \A k \in Monster : monster'[k] = IF k = m THEN Created(0, p) ELSE CreatureMoveStimulus(monster)[k]
    BY <2>1 DEF CreatureMoveStimulus
  <2>4. ASSUME NEW h \in Homes PROVE Crew(h)' = Crew(h)
    <3>1. h # 0
      BY DEF Homes
    <3>2. ASSUME NEW k \in Monster
          PROVE  (monster'[k].in /\ monster'[k].Home = h) <=> (monster[k].in /\ monster[k].Home = h)
      BY <1>1, <2>1, <2>2, <2>3, <3>1, StimulusKeeps
    <3> QED BY <3>2 DEF Crew
  <2> QED BY <1>1, <1>11, <2>4, HomesUntouched DEF Summon
<1>12. ASSUME NEW p \in Person, NEW m \in Monster, Convince(p, m) PROVE HomesInv'
  <2>1. PICK n : Becomes(m, n) /\ n.Home = 0
    BY <1>1, <1>12, ConvinceStep
  <2>2. monster[m].in /\ notify_monsterhome_of_death(monster[m].Home)
    BY <1>12 DEF Convince
  <2> QED BY <1>1, <2>1, <2>2, HomeLeft
<1>13. ASSUME NEW p \in Person, NEW m \in Monster, Challenge(p, m) PROVE HomesInv'
  BY <1>1, <1>2, <1>13, ChallengeStep DEF Challenge
<1> QED BY <1>3, <1>4, <1>5, <1>6, <1>7, <1>8, <1>10, <1>11, <1>12, <1>13 DEF MonstersNext

\* HomesRefill holds for any number of homes, monsters and players: whatever
\* dies, is convinced or is bred, a home that is not full has a timer that runs
\* (process_monsterhomes, notify_monsterhome_of_death).  The database has to give
\* the homes a regeneration time of 5 or more: with less, and many players, the
\* random number may be 0, and such a timer never ends.
THEOREM HomesAreRefilled == RegenerationTime >= 5 => (MonstersSpec => []HomesRefill)
<1> SUFFICES ASSUME RegenerationTime >= 5 PROVE MonstersSpec => []HomesRefill
  OBVIOUS
<1>1. MonstersInit => HomesInv
  BY InitHomesInv
<1>2. HomesInv /\ [MonstersNext]_monsterVars => HomesInv'
  BY NextHomesInv
<1>3. HomesInv => HomesRefill
  BY DEF HomesInv
<1> QED BY <1>1, <1>2, <1>3, PTL DEF MonstersSpec

-----------------------------------------------------------------------------
\* A monster that is awake has something to do, one that sleeps is alone and free.
Awake(n) ==
    n.in /\ ~n.LoggingOut =>
        IF n.State = "SLEEPING" /\ ~n.todo THEN (\A p \in Person : ~Near(p)) /\ n.Master = Nobody
        ELSE n.todo

LEMMA ActInvParts ==
    ActInv <=> /\ MonstersTypeOK /\ AwayHasNone
               /\ \A m \in Monster : Awake(monster[m])
               /\ \A p \in Person : person[p].Summoned <= Cardinality(Followers(p))
BY DEF ActInv, MonstersAct, Awake, Followers

\* The parts of the invariant in the next state.
LEMMA ActInvNext ==
    ASSUME MonstersTypeOK', AwayHasNone', \A m \in Monster : Awake(monster[m])',
           \A p \in Person : (person[p].Summoned <= Cardinality(Followers(p)))'
    PROVE  ActInv'
BY DEF ActInv, MonstersAct, Awake, Followers

LEMMA InitActInv == MonstersInit => ActInv
<1> SUFFICES ASSUME MonstersInit PROVE ActInv
  OBVIOUS
<1>1. PICK at \in [Monster -> 0 .. Monsterhomes - 1] :
          /\ monster = [m \in Monster |-> IF at[m] # 0 THEN Created(at[m], Nobody) ELSE Absent]
          /\ person = [p \in Person |-> [place |-> "away", Summoned |-> 0]]
  BY DEF MonstersInit
<1>2. ASSUME NEW m \in Monster PROVE Awake(monster[m])
  <2>1. at[m] \in 0 .. Monsterhomes
    BY MonstersAssumption
  <2>2. CASE at[m] = 0
    BY <1>1, <2>2 DEF Awake, Absent
  <2>3. CASE at[m] # 0
    BY <1>1, <2>1, <2>3, MonsterRecords DEF Awake
  <2> QED BY <2>2, <2>3
<1>3. ASSUME NEW p \in Person PROVE person[p].Summoned <= Cardinality(Followers(p))
  <2>1. Followers(p) \in SUBSET Monster /\ person[p].Summoned = 0
    BY <1>1 DEF Followers
  <2> QED BY <2>1, CrewFinite
<1>4. AwayHasNone
  BY <1>1 DEF AwayHasNone
<1> QED BY <1>2, <1>3, <1>4, ActInvParts, InitMonstersTypeOK

\* A step of one monster that decides, while nobody moves.
LEMMA OneAwake ==
    ASSUME ActInv, MonstersTypeOK', NEW m \in Monster, NEW n, Becomes(m, n), Awake(n),
           \A p \in Person : person'[p].place = person[p].place
    PROVE  \A k \in Monster : Awake(monster[k])'
<1>1. MonstersTypeOK /\ \A k \in Monster : Awake(monster[k])
  BY ActInvParts
<1>2. \A k \in Monster : monster'[k] = IF k = m THEN n ELSE monster[k]
  BY <1>1 DEF Becomes, MonstersTypeOK, MonsterTypeOK
<1>3. \A p \in Person : Near(p)' <=> Near(p)
  BY DEF Near
<1> TAKE k \in Monster
<1>4. Awake(monster'[k])
  BY <1>1, <1>2
<1> QED BY <1>3, <1>4 DEF Awake

\* Such a step changes no master.
LEMMA StaysAct ==
    ASSUME ActInv, MonstersTypeOK', NEW m \in Monster, NEW n, Becomes(m, n), Stays(m, n), Awake(n),
           UNCHANGED person
    PROVE  ActInv'
<1>1. \A k \in Monster : Awake(monster[k])'
  BY OneAwake
<1>2. \A p : Followers(p)' = Followers(p)
  BY StaysKept, CrewsKept DEF ActInv
<1>3. \A p \in Person : (person[p].Summoned <= Cardinality(Followers(p)))'
  BY <1>2, ActInvParts
<1>4. AwayHasNone'
  BY DEF ActInv, AwayHasNone
<1> QED BY <1>1, <1>3, <1>4, ActInvNext

\* Who hears a movement wakes up, so that nobody is asleep near the player.
LEMMA StimulusAwake ==
    ASSUME ActInv, NEW k \in Monster
    PROVE  LET n == CreatureMoveStimulus(monster)[k]
           IN n.in /\ ~n.LoggingOut => n.todo /\ n.State # "SLEEPING"
<1> DEFINE n == CreatureMoveStimulus(monster)[k]
<1>1. MonstersTypeOK /\ Awake(monster[k])
  BY ActInvParts
<1>2. /\ n.State = "SLEEPING" /\ n.in /\ ~n.LoggingOut => FALSE
      /\ n.todo \/ n = monster[k]
  BY <1>1, StimulusKeeps
<1> HIDE DEF n
<1>3. n.in /\ ~n.LoggingOut => n.todo /\ n.State # "SLEEPING"
  BY <1>1, <1>2 DEF Awake
<1> QED BY <1>3 DEF n

\* A player who was not near does not become near: the sleepers sleep on.
LEMMA SleepOn ==
    ASSUME ActInv, UNCHANGED monster, \A p \in Person : Near(p)' => Near(p)
    PROVE  \A k \in Monster : Awake(monster[k])'
<1> TAKE k \in Monster
<1>1. Awake(monster[k])
  BY ActInvParts
<1> QED BY <1>1 DEF Awake

LEMMA ProcessAct ==
    ASSUME ActInv, MonstersTypeOK', process_monsterhomes
    PROVE  ActInv'
<1>1. PICK due, bred, who, t : Breeds(due, bred, who, t)
  BY ProcessBreeds
<1>2. UNCHANGED person /\ \A p \in Person : Near(p)' <=> Near(p)
  BY DEF process_monsterhomes, Near
<1>3. /\ \A h \in bred : who[h] \in Monster /\ ~monster[who[h]].in
      /\ \A h \in bred : monster'[who[h]] = Created(h, Nobody) /\ h \in 0 .. Monsterhomes
      /\ \A m \in Monster : (\A h \in bred : who[h] # m) => monster'[m] = monster[m]
  BY <1>1 DEF Breeds, Homes
<1>4. ASSUME NEW k \in Monster
      PROVE  /\ Awake(monster[k])'
             /\ \A p \in Person : (monster'[k].in /\ monster'[k].Master = p) <=> (monster[k].in /\ monster[k].Master = p)
  <2>1. CASE \A h \in bred : who[h] # k
    <3>1. monster'[k] = monster[k] /\ Awake(monster[k])
      BY <1>3, <2>1, ActInvParts
    <3> QED BY <1>2, <3>1 DEF Awake
  <2>2. CASE \E h \in bred : who[h] = k
    <3>1. PICK h \in bred : who[h] = k
      BY <2>2
    <3>2. monster'[k].in /\ monster'[k].todo /\ monster'[k].Master = Nobody /\ ~monster[k].in
      BY <1>3, <3>1, MonsterRecords
    <3> QED BY <3>2, MonstersAssumption DEF Awake
  <2> QED BY <2>1, <2>2
<1>5. \A p \in Person : Followers(p)' = Followers(p)
  BY <1>4 DEF Followers
<1>6. \A p \in Person : (person[p].Summoned <= Cardinality(Followers(p)))'
  BY <1>2, <1>5, ActInvParts
<1>7. AwayHasNone'
  BY <1>2 DEF ActInv, AwayHasNone
<1> QED BY <1>4, <1>6, <1>7, ActInvNext

\* ~TMonster: the master has one servant less, and one less on record.
LEMMA DestroyAct ==
    ASSUME ActInv, MonstersTypeOK', NEW m \in Monster, Destroy(m)
    PROVE  ActInv'
<1>1. MonstersTypeOK /\ PersonTypeOK
  BY DEF ActInv, MonstersTypeOK
<1>2. PICK n : Becomes(m, n) /\ ~n.in
  BY <1>1, DestroyStep
<1> DEFINE q == monster[m].Master
<1>3. person' = IF q # Nobody /\ person[q].place # "away" /\ person[q].Summoned > 0
                THEN [person EXCEPT ![q].Summoned = @ - 1] ELSE person
  BY DEF Destroy
<1>4. ASSUME NEW p \in Person
      PROVE  /\ person'[p].place = person[p].place
             /\ person'[p].Summoned = IF p = q /\ person[p].place # "away" /\ person[p].Summoned > 0
                                      THEN person[p].Summoned - 1 ELSE person[p].Summoned
  BY <1>1, <1>3, MonstersAssumption DEF PersonTypeOK
<1>5. \A k \in Monster : Awake(monster[k])'
  BY <1>2, <1>4, OneAwake DEF Awake
<1>6. \A k \in Monster : monster'[k] = IF k = m THEN n ELSE monster[k]
  BY <1>1, <1>2 DEF Becomes, MonstersTypeOK, MonsterTypeOK
<1>7. ASSUME NEW p \in Person PROVE (person[p].Summoned <= Cardinality(Followers(p)))'
  <2>1. Followers(p)' = IF p = q THEN Followers(p) \ {m} ELSE Followers(p)
    BY <1>2, <1>6 DEF Followers, Destroy
  <2>2. Followers(p) \in SUBSET Monster /\ (p = q => m \in Followers(p))
    BY DEF Followers, Destroy
  <2>3. Cardinality(Followers(p)) \in Nat
        /\ (p = q => Cardinality(Followers(p) \ {m}) = Cardinality(Followers(p)) - 1 /\ Cardinality(Followers(p)) > 0)
    BY <2>2, OneMore, CrewFinite
  <2>4. person[p].Summoned \in Int /\ person[p].Summoned <= Cardinality(Followers(p))
        /\ (person[p].place = "away" => person[p].Summoned = 0)
    BY <1>1, ActInvParts DEF PersonTypeOK, AwayHasNone
  <2> HIDE DEF q
  <2>5. CASE p = q
    <3>1. Cardinality(Followers(p)') = Cardinality(Followers(p)) - 1
      BY <2>1, <2>3, <2>5
    <3> QED BY <1>4, <2>3, <2>4, <2>5, <3>1
  <2>6. CASE p # q
    BY <1>4, <2>1, <2>4, <2>6
  <2> QED BY <2>5, <2>6
<1>8. AwayHasNone'
  BY <1>1, <1>4, ActInvParts DEF AwayHasNone, PersonTypeOK
<1> QED BY <1>5, <1>7, <1>8, ActInvNext

\* Login, Logout and Walk of a player, whom the monsters may hear.
LEMMA PlayerMoves ==
    ASSUME ActInv, MonstersTypeOK', NEW p \in Person, Login(p) \/ Logout(p) \/ Walk(p)
    PROVE  ActInv'
<1>1. MonstersTypeOK /\ PersonTypeOK /\ AwayHasNone
  BY DEF ActInv, MonstersTypeOK
<1>2. /\ \A q \in Person : q # p => person'[q] = person[q]
      /\ person'[p].Summoned \in {0, person[p].Summoned}
      /\ person'[p].place = "away" => person'[p].Summoned = 0
      /\ \/ monster' = CreatureMoveStimulus(monster)
         \/ monster' = monster /\ person'[p].place # "near"
  BY <1>1 DEF Login, Logout, Walk, PersonTypeOK
<1>3. ASSUME monster' = CreatureMoveStimulus(monster) PROVE \A k \in Monster : Awake(monster[k])'
  BY <1>3, StimulusAwake DEF Awake
<1>4. ASSUME monster' = monster, person'[p].place # "near" PROVE \A k \in Monster : Awake(monster[k])'
  <2>1. \A q \in Person : Near(q)' => Near(q)
    BY <1>2, <1>4 DEF Near
  <2> QED BY <1>4, <2>1, SleepOn
<1>5. ASSUME NEW q \in Person PROVE (person[q].Summoned <= Cardinality(Followers(q)))'
  <2>1. Followers(q)' = Followers(q)
    BY <1>1, <1>2, StimulusKeeps DEF Followers
  <2>2. Followers(q) \in SUBSET Monster
    BY DEF Followers
  <2>3. Cardinality(Followers(q)) \in Nat /\ person[q].Summoned <= Cardinality(Followers(q))
    BY <2>2, CrewFinite, ActInvParts
  <2> QED BY <1>2, <2>1, <2>3
<1>6. AwayHasNone'
  BY <1>1, <1>2 DEF AwayHasNone
<1>7. \A k \in Monster : Awake(monster[k])'
  BY <1>2, <1>3, <1>4
<1> QED BY <1>5, <1>6, <1>7, ActInvNext

\* summon_creature: one monster and one servant on record more.
LEMMA SummonAct ==
    ASSUME ActInv, MonstersTypeOK', NEW p \in Person, Summon(p)
    PROVE  ActInv'
<1>1. MonstersTypeOK /\ PersonTypeOK /\ AwayHasNone
  BY DEF ActInv, MonstersTypeOK
<1>2. PICK m \in Monster : ~monster[m].in /\ monster' = [CreatureMoveStimulus(monster) EXCEPT ![m] = Created(0, p)]
  BY DEF Summon, Free
<1>3. LET c == Created(0, p) IN c.in /\ c.todo /\ c.State = "IDLE" /\ c.Master = p
  BY MonsterRecords, MonstersAssumption
<1>4. \A k \in Monster : monster'[k] = IF k = m THEN Created(0, p) ELSE CreatureMoveStimulus(monster)[k]
  BY <1>2 DEF CreatureMoveStimulus
<1>5. ASSUME NEW k \in Monster PROVE Awake(monster[k])'
  BY <1>3, <1>4, StimulusAwake DEF Awake
<1>6. \A q \in Person : /\ person'[q].place = person[q].place
                        /\ person'[q].Summoned = person[q].Summoned + (IF q = p THEN 1 ELSE 0)
  BY <1>1 DEF Summon, PersonTypeOK
<1>7. person[p].place # "away"
  BY DEF Summon, Near
<1>8. ASSUME NEW q \in Person PROVE (person[q].Summoned <= Cardinality(Followers(q)))'
  <2>1. Followers(q)' = IF q = p THEN Followers(q) \cup {m} ELSE Followers(q)
    <3>1. ASSUME NEW k \in Monster
          PROVE  (monster'[k].in /\ monster'[k].Master = q)
                    <=> (monster[k].in /\ monster[k].Master = q) \/ (q = p /\ k = m)
      BY <1>1, <1>2, <1>3, <1>4, StimulusKeeps
    <3> QED BY <3>1 DEF Followers
  <2>2. Followers(q) \in SUBSET Monster /\ m \notin Followers(q)
    BY <1>2 DEF Followers
  <2>3. Cardinality(Followers(q)) \in Nat /\ Cardinality(Followers(q) \cup {m}) = Cardinality(Followers(q)) + 1
    BY <2>2, OneMore, CrewFinite
  <2>4. person[q].Summoned \in Int /\ person[q].Summoned <= Cardinality(Followers(q))
    BY <1>1, ActInvParts DEF PersonTypeOK
  <2> QED BY <1>6, <2>1, <2>3, <2>4
<1>9. AwayHasNone'
  BY <1>1, <1>6, <1>7 DEF AwayHasNone, PersonTypeOK
<1> QED BY <1>5, <1>8, <1>9, ActInvNext

\* TMonster::Convince: the servant changes its master, who may have left.
LEMMA ConvinceAct ==
    ASSUME ActInv, MonstersTypeOK', NEW p \in Person, NEW m \in Monster, Convince(p, m)
    PROVE  ActInv'
<1>1. MonstersTypeOK /\ PersonTypeOK /\ AwayHasNone
  BY DEF ActInv, MonstersTypeOK
<1>2. PICK n : Becomes(m, n) /\ n.in /\ n.Master = p /\ n.todo
  BY <1>1, ConvinceStep
<1> DEFINE old == monster[m].Master
<1>3. \A q \in Person :
         /\ person'[q].place = person[q].place
         /\ person'[q].Summoned = person[q].Summoned + (IF q = p THEN 1 ELSE 0)
                                    - (IF q = old /\ person[q].place # "away" THEN 1 ELSE 0)
  BY <1>1 DEF Convince, PersonTypeOK
<1>4. \A k \in Monster : Awake(monster[k])'
  BY <1>2, <1>3, OneAwake DEF Awake
<1>5. \A k \in Monster : monster'[k] = IF k = m THEN n ELSE monster[k]
  BY <1>1, <1>2 DEF Becomes, MonstersTypeOK, MonsterTypeOK
<1>6. person[p].place # "away" /\ monster[m].in
  BY DEF Convince, Near
<1>7. ASSUME NEW q \in Person PROVE (person[q].Summoned <= Cardinality(Followers(q)))'
  <2>1. Followers(q) \in SUBSET Monster /\ (q = old <=> m \in Followers(q))
    BY <1>6 DEF Followers
  <2>2. Followers(q)' = IF q = p THEN Followers(q) \cup {m} ELSE Followers(q) \ {m}
    <3>1. ASSUME NEW k \in Monster
          PROVE  (monster'[k].in /\ monster'[k].Master = q)
                    <=> IF k = m THEN q = p ELSE monster[k].in /\ monster[k].Master = q
      BY <1>2, <1>5
    <3> QED BY <3>1 DEF Followers
  <2>3. /\ Cardinality(Followers(q)) \in Nat
        /\ m \notin Followers(q) => Cardinality(Followers(q) \cup {m}) = Cardinality(Followers(q)) + 1
        /\ m \in Followers(q) => Cardinality(Followers(q) \ {m}) = Cardinality(Followers(q)) - 1 /\ Cardinality(Followers(q)) > 0
    BY <2>1, OneMore, CrewFinite
  <2>4. person[q].Summoned \in Int /\ person[q].Summoned <= Cardinality(Followers(q))
        /\ (person[q].place = "away" => person[q].Summoned = 0)
    BY <1>1, ActInvParts DEF PersonTypeOK, AwayHasNone
  <2> HIDE DEF old
  <2>5. CASE q = p /\ q = old
    <3>1. Followers(q)' = Followers(q)
      BY <2>1, <2>2, <2>5
    <3> QED BY <1>3, <1>6, <2>4, <2>5, <3>1
  <2>6. CASE q = p /\ q # old
    BY <1>3, <2>1, <2>2, <2>3, <2>4, <2>6
  <2>7. CASE q # p /\ q = old
    BY <1>3, <2>1, <2>2, <2>3, <2>4, <2>7
  <2>8. CASE q # p /\ q # old
    <3>1. Followers(q)' = Followers(q)
      BY <2>1, <2>2, <2>8
    <3> QED BY <1>3, <2>4, <2>8, <3>1
  <2> QED BY <2>5, <2>6, <2>7, <2>8
<1>8. AwayHasNone'
  <2> SUFFICES ASSUME NEW q \in Person, person'[q].place = "away" PROVE person'[q].Summoned = 0
    BY DEF AwayHasNone
  <2>1. person[q].place = "away" /\ person[q].Summoned = 0 /\ q # p
    BY <1>1, <1>3, <1>6 DEF AwayHasNone
  <2> QED BY <1>3, <2>1
<1> QED BY <1>4, <1>7, <1>8, ActInvNext

LEMMA NextActInv ==
    ASSUME ActInv, [MonstersNext]_monsterVars
    PROVE  ActInv'
<1>1. MonstersTypeOK /\ MonstersTypeOK' /\ \A k \in Monster : Awake(monster[k])
  BY NextMonstersTypeOK, ActInvParts
<1>2. CASE UNCHANGED monsterVars
  BY <1>2 DEF monsterVars, ActInv, MonstersAct, AwayHasNone, Near, MonstersTypeOK, HomeTypeOK, MonsterTypeOK, PersonTypeOK
<1>3. CASE process_monsterhomes
  BY <1>1, <1>3, ProcessAct
<1>4. ASSUME NEW m \in Monster, IdleStimulus(m) PROVE ActInv'
  <2>1. PICK n : /\ Becomes(m, n) /\ Stays(m, n)
                 /\ ~n.LoggingOut => /\ n.State # "SLEEPING" => n.todo
                                     /\ n.State = "SLEEPING" => (\A p \in Person : ~Near(p)) /\ n.Master = Nobody
    BY <1>1, <1>4, IdleStep
  <2>2. Awake(n)
    BY <2>1 DEF Awake
  <2> QED BY <1>1, <1>4, <2>1, <2>2, StaysAct DEF IdleStimulus
<1>5. ASSUME NEW m \in Monster, DamageStimulus(m) PROVE ActInv'
  <2>1. PICK n : /\ Becomes(m, n) /\ Stays(m, n) /\ n.State # "SLEEPING"
                 /\ n.todo \/ (n.todo = monster[m].todo /\ monster[m].State # "SLEEPING")
    BY <1>1, <1>5, DamageStep
  <2>2. Awake(n)
    BY <1>1, <1>5, <2>1 DEF Awake, Stays, DamageStimulus
  <2> QED BY <1>1, <1>5, <2>1, <2>2, StaysAct DEF DamageStimulus
<1>6. ASSUME NEW m \in Monster, Die(m) PROVE ActInv'
  <2>1. PICK n : Becomes(m, n) /\ Stays(m, n) /\ n.LoggingOut
    BY <1>1, <1>6, DieStep
  <2>2. Awake(n)
    BY <2>1 DEF Awake
  <2> QED BY <1>1, <1>6, <2>1, <2>2, StaysAct DEF Die
<1>7. ASSUME NEW m \in Monster, Destroy(m) PROVE ActInv'
  BY <1>1, <1>7, DestroyAct
<1>8. ASSUME NEW p \in Person, Login(p) \/ Logout(p) \/ Walk(p) PROVE ActInv'
  BY <1>1, <1>8, PlayerMoves
<1>9. ASSUME NEW p \in Person, Summon(p) PROVE ActInv'
  BY <1>1, <1>9, SummonAct
<1>10. ASSUME NEW p \in Person, NEW m \in Monster, Convince(p, m) PROVE ActInv'
  BY <1>1, <1>10, ConvinceAct
<1>11. ASSUME NEW p \in Person, NEW m \in Monster, Challenge(p, m) PROVE ActInv'
  <2>1. PICK n : Becomes(m, n) /\ Stays(m, n) /\ n.todo
    BY <1>1, <1>11, ChallengeStep
  <2>2. Awake(n)
    BY <2>1 DEF Awake
  <2> QED BY <1>1, <1>11, <2>1, <2>2, StaysAct DEF Challenge
<1> QED BY <1>2, <1>3, <1>4, <1>5, <1>6, <1>7, <1>8, <1>9, <1>10, <1>11 DEF MonstersNext

\* MonstersAct holds for any number of homes, monsters and players, also for a
\* monster whose master leaves, comes back or loses it to another (IdleStimulus,
\* Convince, ~TMonster).
THEOREM MonstersGoOn == MonstersSpec => []MonstersAct
<1>1. MonstersInit => ActInv
  BY InitActInv
<1>2. ActInv /\ [MonstersNext]_monsterVars => ActInv'
  BY NextActInv
<1>3. ActInv => MonstersAct
  BY DEF ActInv
<1> QED BY <1>1, <1>2, <1>3, PTL DEF MonstersSpec

-----------------------------------------------------------------------------
(***************************************************************************)
(* Known creatures, for any number of connections and creatures and any    *)
(* size of the table.  The invariant says of each connection that a        *)
(* creature has one entry at most, and what an entry tells of its client.  *)
(***************************************************************************)

EntryRecord == [State : {"FREE", "UPTODATE", "OUTDATED"}, CreatureID : Beast \cup {NoBeast}]
BeastRecord == [alive : BOOLEAN, look : BOOLEAN, chain : SUBSET (Link \X Entry)]
Knowledge == UNION {[D -> BOOLEAN] : D \in SUBSET Beast}
ClientRecord == [knows : Knowledge, missed : SUBSET Beast, lost : BOOLEAN]

KnownTypeOK ==
    /\ table \in [Link -> [Entry -> EntryRecord]]
    /\ state \in [Link -> {"game", "logout", "free"}]
    /\ beast \in [Beast -> BeastRecord]
    /\ view \in [Link -> SUBSET Beast]
    /\ client \in [Link -> ClientRecord]

\* A creature has one entry, and an entry that is not free has a creature.
OneEntry(tb) ==
    \A i \in Entry :
        /\ tb[i].State # "FREE" => tb[i].CreatureID # NoBeast
        /\ \A j \in Entry : tb[i].CreatureID = tb[j].CreatureID /\ tb[i].CreatureID # NoBeast => i = j

\* What an entry of the table says of the client, whose player sees the
\* creatures of vw, and the table.  Nothing is said of a creature that the
\* client has missed a packet about.
Tells(e, vw, cl, bs) ==
    e.CreatureID \notin cl.missed =>
        /\ e.CreatureID # NoBeast => e.CreatureID \in DOMAIN cl.knows
        /\ e.CreatureID \in vw => e.State = "UPTODATE"
        /\ e.State = "UPTODATE" => cl.knows[e.CreatureID] = bs[e.CreatureID].look

Agree(tb, vw, cl, bs) ==
    /\ vw \ cl.missed \subseteq DOMAIN cl.knows
    /\ \A i \in Entry : Tells(tb[i], vw, cl, bs)

\* An entry is in the chain of its creature as long as it is not free.
Chained(l, tb, bs) ==
    \A b \in Beast, i \in Entry :
        <<l, i>> \in bs[b].chain <=> tb[i].CreatureID = b /\ tb[i].State # "FREE"

LinkInv(l, tb, st, vw, cl, bs) ==
    /\ ~cl.lost
    /\ OneEntry(tb)
    /\ Chained(l, tb, bs)
    /\ st = "game" => Agree(tb, vw, cl, bs)
    /\ st = "free" => tb = Cleared /\ vw = {} 

KnownInv ==
    /\ KnownTypeOK
    /\ \A l \in Link : LinkInv(l, table[l], state[l], view[l], client[l], beast)

\* A search through the table finds the first entry.
LEMMA MinOfEntries ==
    ASSUME NEW T, T \subseteq Entry, T # {}
    PROVE  Min(T) \in T
<1> DEFINE R == OpToRel(<, Nat)
<1>1. \A x, y \in Nat : <<y, x>> \in R <=> y < x  BY DEF OpToRel
<1>2. T \subseteq Nat  BY KnownAssumption DEF Entry
<1>3. IsWellFoundedOn(R, Nat)  BY NatLessThanWellFounded
<1> HIDE DEF R
<1>4. PICK x \in T : \A y \in T : <<y, x>> \notin R  BY <1>2, <1>3, WFMin
<1>5. \A y \in T : ~(y < x)  BY <1>1, <1>2, <1>4, Zenon
<1>6. \A y \in T : x =< y  BY <1>2, <1>5
<1> QED  BY <1>6 DEF Min

LEMMA KnowledgeIsFunctions ==
    \A f : f \in Knowledge <=> f \in [DOMAIN f -> BOOLEAN] /\ DOMAIN f \subseteq Beast
BY DEF Knowledge

\* A packet that is lost.
LEMMA MissStep ==
    ASSUME client \in [Link -> ClientRecord], NEW l \in Link, NEW b \in Beast
    PROVE  /\ Miss(client, l, b) \in [Link -> ClientRecord]
           /\ \A m \in Link \ {l} : Miss(client, l, b)[m] = client[m]
           /\ Miss(client, l, b)[l].lost = client[l].lost
           /\ Miss(client, l, b)[l].knows = client[l].knows
           /\ Miss(client, l, b)[l].missed = client[l].missed \cup {b}
<1> DEFINE n == [client[l] EXCEPT !.missed = @ \cup {b}]
<1>1. client[l] \in ClientRecord  OBVIOUS
<1>2. /\ n \in ClientRecord /\ n.knows = client[l].knows /\ n.lost = client[l].lost
      /\ n.missed = client[l].missed \cup {b}
  BY <1>1 DEF ClientRecord
<1>3. Miss(client, l, b) = [client EXCEPT ![l] = n]  BY DEF Miss
<1> HIDE DEF n
<1> QED  BY <1>2, <1>3

\* Command 99 for a creature that the client knows or has missed a packet about.
LEMMA NameKnown ==
    ASSUME client \in [Link -> ClientRecord], NEW l \in Link, NEW b \in Beast,
           b \in DOMAIN client[l].knows \/ b \in client[l].missed
    PROVE  Name(client, l, b) = client
<1>1. CASE b \in DOMAIN client[l].knows  BY <1>1 DEF Name
<1>2. CASE b \notin DOMAIN client[l].knows
  <2> DEFINE n == [client[l] EXCEPT !.lost = @ \/ b \notin client[l].missed]
  <2>1. client[l] \in ClientRecord  OBVIOUS
  <2>2. (client[l].lost \/ b \notin client[l].missed) = client[l].lost  BY <1>2, <2>1 DEF ClientRecord
  <2>3. n = [client[l] EXCEPT !.lost = client[l].lost]  BY <2>2
  <2>4. n = client[l]  BY <2>1, <2>3 DEF ClientRecord
  <2>5. Name(client, l, b) = [client EXCEPT ![l] = n]  BY <1>2 DEF Name
  <2> HIDE DEF n
  <2> QED  BY <2>4, <2>5
<1> QED  BY <1>1, <1>2

\* A change of such a creature.
LEMMA UpdateKnown ==
    ASSUME client \in [Link -> ClientRecord],
           NEW l \in Link, NEW b \in Beast, NEW look \in BOOLEAN,
           b \in DOMAIN client[l].knows \/ b \in client[l].missed
    PROVE  /\ Update(client, l, b, look) \in [Link -> ClientRecord]
           /\ \A m \in Link \ {l} : Update(client, l, b, look)[m] = client[m]
           /\ Update(client, l, b, look)[l].lost = client[l].lost
           /\ Update(client, l, b, look)[l].missed = client[l].missed
           /\ DOMAIN Update(client, l, b, look)[l].knows = DOMAIN client[l].knows
           /\ \A c \in DOMAIN client[l].knows :
                 Update(client, l, b, look)[l].knows[c] = IF c = b THEN look ELSE client[l].knows[c]
<1>a. CASE b \notin DOMAIN client[l].knows
  <2>1. Update(client, l, b, look) = client  BY <1>a, NameKnown DEF Update
  <2> QED  BY <1>a, <2>1
<1>b. CASE b \in DOMAIN client[l].knows
  <2> DEFINE k == [client[l].knows EXCEPT ![b] = look]
             n == [client[l] EXCEPT !.knows[b] = look]
  <2>1. client[l] \in ClientRecord  OBVIOUS
  <2>2. client[l].knows \in Knowledge  BY <2>1 DEF ClientRecord
  <2>3. client[l].knows \in [DOMAIN client[l].knows -> BOOLEAN] /\ DOMAIN client[l].knows \subseteq Beast
    BY <2>2, KnowledgeIsFunctions, Zenon
  <2>4. k \in [DOMAIN client[l].knows -> BOOLEAN]  BY <2>3
  <2>5. /\ DOMAIN k = DOMAIN client[l].knows
        /\ \A c \in DOMAIN client[l].knows : k[c] = IF c = b THEN look ELSE client[l].knows[c]
    BY <1>b
  <2>6. k \in Knowledge  BY <2>3, <2>4, <2>5, KnowledgeIsFunctions, Zenon
  <2>7. n = [client[l] EXCEPT !.knows = k]  OBVIOUS
  <2> HIDE DEF k
  <2>8. /\ n \in ClientRecord /\ n.knows = k /\ n.lost = client[l].lost
        /\ n.missed = client[l].missed
    BY <2>1, <2>6, <2>7 DEF ClientRecord
  <2>9. Update(client, l, b, look) = [client EXCEPT ![l] = n]  BY <1>b DEF Update
  <2> HIDE DEF n
  <2> QED  BY <2>5, <2>8, <2>9
<1> QED  BY <1>a, <1>b

\* Command 98 for such a creature.
LEMMA RefreshStep ==
    ASSUME client \in [Link -> ClientRecord], NEW l \in Link, NEW b \in Beast, beast[b].look \in BOOLEAN,
           b \in DOMAIN client[l].knows \/ b \in client[l].missed
    PROVE  /\ Refresh(client, l, b) \in [Link -> ClientRecord]
           /\ \A m \in Link \ {l} : Refresh(client, l, b)[m] = client[m]
           /\ Refresh(client, l, b)[l].lost = client[l].lost
           /\ \A c \in Beast \ {b} : c \in Refresh(client, l, b)[l].missed <=> c \in client[l].missed
           /\ b \in DOMAIN client[l].knows \/ b \in Refresh(client, l, b)[l].missed
           /\ DOMAIN Refresh(client, l, b)[l].knows = DOMAIN client[l].knows
           /\ \A c \in DOMAIN client[l].knows :
                 Refresh(client, l, b)[l].knows[c] = IF c = b THEN beast[b].look ELSE client[l].knows[c]
<1>a. CASE b \notin DOMAIN client[l].knows
  <2>1. Refresh(client, l, b) = client  BY <1>a, NameKnown DEF Refresh
  <2> QED  BY <1>a, <2>1
<1>b. CASE b \in DOMAIN client[l].knows
  <2>1. PICK u : u = Update(client, l, b, beast[b].look)  OBVIOUS
  <2>2. /\ u \in [Link -> ClientRecord] /\ \A m \in Link \ {l} : u[m] = client[m]
        /\ u[l].lost = client[l].lost /\ u[l].missed = client[l].missed
        /\ DOMAIN u[l].knows = DOMAIN client[l].knows
        /\ \A c \in DOMAIN client[l].knows : u[l].knows[c] = IF c = b THEN beast[b].look ELSE client[l].knows[c]
    BY <1>b, <2>1, UpdateKnown
  <2> DEFINE n == [u[l] EXCEPT !.missed = @ \ {b}]
  <2>3. Refresh(client, l, b) = [u EXCEPT ![l] = n]  BY <1>b, <2>1 DEF Refresh
  <2>4. u[l] \in ClientRecord  BY <2>2
  <2>5. /\ n \in ClientRecord /\ n.knows = u[l].knows /\ n.lost = u[l].lost
        /\ n.missed = u[l].missed \ {b}
    BY <2>4 DEF ClientRecord
  <2> HIDE DEF n
  <2>6. /\ Refresh(client, l, b) \in [Link -> ClientRecord] /\ Refresh(client, l, b)[l] = n
        /\ \A m \in Link \ {l} : Refresh(client, l, b)[m] = u[m]
    BY <2>2, <2>3, <2>5
  <2> QED  BY <1>b, <2>2, <2>5, <2>6
<1> QED  BY <1>a, <1>b

\* Command 97.
LEMMA IntroduceStep ==
    ASSUME client \in [Link -> ClientRecord], NEW l \in Link, NEW b \in Beast, beast[b].look \in BOOLEAN, NEW old
    PROVE  /\ Introduce(client, l, old, b) \in [Link -> ClientRecord]
           /\ \A m \in Link \ {l} : Introduce(client, l, old, b)[m] = client[m]
           /\ Introduce(client, l, old, b)[l].lost = client[l].lost
           /\ Introduce(client, l, old, b)[l].missed = client[l].missed \ {b}
           /\ DOMAIN Introduce(client, l, old, b)[l].knows = (DOMAIN client[l].knows \ {old}) \cup {b}
           /\ \A c \in (DOMAIN client[l].knows \ {old}) \cup {b} :
                 Introduce(client, l, old, b)[l].knows[c] = IF c = b THEN beast[b].look ELSE client[l].knows[c]
<1> DEFINE K == client[l].knows
           k == [c \in (DOMAIN K \ {old}) \cup {b} |-> IF c = b THEN beast[b].look ELSE K[c]]
           n == [client[l] EXCEPT !.knows = k, !.missed = @ \ {b}]
<1>1. client[l] \in ClientRecord  OBVIOUS
<1>2. K \in Knowledge  BY <1>1 DEF ClientRecord
<1>3. K \in [DOMAIN K -> BOOLEAN] /\ DOMAIN K \subseteq Beast  BY <1>2, KnowledgeIsFunctions, Zenon
<1>4. Introduce(client, l, old, b) = [client EXCEPT ![l] = n]  BY DEF Introduce
<1> HIDE DEF K
<1>5. k \in [(DOMAIN K \ {old}) \cup {b} -> BOOLEAN]  BY <1>3
<1>6. /\ DOMAIN k = (DOMAIN K \ {old}) \cup {b}
      /\ \A c \in DOMAIN k : k[c] = IF c = b THEN beast[b].look ELSE K[c]
  OBVIOUS
<1> HIDE DEF k
<1>7. k \in Knowledge
  <2>1. DOMAIN k \subseteq Beast  BY <1>3, <1>6
  <2>2. k \in [DOMAIN k -> BOOLEAN]  BY <1>5, <1>6
  <2> QED  BY <2>1, <2>2, KnowledgeIsFunctions, Zenon
<1>8. /\ n \in ClientRecord /\ n.knows = k /\ n.lost = client[l].lost
      /\ n.missed = client[l].missed \ {b}
  BY <1>1, <1>7 DEF ClientRecord
<1> HIDE DEF n
<1> QED  BY <1>4, <1>6, <1>8 DEF K

\* A connection whose part of the chains is not touched.
LEMMA OtherLink ==
    ASSUME NEW l \in Link, NEW tb \in [Entry -> EntryRecord], NEW st, NEW vw, NEW cl, NEW bs, NEW bs2,
           LinkInv(l, tb, st, vw, cl, bs),
           \A b \in Beast : /\ bs2[b].look = bs[b].look
                            /\ \A i \in Entry : <<l, i>> \in bs2[b].chain <=> <<l, i>> \in bs[b].chain
    PROVE  LinkInv(l, tb, st, vw, cl, bs2)
<1>1. Chained(l, tb, bs2)  BY DEF LinkInv, Chained
<1>2. \A i \in Entry : tb[i].State = "UPTODATE" => tb[i].CreatureID \in Beast
  BY DEF LinkInv, OneEntry, EntryRecord
<1>3. st = "game" => Agree(tb, vw, cl, bs2)  BY <1>2 DEF LinkInv, Agree, Tells
<1> QED  BY <1>1, <1>3 DEF LinkInv

LEMMA EntriesOf ==
    ASSUME NEW l \in Link, NEW b \in Beast, Entries(l, b) # {}
    PROVE  Min(Entries(l, b)) \in Entry /\ table[l][Min(Entries(l, b))].CreatureID = b
<1>1. Entries(l, b) \subseteq Entry  BY DEF Entries
<1>2. Min(Entries(l, b)) \in Entries(l, b)  BY <1>1, MinOfEntries, Zenon
<1> QED  BY <1>2 DEF Entries

\* new_known_creature returns an entry of the creature, or one that is free or
\* whose creature is out of sight.
LEMMA SlotOf ==
    ASSUME NEW l \in Link, NEW b \in Beast, Slot(l, b) # 0
    PROVE  /\ Slot(l, b) \in Entry
           /\ table[l][Slot(l, b)].CreatureID = b
                 \/ /\ \A i \in Entry : table[l][i].CreatureID # b
                    /\ \/ table[l][Slot(l, b)].State = "FREE"
                       \/ table[l][Slot(l, b)].CreatureID \notin view[l]
<1>1. CASE Entries(l, b) # {}
  BY <1>1, EntriesOf DEF Slot
<1>2. CASE Entries(l, b) = {} /\ FreeEntries(l) # {}
  <2>1. FreeEntries(l) \subseteq Entry  BY DEF FreeEntries
  <2>2. Min(FreeEntries(l)) \in FreeEntries(l)  BY <1>2, <2>1, MinOfEntries, Zenon
  <2>3. Slot(l, b) = Min(FreeEntries(l))  BY <1>2 DEF Slot
  <2> QED  BY <1>2, <2>2, <2>3 DEF FreeEntries, Entries
<1>3. CASE Entries(l, b) = {} /\ FreeEntries(l) = {}
  <2>1. Invisible(l) # {} /\ Slot(l, b) = Min(Invisible(l))  BY <1>3 DEF Slot
  <2>2. Invisible(l) \subseteq Entry  BY DEF Invisible
  <2>3. Min(Invisible(l)) \in Invisible(l)  BY <2>1, <2>2, MinOfEntries, Zenon
  <2> QED  BY <1>3, <2>1, <2>3 DEF Invisible, Entries
<1> QED  BY <1>1, <1>2, <1>3

\* A step of one connection: the others go on as they were.
LEMMA OneLink ==
    ASSUME KnownInv, KnownTypeOK', NEW l \in Link,
           \A m \in Link \ {l} : /\ table'[m] = table[m] /\ state'[m] = state[m]
                                 /\ view'[m] = view[m] /\ client'[m] = client[m],
           \A b \in Beast : /\ beast'[b].look = beast[b].look
                            /\ \A m \in Link \ {l}, i \in Entry :
                                  <<m, i>> \in beast'[b].chain <=> <<m, i>> \in beast[b].chain,
           LinkInv(l, table'[l], state'[l], view'[l], client'[l], beast')
    PROVE  KnownInv'
<1>1. ASSUME NEW m \in Link, m # l
      PROVE  LinkInv(m, table'[m], state'[m], view'[m], client'[m], beast')
  <2>1. LinkInv(m, table[m], state[m], view[m], client[m], beast)  BY DEF KnownInv
  <2>2. table[m] \in [Entry -> EntryRecord]  BY DEF KnownInv, KnownTypeOK
  <2>3. \A b \in Beast : /\ beast'[b].look = beast[b].look
                         /\ \A i \in Entry : <<m, i>> \in beast'[b].chain <=> <<m, i>> \in beast[b].chain
    BY <1>1
  <2>4. LinkInv(m, table[m], state[m], view[m], client[m], beast')
    BY <2>1, <2>2, <2>3, OtherLink
  <2> QED  BY <1>1, <2>4
<1> QED  BY <1>1 DEF KnownInv

\* What Appear does to the table of a connection: no entry but the one of the
\* creature has changed.
Lists(l, b) ==
    /\ table' \in [Link -> [Entry -> EntryRecord]]
    /\ \A m \in Link \ {l} : table'[m] = table[m]
    /\ beast' \in [Beast -> BeastRecord]
    /\ \A c \in Beast : /\ beast'[c].look = beast[c].look
                        /\ \A m \in Link \ {l}, i \in Entry :
                              <<m, i>> \in beast'[c].chain <=> <<m, i>> \in beast[c].chain
    /\ OneEntry(table'[l]) /\ Chained(l, table'[l], beast')
    /\ \A i \in Entry : table'[l][i].CreatureID # b => table'[l][i] = table[l][i]

\* What it does to the client, which forgets the creature old.
Learns(l, old, b) ==
    /\ client' \in [Link -> ClientRecord]
    /\ \A m \in Link \ {l} : client'[m] = client[m]
    /\ client'[l].lost = client[l].lost
    /\ \A c \in Beast \ {b} : c \in client'[l].missed <=> c \in client[l].missed
    /\ \A c \in DOMAIN client[l].knows \ {old, b} :
          c \in DOMAIN client'[l].knows /\ client'[l].knows[c] = client[l].knows[c]
    /\ b \notin client'[l].missed =>
          /\ b \in DOMAIN client'[l].knows /\ client'[l].knows[b] = beast[b].look
          /\ \A i \in Entry : table'[l][i].CreatureID = b => table'[l][i].State = "UPTODATE"

\* A creature can be forgotten if it has no entry any more and is not in view.
Forgettable(l, old, b) ==
    /\ old \in view[l] => old = b \/ old \in client[l].missed
    /\ \A i \in Entry : table'[l][i].CreatureID \in {b, NoBeast} \/ table'[l][i].CreatureID # old

\* Table and client together.
LEMMA AppearAgrees ==
    ASSUME KnownInv, NEW l \in Link, NEW b \in Beast, NEW old, Appear(l, b),
           Lists(l, b), Learns(l, old, b), Forgettable(l, old, b)
    PROVE  KnownInv'
<1>1. KnownTypeOK  BY DEF KnownInv
<1>2. /\ state[l] = "game" /\ state' = state
      /\ view' = [view EXCEPT ![l] = @ \cup {b}]
  BY DEF Appear
<1>3. OneEntry(table[l]) /\ Agree(table[l], view[l], client[l], beast) /\ ~client[l].lost
  BY <1>2 DEF KnownInv, LinkInv
<1>4. view'[l] = view[l] \cup {b} /\ view' \in [Link -> SUBSET Beast] /\ view[l] \subseteq Beast
      /\ \A m \in Link \ {l} : view'[m] = view[m]
  BY <1>1, <1>2 DEF KnownTypeOK
<1>5. KnownTypeOK'  BY <1>1, <1>2, <1>4 DEF KnownTypeOK, Lists, Learns
<1>6. view'[l] \ client'[l].missed \subseteq DOMAIN client'[l].knows
  <2> SUFFICES ASSUME NEW c \in view'[l], c \notin client'[l].missed PROVE c \in DOMAIN client'[l].knows
    OBVIOUS
  <2>1. CASE c = b  BY <2>1 DEF Learns
  <2>2. CASE c # b
    <3>1. c \in view[l] /\ c \in Beast  BY <1>4, <2>2
    <3>2. c \notin client[l].missed  BY <2>2, <3>1 DEF Learns
    <3>3. c \in DOMAIN client[l].knows  BY <1>3, <3>1, <3>2 DEF Agree
    <3>4. c # old  BY <2>2, <3>1, <3>2 DEF Forgettable
    <3> QED  BY <2>2, <3>3, <3>4 DEF Learns
  <2> QED  BY <2>1, <2>2
<1>7. ASSUME NEW i \in Entry PROVE Tells(table'[l][i], view'[l], client'[l], beast')
  <2> DEFINE e == table'[l][i]
             c == table'[l][i].CreatureID
  <2>0. e \in EntryRecord  BY <1>5 DEF KnownTypeOK
  <2> SUFFICES ASSUME c \notin client'[l].missed
               PROVE  /\ c # NoBeast => c \in DOMAIN client'[l].knows
                      /\ c \in view'[l] => e.State = "UPTODATE"
                      /\ e.State = "UPTODATE" => client'[l].knows[c] = beast'[c].look
    BY DEF Tells
  <2>1. CASE c = b  BY <2>1 DEF Learns, Lists
  <2>2. CASE c = NoBeast
    <3>1. c \notin view'[l]  BY <1>4, <2>2, KnownAssumption
    <3>2. e.State = "FREE"  BY <2>2 DEF Lists, OneEntry
    <3> QED  BY <2>2, <3>1, <3>2
  <2>3. CASE c # b /\ c # NoBeast
    <3>1. c \in Beast  BY <2>0, <2>3 DEF EntryRecord
    <3>2. e = table[l][i]  BY <2>3 DEF Lists
    <3>3. c \notin client[l].missed  BY <2>3, <3>1 DEF Learns
    <3>4. c # old  BY <2>3 DEF Forgettable
    <3>5. Tells(table[l][i], view[l], client[l], beast)  BY <1>3 DEF Agree
    <3>6. /\ c \in DOMAIN client[l].knows
          /\ c \in view[l] => e.State = "UPTODATE"
          /\ e.State = "UPTODATE" => client[l].knows[c] = beast[c].look
      BY <2>3, <3>2, <3>3, <3>5 DEF Tells
    <3>7. c \in DOMAIN client'[l].knows /\ client'[l].knows[c] = client[l].knows[c]
      BY <2>3, <3>4, <3>6 DEF Learns
    <3>8. c \in view'[l] => c \in view[l]  BY <1>4, <2>3
    <3>9. beast'[c].look = beast[c].look  BY <3>1 DEF Lists
    <3> QED  BY <3>6, <3>7, <3>8, <3>9
  <2> QED  BY <2>1, <2>2, <2>3
<1>8. LinkInv(l, table'[l], state'[l], view'[l], client'[l], beast')
  <2>1. Agree(table'[l], view'[l], client'[l], beast')  BY <1>6, <1>7 DEF Agree
  <2>2. state'[l] # "free"  BY <1>2
  <2> QED  BY <1>3, <2>1, <2>2 DEF LinkInv, Lists, Learns
<1> QED  BY <1>2, <1>4, <1>5, <1>8, OneLink DEF Lists, Learns

\* unchain_known_creature, and the entry that is chained to a creature.
LEMMA UnchainStep ==
    ASSUME NEW bs \in [Beast -> BeastRecord], NEW l \in Link, NEW b \in Beast
    PROVE  /\ Unchain(bs, l, b) \in [Beast -> BeastRecord]
           /\ \A c \in Beast :
                 /\ Unchain(bs, l, b)[c].look = bs[c].look
                 /\ \A m \in Link, k \in Entry :
                       <<m, k>> \in Unchain(bs, l, b)[c].chain <=> <<m, k>> \in bs[c].chain /\ ~(c = b /\ m = l)
<1> DEFINE ch == {e \in bs[b].chain : e[1] # l}
           n == [bs[b] EXCEPT !.chain = ch]
<1>1. bs[b] \in BeastRecord  OBVIOUS
<1>2. ch \in SUBSET (Link \X Entry)  BY <1>1 DEF BeastRecord
<1>3. Unchain(bs, l, b) = [bs EXCEPT ![b] = n]  BY DEF Unchain
<1> HIDE DEF ch
<1>4. n \in BeastRecord /\ n.look = bs[b].look /\ n.chain = ch  BY <1>1, <1>2 DEF BeastRecord
<1>5. \A m \in Link, k \in Entry : <<m, k>> \in ch <=> <<m, k>> \in bs[b].chain /\ m # l  BY DEF ch
<1> HIDE DEF n
<1> QED  BY <1>3, <1>4, <1>5

Chain(bs, l, b, i) == [bs EXCEPT ![b].chain = @ \cup {<<l, i>>}]

LEMMA ChainStep ==
    ASSUME NEW bs \in [Beast -> BeastRecord], NEW l \in Link, NEW b \in Beast, NEW i \in Entry
    PROVE  /\ Chain(bs, l, b, i) \in [Beast -> BeastRecord]
           /\ \A c \in Beast :
                 /\ Chain(bs, l, b, i)[c].look = bs[c].look
                 /\ \A m \in Link, k \in Entry :
                       <<m, k>> \in Chain(bs, l, b, i)[c].chain
                          <=> <<m, k>> \in bs[c].chain \/ (c = b /\ m = l /\ k = i)
<1> DEFINE ch == bs[b].chain \cup {<<l, i>>}
           n == [bs[b] EXCEPT !.chain = ch]
<1>1. bs[b] \in BeastRecord  OBVIOUS
<1>2. ch \in SUBSET (Link \X Entry)  BY <1>1 DEF BeastRecord
<1>3. Chain(bs, l, b, i) = [bs EXCEPT ![b] = n]  BY DEF Chain
<1> HIDE DEF ch
<1>4. n \in BeastRecord /\ n.look = bs[b].look /\ n.chain = ch  BY <1>1, <1>2 DEF BeastRecord
<1>5. \A m \in Link, k \in Entry : <<m, k>> \in ch <=> <<m, k>> \in bs[b].chain \/ (m = l /\ k = i)  BY DEF ch
<1> HIDE DEF n
<1> QED  BY <1>3, <1>4, <1>5

\* send_map_object finds an entry of the creature that is not free: it is up to
\* date afterwards.
LEMMA ListKnown ==
    ASSUME KnownInv, NEW l \in Link, NEW b \in Beast, send_map_object(l, b), known_creature(l, b) # "FREE"
    PROVE  /\ Lists(l, b)
           /\ \A i \in Entry : table'[l][i].CreatureID = table[l][i].CreatureID
           /\ \A i \in Entry : table'[l][i].CreatureID = b => table'[l][i].State = "UPTODATE"
<1> DEFINE j == Min(Entries(l, b))
<1>1. Entries(l, b) # {} /\ known_creature(l, b) = table[l][j].State  BY DEF known_creature
<1>2. j \in Entry /\ table[l][j].CreatureID = b  BY <1>1, EntriesOf
<1> HIDE DEF j
<1>3. OneEntry(table[l]) /\ Chained(l, table[l], beast) /\ KnownTypeOK
  BY DEF KnownInv, LinkInv
<1>4. \A i \in Entry : i # j => table[l][i].CreatureID # b
  BY <1>2, <1>3, KnownAssumption DEF OneEntry
<1>5. /\ beast' = beast
      /\ table' \in [Link -> [Entry -> EntryRecord]]
      /\ \A m \in Link \ {l} : table'[m] = table[m]
      /\ table'[l][j] = [State |-> "UPTODATE", CreatureID |-> b]
      /\ \A i \in Entry \ {j} : table'[l][i] = table[l][i]
  <2>1. CASE table[l][j].State = "UPTODATE"
    <3>1. beast' = beast /\ table' = table  BY <1>1, <2>1 DEF send_map_object
    <3>3. table[l][j] \in EntryRecord  BY <1>2, <1>3 DEF KnownTypeOK
    <3>4. table[l][j] = [State |-> "UPTODATE", CreatureID |-> b]  BY <1>2, <2>1, <3>3 DEF EntryRecord
    <3> QED  BY <1>3, <3>1, <3>4 DEF KnownTypeOK
  <2>2. CASE table[l][j].State = "OUTDATED"
    <3> DEFINE e == [table[l][j] EXCEPT !.State = "UPTODATE"]
    <3>1. /\ beast' = beast
          /\ table' = [table EXCEPT ![l][j].State = "UPTODATE"]
      <4>1. known_creature(l, b) = "OUTDATED" /\ "OUTDATED" # "UPTODATE" /\ "OUTDATED" # "FREE"  BY <1>1, <2>2
      <4> QED  BY <4>1, Zenon DEF send_map_object, j
    <3>2. table[l][j] \in EntryRecord /\ table[l] \in [Entry -> EntryRecord]  BY <1>2, <1>3 DEF KnownTypeOK
    <3>3. e = [State |-> "UPTODATE", CreatureID |-> b] /\ e \in EntryRecord
      BY <1>2, <3>2 DEF EntryRecord
    <3> DEFINE tb == [table[l] EXCEPT ![j] = e]
    <3>4. table' = [table EXCEPT ![l] = tb]  BY <3>1
    <3> HIDE DEF e
    <3>5. tb \in [Entry -> EntryRecord] /\ tb[j] = e /\ \A i \in Entry \ {j} : tb[i] = table[l][i]
      BY <1>2, <3>2, <3>3
    <3> HIDE DEF tb
    <3>6. /\ table' \in [Link -> [Entry -> EntryRecord]] /\ table'[l] = tb
          /\ \A m \in Link \ {l} : table'[m] = table[m]
      BY <1>3, <3>4, <3>5 DEF KnownTypeOK
    <3> QED  BY <3>1, <3>3, <3>5, <3>6
  <2>3. table[l][j].State \in {"FREE", "UPTODATE", "OUTDATED"}
    BY <1>2, <1>3 DEF KnownTypeOK, EntryRecord
  <2> QED  BY <1>1, <2>1, <2>2, <2>3
<1>6. \A i \in Entry : table'[l][i].CreatureID = table[l][i].CreatureID  BY <1>2, <1>5
<1>7. OneEntry(table'[l])  BY <1>2, <1>3, <1>4, <1>5, KnownAssumption DEF OneEntry
<1>8. Chained(l, table'[l], beast')  BY <1>1, <1>2, <1>3, <1>5 DEF Chained
<1>9. beast' \in [Beast -> BeastRecord]  BY <1>3, <1>5 DEF KnownTypeOK
<1> QED  BY <1>2, <1>4, <1>5, <1>6, <1>7, <1>8, <1>9 DEF Lists

\* It gives the creature an entry: no other entry is of this creature, and nobody
\* in view loses its own.
LEMMA ListNew ==
    ASSUME KnownInv, NEW l \in Link, state[l] = "game", NEW b \in Beast, send_map_object(l, b),
           known_creature(l, b) = "FREE", Slot(l, b) # 0
    PROVE  /\ Lists(l, b)
           /\ Forgettable(l, table[l][Slot(l, b)].CreatureID, b)
           /\ \A i \in Entry : table'[l][i].CreatureID = b => table'[l][i].State = "UPTODATE"
<1>a. PICK i : i = Slot(l, b)  OBVIOUS
<1>b. PICK old : old = table[l][i].CreatureID  OBVIOUS
<1> DEFINE bs == IF table[l][i].State = "FREE" THEN beast ELSE Unchain(beast, l, old)
<1>1. KnownTypeOK  BY DEF KnownInv
<1>3. /\ OneEntry(table[l]) /\ Agree(table[l], view[l], client[l], beast)
      /\ Chained(l, table[l], beast)
  BY DEF KnownInv, LinkInv
<1>4. /\ table' = [table EXCEPT ![l][i] = [State |-> "UPTODATE", CreatureID |-> b]]
      /\ beast' = [bs EXCEPT ![b].chain = @ \cup {<<l, i>>}]
  BY <1>a, <1>b DEF send_map_object
<1>5. /\ i \in Entry
      /\ old = b \/ /\ \A k \in Entry : table[l][k].CreatureID # b
                    /\ table[l][i].State = "FREE" \/ old \notin view[l]
  BY <1>a, <1>b, SlotOf
<1>6. old = b => table[l][i].State = "FREE"
  <2> SUFFICES ASSUME old = b PROVE table[l][i].State = "FREE"  OBVIOUS
  <2>1. Entries(l, b) # {}  BY <1>b, <1>5 DEF Entries
  <2>2. Min(Entries(l, b)) \in Entry /\ table[l][Min(Entries(l, b))].CreatureID = b  BY <2>1, EntriesOf
  <2>3. Min(Entries(l, b)) = i  BY <1>b, <1>3, <1>5, <2>2, KnownAssumption DEF OneEntry
  <2> QED  BY <2>1, <2>3 DEF known_creature
<1>7. \A k \in Entry \ {i} : table[l][k].CreatureID # b
  BY <1>b, <1>3, <1>5, KnownAssumption DEF OneEntry
<1>8. \A k \in Entry \ {i} : table[l][k].CreatureID # NoBeast => table[l][k].CreatureID # old
  BY <1>b, <1>3, <1>5 DEF OneEntry
<1>9. old \in view[l] => old = b \/ old \in client[l].missed
  <2>1. Tells(table[l][i], view[l], client[l], beast)  BY <1>3, <1>5 DEF Agree
  <2> QED  BY <1>b, <1>5, <2>1 DEF Tells
<1>10. table[l][i].State # "FREE" => old \in Beast
  <2>1. table[l][i] \in EntryRecord  BY <1>1, <1>5 DEF KnownTypeOK
  <2> QED  BY <1>b, <1>3, <1>5, <2>1 DEF OneEntry, EntryRecord
<1>11. /\ bs \in [Beast -> BeastRecord]
       /\ \A c \in Beast :
             /\ bs[c].look = beast[c].look
             /\ \A m \in Link, k \in Entry :
                   <<m, k>> \in bs[c].chain
                      <=> <<m, k>> \in beast[c].chain /\ ~(table[l][i].State # "FREE" /\ c = old /\ m = l)
  <2>0. beast \in [Beast -> BeastRecord]  BY <1>1 DEF KnownTypeOK
  <2>1. CASE table[l][i].State = "FREE"  BY <2>0, <2>1
  <2>2. CASE table[l][i].State # "FREE"
    <3>1. old \in Beast /\ bs = Unchain(beast, l, old)  BY <1>10, <2>2
    <3> QED  BY <2>0, <2>2, <3>1, UnchainStep
  <2> QED  BY <2>1, <2>2
<1> HIDE DEF bs
<1>12. /\ beast' \in [Beast -> BeastRecord]
       /\ \A c \in Beast :
             /\ beast'[c].look = bs[c].look
             /\ \A m \in Link, k \in Entry :
                   <<m, k>> \in beast'[c].chain <=> <<m, k>> \in bs[c].chain \/ (c = b /\ m = l /\ k = i)
  <2>1. beast' = Chain(bs, l, b, i)
    BY <1>4, Zenon DEF Chain
  <2>2. i \in Entry /\ bs \in [Beast -> BeastRecord]
    BY <1>5, <1>11, Zenon
  <2>3. /\ Chain(bs, l, b, i) \in [Beast -> BeastRecord]
        /\ \A c \in Beast :
              /\ Chain(bs, l, b, i)[c].look = bs[c].look
              /\ \A m \in Link, k \in Entry :
                    <<m, k>> \in Chain(bs, l, b, i)[c].chain
                       <=> <<m, k>> \in bs[c].chain \/ (c = b /\ m = l /\ k = i)
    BY <2>2, ChainStep
  <2> QED  BY <2>1, <2>3, Zenon
<1>13. \A c \in Beast : /\ beast'[c].look = beast[c].look
                        /\ \A m \in Link \ {l}, k \in Entry :
                              <<m, k>> \in beast'[c].chain <=> <<m, k>> \in beast[c].chain
  BY <1>11, <1>12
<1>14. \A c \in Beast, k \in Entry :
          <<l, k>> \in beast'[c].chain <=> \/ c = b /\ k = i
                                           \/ <<l, k>> \in beast[c].chain /\ ~(c = old /\ table[l][i].State # "FREE")
  BY <1>11, <1>12
<1>17. /\ table' \in [Link -> [Entry -> EntryRecord]]
       /\ \A m \in Link \ {l} : table'[m] = table[m]
       /\ table'[l][i] = [State |-> "UPTODATE", CreatureID |-> b]
       /\ \A k \in Entry \ {i} : table'[l][k] = table[l][k]
  <2> DEFINE e == [State |-> "UPTODATE", CreatureID |-> b]
             tb == [table[l] EXCEPT ![i] = e]
  <2>1. e \in EntryRecord  BY DEF EntryRecord
  <2>2. table[l] \in [Entry -> EntryRecord]  BY <1>1 DEF KnownTypeOK
  <2>3. table' = [table EXCEPT ![l] = tb]  BY <1>4
  <2> HIDE DEF e
  <2>4. tb \in [Entry -> EntryRecord] /\ tb[i] = e /\ \A k \in Entry \ {i} : tb[k] = table[l][k]
    BY <1>5, <2>1, <2>2
  <2> HIDE DEF tb
  <2>5. /\ table' \in [Link -> [Entry -> EntryRecord]] /\ table'[l] = tb
        /\ \A m \in Link \ {l} : table'[m] = table[m]
    BY <1>1, <2>3, <2>4 DEF KnownTypeOK
  <2> QED  BY <2>4, <2>5 DEF e
<1>20. OneEntry(table'[l])
  <2>1. \A k \in Entry : table'[l][k].State # "FREE" => table'[l][k].CreatureID # NoBeast
    BY <1>3, <1>5, <1>17, KnownAssumption DEF OneEntry
  <2>2. \A k \in Entry \ {i} : table'[l][k].CreatureID # table'[l][i].CreatureID
    BY <1>5, <1>7, <1>17
  <2> QED  BY <1>3, <1>17, <2>1, <2>2 DEF OneEntry
<1>21. Chained(l, table'[l], beast')
  <2> SUFFICES ASSUME NEW c \in Beast, NEW k \in Entry
               PROVE  <<l, k>> \in beast'[c].chain
                         <=> table'[l][k].CreatureID = c /\ table'[l][k].State # "FREE"
    BY DEF Chained
  <2>1. <<l, k>> \in beast[c].chain <=> table[l][k].CreatureID = c /\ table[l][k].State # "FREE"
    BY <1>3 DEF Chained
  <2>2. CASE k = i  BY <1>b, <1>5, <1>6, <1>14, <1>17, <2>1, <2>2
  <2>3. CASE k # i  BY <1>8, <1>14, <1>17, <2>1, <2>3, KnownAssumption
  <2> QED  BY <2>2, <2>3
<1>22. Forgettable(l, old, b)
  BY <1>5, <1>8, <1>9, <1>17 DEF Forgettable
<1>23. Lists(l, b)
  BY <1>12, <1>13, <1>17, <1>20, <1>21 DEF Lists
<1>24. \A k \in Entry : table'[l][k].CreatureID = b => table'[l][k].State = "UPTODATE"
  BY <1>7, <1>17
<1> QED  BY <1>a, <1>b, <1>22, <1>23, <1>24

\* No entry is left, or none is asked for: the table stays.
LEMMA ListNone ==
    ASSUME KnownInv, NEW l \in Link, NEW b \in Beast, table' = table, beast' = beast
    PROVE  Lists(l, b)
BY DEF KnownInv, KnownTypeOK, LinkInv, Lists

LEMMA NoEntry ==
    ASSUME NEW l \in Link, NEW b \in Beast, Slot(l, b) = 0
    PROVE  \A i \in Entry : table[l][i].CreatureID # b
<1>1. Entries(l, b) = {}
  <2> SUFFICES ASSUME Entries(l, b) # {} PROVE FALSE  OBVIOUS
  <2>1. Slot(l, b) \in Entry  BY EntriesOf DEF Slot
  <2> QED  BY <2>1, KnownAssumption DEF Entry
<1> QED  BY <1>1 DEF Entries

LEMMA KnownStates ==
    ASSUME KnownTypeOK, NEW l \in Link, NEW b \in Beast
    PROVE  known_creature(l, b) \in {"FREE", "UPTODATE", "OUTDATED"}
<1>1. CASE Entries(l, b) = {}  BY <1>1 DEF known_creature
<1>2. CASE Entries(l, b) # {}
  <2>1. Min(Entries(l, b)) \in Entry  BY <1>2, EntriesOf
  <2> QED  BY <1>2, <2>1 DEF known_creature, KnownTypeOK, EntryRecord
<1> QED  BY <1>1, <1>2

\* The packet is refused or dropped: the table is as it was or as if the packet
\* had been sent, and nothing is forgotten.
LEMMA AppearMissed ==
    ASSUME KnownInv, NEW l \in Link, NEW b \in Beast, Appear(l, b), client' = Miss(client, l, b)
    PROVE  KnownInv'
<1>1. KnownTypeOK  BY DEF KnownInv
<1>2. state[l] = "game"  BY DEF Appear
<1>3. Lists(l, b)
  <2>1. CASE table' = table /\ beast' = beast  BY <2>1, ListNone
  <2>2. CASE send_map_object(l, b)
    <3>1. CASE known_creature(l, b) # "FREE"  BY <2>2, <3>1, ListKnown
    <3>2. CASE known_creature(l, b) = "FREE" /\ Slot(l, b) # 0  BY <1>2, <2>2, <3>2, ListNew
    <3>3. CASE known_creature(l, b) = "FREE" /\ Slot(l, b) = 0
      <4>1. table' = table /\ beast' = beast  BY <2>2, <3>3 DEF send_map_object
      <4> QED  BY <4>1, ListNone
    <3> QED  BY <3>1, <3>2, <3>3
  <2> QED  BY <2>1, <2>2 DEF Appear
<1>4. /\ client' \in [Link -> ClientRecord]
      /\ \A m \in Link \ {l} : client'[m] = client[m]
      /\ client'[l].lost = client[l].lost
      /\ client'[l].knows = client[l].knows
      /\ client'[l].missed = client[l].missed \cup {b}
  BY <1>1, MissStep DEF KnownTypeOK
<1>5. Learns(l, NoBeast, b)  BY <1>4 DEF Learns
<1>6. Forgettable(l, NoBeast, b)
  <2>1. view[l] \subseteq Beast  BY <1>1 DEF KnownTypeOK
  <2> QED  BY <2>1, KnownAssumption DEF Forgettable
<1> QED  BY <1>3, <1>5, <1>6, AppearAgrees

\* The packet arrives, for a creature with an entry that is not free.
LEMMA AppearKnown ==
    ASSUME KnownInv, NEW l \in Link, NEW b \in Beast, Appear(l, b),
           send_map_object(l, b), client' = Described(l, b), known_creature(l, b) # "FREE"
    PROVE  KnownInv'
<1>1. KnownTypeOK  BY DEF KnownInv
<1>2. state[l] = "game"  BY DEF Appear
<1>3. OneEntry(table[l]) /\ Agree(table[l], view[l], client[l], beast)  BY <1>2 DEF KnownInv, LinkInv
<1>4. /\ Lists(l, b)
      /\ \A i \in Entry : table'[l][i].CreatureID = table[l][i].CreatureID
      /\ \A i \in Entry : table'[l][i].CreatureID = b => table'[l][i].State = "UPTODATE"
  BY ListKnown
<1> DEFINE j == Min(Entries(l, b))
<1>5. Entries(l, b) # {} /\ known_creature(l, b) = table[l][j].State  BY DEF known_creature
<1>6. j \in Entry /\ table[l][j].CreatureID = b  BY <1>5, EntriesOf
<1> HIDE DEF j
<1>7. Tells(table[l][j], view[l], client[l], beast)  BY <1>3, <1>6 DEF Agree
<1>8. b \in DOMAIN client[l].knows \/ b \in client[l].missed  BY <1>6, <1>7, KnownAssumption DEF Tells
<1>9. client \in [Link -> ClientRecord] /\ beast[b].look \in BOOLEAN  BY <1>1 DEF KnownTypeOK, BeastRecord
<1>10. Forgettable(l, NoBeast, b)
  <2>1. view[l] \subseteq Beast  BY <1>1 DEF KnownTypeOK
  <2> QED  BY <2>1, KnownAssumption DEF Forgettable
<1>11. CASE known_creature(l, b) = "UPTODATE"
  <2>1. client' = Name(client, l, b)  BY <1>11 DEF Described
  <2>2. client' = client  BY <1>8, <1>9, <2>1, NameKnown
  <2>3. b \notin client[l].missed => b \in DOMAIN client[l].knows /\ client[l].knows[b] = beast[b].look
    BY <1>5, <1>6, <1>7, <1>8, <1>11 DEF Tells
  <2>4. Learns(l, NoBeast, b)  BY <1>4, <1>9, <2>2, <2>3 DEF Learns
  <2> QED  BY <1>4, <1>10, <2>4, AppearAgrees
<1>12. CASE known_creature(l, b) = "OUTDATED"
  <2>1. client' = Refresh(client, l, b)  BY <1>12 DEF Described
  <2>2. /\ client' \in [Link -> ClientRecord]
        /\ \A m \in Link \ {l} : client'[m] = client[m]
        /\ client'[l].lost = client[l].lost
        /\ \A c \in Beast \ {b} : c \in client'[l].missed <=> c \in client[l].missed
        /\ b \in DOMAIN client[l].knows \/ b \in client'[l].missed
        /\ DOMAIN client'[l].knows = DOMAIN client[l].knows
        /\ \A c \in DOMAIN client[l].knows :
              client'[l].knows[c] = IF c = b THEN beast[b].look ELSE client[l].knows[c]
    BY <1>8, <1>9, <2>1, RefreshStep
  <2>3. Learns(l, NoBeast, b)  BY <1>4, <2>2 DEF Learns
  <2> QED  BY <1>4, <1>10, <2>3, AppearAgrees
<1>13. known_creature(l, b) \in {"FREE", "UPTODATE", "OUTDATED"}  BY <1>1, KnownStates
<1> QED  BY <1>11, <1>12, <1>13

\* The packet arrives, and tells everything of the creature.
LEMMA AppearNew ==
    ASSUME KnownInv, NEW l \in Link, NEW b \in Beast, Appear(l, b),
           send_map_object(l, b), client' = Described(l, b), known_creature(l, b) = "FREE"
    PROVE  KnownInv'
<1> DEFINE old == IF Slot(l, b) = 0 THEN NoBeast ELSE table[l][Slot(l, b)].CreatureID
<1>1. KnownTypeOK  BY DEF KnownInv
<1>2. state[l] = "game"  BY DEF Appear
<1>3. client' = Introduce(client, l, old, b)  BY DEF Described
<1>4. /\ Lists(l, b) /\ Forgettable(l, old, b)
      /\ \A i \in Entry : table'[l][i].CreatureID = b => table'[l][i].State = "UPTODATE"
  <2>1. CASE Slot(l, b) # 0  BY <1>2, <2>1, ListNew
  <2>2. CASE Slot(l, b) = 0
    <3>1. table' = table /\ beast' = beast  BY <2>2 DEF send_map_object
    <3>2. view[l] \subseteq Beast  BY <1>1 DEF KnownTypeOK
    <3>3. Forgettable(l, old, b)  BY <2>2, <3>2, KnownAssumption DEF Forgettable
    <3> QED  BY <2>2, <3>1, <3>3, ListNone, NoEntry
  <2> QED  BY <2>1, <2>2
<1>5. client \in [Link -> ClientRecord] /\ beast[b].look \in BOOLEAN  BY <1>1 DEF KnownTypeOK, BeastRecord
<1> HIDE DEF old
<1>6. /\ client' \in [Link -> ClientRecord]
      /\ \A m \in Link \ {l} : client'[m] = client[m]
      /\ client'[l].lost = client[l].lost
      /\ client'[l].missed = client[l].missed \ {b}
      /\ DOMAIN client'[l].knows = (DOMAIN client[l].knows \ {old}) \cup {b}
      /\ \A c \in (DOMAIN client[l].knows \ {old}) \cup {b} :
            client'[l].knows[c] = IF c = b THEN beast[b].look ELSE client[l].knows[c]
  BY <1>3, <1>5, IntroduceStep
<1>7. Learns(l, old, b)  BY <1>4, <1>6 DEF Learns
<1> QED  BY <1>4, <1>7, AppearAgrees

LEMMA VanishStep ==
    ASSUME KnownInv, NEW l \in Link, NEW b \in Beast, Vanish(l, b)
    PROVE  KnownInv'
<1>1. KnownTypeOK /\ LinkInv(l, table[l], state[l], view[l], client[l], beast)  BY DEF KnownInv
<1>2. /\ table' = table /\ state' = state /\ beast' = beast /\ client' = client
      /\ view'[l] = view[l] \ {b} /\ view' \in [Link -> SUBSET Beast]
      /\ \A m \in Link \ {l} : view'[m] = view[m]
  BY <1>1 DEF KnownTypeOK, Vanish
<1>3. KnownTypeOK'  BY <1>1, <1>2 DEF KnownTypeOK
<1>4. LinkInv(l, table'[l], state'[l], view'[l], client'[l], beast')
  BY <1>1, <1>2 DEF LinkInv, Agree, Tells
<1> QED  BY <1>2, <1>3, <1>4, OneLink

LEMMA LogoutStep ==
    ASSUME KnownInv, NEW l \in Link, LogoutGame(l)
    PROVE  KnownInv'
<1>1. KnownTypeOK /\ LinkInv(l, table[l], state[l], view[l], client[l], beast)  BY DEF KnownInv
<1>2. /\ table' = table /\ view' = view /\ beast' = beast /\ client' = client
      /\ state'[l] = "logout" /\ state' \in [Link -> {"game", "logout", "free"}]
      /\ \A m \in Link \ {l} : state'[m] = state[m]
  BY <1>1 DEF KnownTypeOK, LogoutGame
<1>3. KnownTypeOK'  BY <1>1, <1>2 DEF KnownTypeOK
<1>4. LinkInv(l, table'[l], state'[l], view'[l], client'[l], beast')
  BY <1>1, <1>2 DEF LinkInv
<1> QED  BY <1>2, <1>3, <1>4, OneLink

\* A cleared table and a new client.
LEMMA ClearedTable ==
    /\ Cleared \in [Entry -> EntryRecord] /\ OneEntry(Cleared)
    /\ \A i \in Entry : Cleared[i].State = "FREE" /\ Cleared[i].CreatureID = NoBeast
    /\ NewClient \in ClientRecord /\ ~NewClient.lost
    /\ \A bs : Agree(Cleared, {}, NewClient, bs)
<1>1. \A i \in Entry : Cleared[i] = [State |-> "FREE", CreatureID |-> NoBeast]  BY DEF Cleared
<1>2. [State |-> "FREE", CreatureID |-> NoBeast] \in EntryRecord  BY DEF EntryRecord
<1>3. Cleared \in [Entry -> EntryRecord]  BY <1>1, <1>2 DEF Cleared
<1>4. \A i \in Entry : Cleared[i].State = "FREE" /\ Cleared[i].CreatureID = NoBeast  BY <1>1
<1>5. OneEntry(Cleared)  BY <1>4 DEF OneEntry
<1> DEFINE k == [b \in {} |-> FALSE]
<1>6. k \in [{} -> BOOLEAN] /\ {} \in SUBSET Beast  OBVIOUS
<1>7. k \in Knowledge  BY <1>6 DEF Knowledge
<1>8. NewClient = [knows |-> k, missed |-> {}, lost |-> FALSE]  BY DEF NewClient
<1> HIDE DEF k
<1>9. NewClient \in ClientRecord /\ ~NewClient.lost  BY <1>7, <1>8 DEF ClientRecord
<1>10. \A bs : Agree(Cleared, {}, NewClient, bs)  BY <1>4 DEF Agree, Tells
<1> QED  BY <1>3, <1>4, <1>5, <1>9, <1>10

LEMMA InitKnownInv == KnownInit => KnownInv
<1> SUFFICES ASSUME KnownInit PROVE KnownInv  OBVIOUS
<1>1. \A l \in Link : table[l] = Cleared /\ state[l] = "free" /\ view[l] = {} /\ client[l] = NewClient
  BY DEF KnownInit
<1> DEFINE r == [alive |-> FALSE, look |-> FALSE, chain |-> {}]
<1>2. r \in BeastRecord /\ r.chain = {}  BY DEF BeastRecord
<1>3. beast = [b \in Beast |-> r]  BY DEF KnownInit
<1> HIDE DEF r
<1>4. beast \in [Beast -> BeastRecord] /\ \A b \in Beast : beast[b].chain = {}  BY <1>2, <1>3
<1>5. KnownTypeOK  BY <1>4, ClearedTable DEF KnownInit, KnownTypeOK
<1>6. ASSUME NEW l \in Link PROVE LinkInv(l, table[l], state[l], view[l], client[l], beast)
  <2>1. Chained(l, table[l], beast)  BY <1>1, <1>4, ClearedTable DEF Chained
  <2>2. "free" # "game"  OBVIOUS
  <2> QED  BY <1>1, <2>1, <2>2, ClearedTable, Zenon DEF LinkInv
<1> QED  BY <1>5, <1>6 DEF KnownInv

LEMMA JoinStep ==
    ASSUME KnownInv, NEW l \in Link, Join(l)
    PROVE  KnownInv'
<1>1. KnownTypeOK /\ LinkInv(l, table[l], state[l], view[l], client[l], beast)  BY DEF KnownInv
<1>2. /\ state' \in [Link -> {"game", "logout", "free"}] /\ state'[l] = "game"
      /\ \A m \in Link \ {l} : state'[m] = state[m]
  BY <1>1 DEF Join, KnownTypeOK
<1>3. /\ table' \in [Link -> [Entry -> EntryRecord]] /\ table'[l] = Cleared
      /\ \A m \in Link \ {l} : table'[m] = table[m]
  BY <1>1, ClearedTable DEF Join, KnownTypeOK
<1>4. /\ client' \in [Link -> ClientRecord] /\ client'[l] = NewClient
      /\ \A m \in Link \ {l} : client'[m] = client[m]
  BY <1>1, ClearedTable DEF Join, KnownTypeOK
<1>5. beast' = beast /\ view' = view /\ table[l] = Cleared /\ view[l] = {} /\ Chained(l, table[l], beast)
  BY <1>1 DEF Join, LinkInv
<1>6. KnownTypeOK'  BY <1>1, <1>2, <1>3, <1>4, <1>5 DEF KnownTypeOK
<1>7. "game" # "free"  OBVIOUS
<1>8. LinkInv(l, table'[l], state'[l], view'[l], client'[l], beast')
  BY <1>2, <1>3, <1>4, <1>5, <1>7, ClearedTable, Zenon DEF LinkInv
<1> QED  BY <1>2, <1>3, <1>4, <1>5, <1>6, <1>8, OneLink

\* clear_known_creature_table(true): no entry of the connection stays in a chain.
LEMMA DisconnectStep ==
    ASSUME KnownInv, NEW l \in Link, Disconnect(l)
    PROVE  KnownInv'
<1>1. KnownTypeOK /\ LinkInv(l, table[l], state[l], view[l], client[l], beast)  BY DEF KnownInv
<1>2. /\ state' \in [Link -> {"game", "logout", "free"}] /\ state'[l] = "free"
      /\ \A m \in Link \ {l} : state'[m] = state[m]
  BY <1>1 DEF Disconnect, KnownTypeOK
<1>3. /\ table' \in [Link -> [Entry -> EntryRecord]] /\ table'[l] = Cleared
      /\ \A m \in Link \ {l} : table'[m] = table[m]
  BY <1>1, ClearedTable DEF Disconnect, KnownTypeOK
<1>4. /\ client' \in [Link -> ClientRecord] /\ client'[l] = NewClient
      /\ \A m \in Link \ {l} : client'[m] = client[m]
  BY <1>1, ClearedTable DEF Disconnect, KnownTypeOK
<1>5. /\ view' \in [Link -> SUBSET Beast] /\ view'[l] = {}
      /\ \A m \in Link \ {l} : view'[m] = view[m]
  BY <1>1 DEF Disconnect, KnownTypeOK
<1> DEFINE listed(b) == \E i \in Entries(l, b) : table[l][i].State # "FREE"
<1>6. beast' = [b \in Beast |-> IF listed(b) THEN Unchain(beast, l, b)[b] ELSE beast[b]]  BY DEF Disconnect
<1>7. \A b \in Beast, i \in Entry : <<l, i>> \in beast[b].chain => listed(b)
  BY <1>1 DEF LinkInv, Chained, Entries
<1> HIDE DEF listed
<1>8. beast \in [Beast -> BeastRecord]  BY <1>1 DEF KnownTypeOK
<1>9. ASSUME NEW b \in Beast
      PROVE  /\ beast'[b] \in BeastRecord /\ beast'[b].look = beast[b].look
             /\ \A m \in Link \ {l}, i \in Entry : <<m, i>> \in beast'[b].chain <=> <<m, i>> \in beast[b].chain
             /\ \A i \in Entry : <<l, i>> \notin beast'[b].chain
  <2>1. CASE listed(b)
    <3>1. beast'[b] = Unchain(beast, l, b)[b]  BY <1>6, <2>1
    <3> QED  BY <1>8, <3>1, UnchainStep
  <2>2. CASE ~listed(b)
    <3>1. beast'[b] = beast[b]  BY <1>6, <2>2
    <3> QED  BY <1>7, <1>8, <2>2, <3>1
  <2> QED  BY <2>1, <2>2
<1>10. beast' \in [Beast -> BeastRecord]  BY <1>6, <1>9
<1>11. KnownTypeOK'  BY <1>2, <1>3, <1>4, <1>5, <1>10 DEF KnownTypeOK
<1>12. Chained(l, table'[l], beast')  BY <1>3, <1>9, ClearedTable DEF Chained
<1>13. "free" # "game"  OBVIOUS
<1>14. LinkInv(l, table'[l], state'[l], view'[l], client'[l], beast')
  BY <1>2, <1>3, <1>4, <1>5, <1>12, <1>13, ClearedTable, Zenon DEF LinkInv
<1>15. \A b \in Beast : /\ beast'[b].look = beast[b].look
                        /\ \A m \in Link \ {l}, i \in Entry :
                              <<m, i>> \in beast'[b].chain <=> <<m, i>> \in beast[b].chain
  BY <1>9
<1> QED  BY <1>2, <1>3, <1>4, <1>5, <1>11, <1>14, <1>15, OneLink

LEMMA BornStep ==
    ASSUME KnownInv, NEW b \in Beast, Born(b)
    PROVE  KnownInv'
<1>1. KnownTypeOK  BY DEF KnownInv
<1> DEFINE n == [beast[b] EXCEPT !.alive = TRUE]
<1>2. beast[b] \in BeastRecord  BY <1>1 DEF KnownTypeOK
<1>3. n \in BeastRecord /\ n.look = beast[b].look /\ n.chain = beast[b].chain  BY <1>2 DEF BeastRecord
<1>4. beast' = [beast EXCEPT ![b] = n]  BY DEF Born
<1> HIDE DEF n
<1>5. /\ beast' \in [Beast -> BeastRecord]
      /\ \A c \in Beast : beast'[c].look = beast[c].look /\ beast'[c].chain = beast[c].chain
  BY <1>1, <1>3, <1>4 DEF KnownTypeOK
<1>6. table' = table /\ state' = state /\ view' = view /\ client' = client  BY DEF Born
<1>7. KnownTypeOK'  BY <1>1, <1>5, <1>6 DEF KnownTypeOK
<1>8. ASSUME NEW l \in Link PROVE LinkInv(l, table'[l], state'[l], view'[l], client'[l], beast')
  <2>1. LinkInv(l, table[l], state[l], view[l], client[l], beast)  BY DEF KnownInv
  <2>2. table[l] \in [Entry -> EntryRecord]  BY <1>1 DEF KnownTypeOK
  <2>3. LinkInv(l, table[l], state[l], view[l], client[l], beast')  BY <1>5, <2>1, <2>2, OtherLink
  <2> QED  BY <1>6, <2>3
<1> QED  BY <1>7, <1>8 DEF KnownInv

\* ~TCreature: its entries become free, and keep its number.
LEMMA DeleteStep ==
    ASSUME KnownInv, NEW b \in Beast, DeleteCreature(b)
    PROVE  KnownInv'
<1>1. KnownTypeOK  BY DEF KnownInv
<1> DEFINE n == [beast[b] EXCEPT !.alive = FALSE, !.chain = {}]
<1>2. beast[b] \in BeastRecord  BY <1>1 DEF KnownTypeOK
<1>3. n \in BeastRecord /\ n.look = beast[b].look /\ n.chain = {}  BY <1>2 DEF BeastRecord
<1>4. beast' = [beast EXCEPT ![b] = n]  BY DEF DeleteCreature
<1> HIDE DEF n
<1>5. /\ beast' \in [Beast -> BeastRecord]
      /\ \A c \in Beast : /\ beast'[c].look = beast[c].look
                          /\ beast'[c].chain = IF c = b THEN {} ELSE beast[c].chain
  BY <1>1, <1>3, <1>4 DEF KnownTypeOK
<1>6. /\ view' \in [Link -> SUBSET Beast] /\ state' = state /\ client' = client
      /\ \A l \in Link : view'[l] = view[l] \ {b}
  BY <1>1 DEF DeleteCreature, KnownTypeOK
<1> DEFINE freed(e) == [e EXCEPT !.State = "FREE"]
<1>7. \A e \in EntryRecord : /\ freed(e) \in EntryRecord
                             /\ freed(e).State = "FREE" /\ freed(e).CreatureID = e.CreatureID
  BY DEF EntryRecord
<1>8. table' = [l \in Link |-> [i \in Entry |->
                  IF <<l, i>> \in beast[b].chain THEN freed(table[l][i]) ELSE table[l][i]]]
  BY DEF DeleteCreature
<1> HIDE DEF freed
<1>9. table' \in [Link -> [Entry -> EntryRecord]]
  <2>1. \A l \in Link, i \in Entry : table[l][i] \in EntryRecord  BY <1>1 DEF KnownTypeOK
  <2>2. \A l \in Link, i \in Entry :
           (IF <<l, i>> \in beast[b].chain THEN freed(table[l][i]) ELSE table[l][i]) \in EntryRecord
    BY <1>7, <2>1
  <2> QED  BY <1>8, <2>2
<1>10. KnownTypeOK'  BY <1>1, <1>5, <1>6, <1>9 DEF KnownTypeOK
<1>11. ASSUME NEW l \in Link PROVE LinkInv(l, table'[l], state'[l], view'[l], client'[l], beast')
  <2>1. LinkInv(l, table[l], state[l], view[l], client[l], beast)  BY DEF KnownInv
  <2>2. ASSUME NEW i \in Entry
        PROVE  /\ table'[l][i].CreatureID = table[l][i].CreatureID
               /\ table'[l][i].State = IF table[l][i].CreatureID = b THEN "FREE" ELSE table[l][i].State
               /\ <<l, i>> \notin beast[b].chain => table'[l][i] = table[l][i]
    <3>1. table[l][i] \in EntryRecord  BY <1>1 DEF KnownTypeOK
    <3>2. table'[l][i] = IF <<l, i>> \in beast[b].chain THEN freed(table[l][i]) ELSE table[l][i]  BY <1>8
    <3>3. <<l, i>> \in beast[b].chain <=> table[l][i].CreatureID = b /\ table[l][i].State # "FREE"
      BY <2>1 DEF LinkInv, Chained
    <3> QED  BY <1>7, <3>1, <3>2, <3>3
  <2>3. OneEntry(table'[l])
    <3>1. OneEntry(table[l])  BY <2>1 DEF LinkInv
    <3>2. \A i \in Entry : /\ table'[l][i].CreatureID = table[l][i].CreatureID
                           /\ table'[l][i].State # "FREE" => table[l][i].State # "FREE"
      BY <2>2
    <3> QED  BY <3>1, <3>2 DEF OneEntry
  <2>4. Chained(l, table'[l], beast')  BY <1>5, <2>1, <2>2 DEF LinkInv, Chained
  <2>5. ASSUME state[l] = "game" PROVE Agree(table'[l], view'[l], client[l], beast')
    <3>1. Agree(table[l], view[l], client[l], beast)  BY <2>1, <2>5 DEF LinkInv
    <3>2. ASSUME NEW i \in Entry PROVE Tells(table'[l][i], view'[l], client[l], beast')
      <4>0. Tells(table[l][i], view[l], client[l], beast)  BY <3>1 DEF Agree
      <4>1. table'[l][i].State = "UPTODATE" => table[l][i].CreatureID \in Beast
        <5>1. table[l][i] \in EntryRecord  BY <1>1 DEF KnownTypeOK
        <5> QED  BY <2>1, <2>2, <5>1 DEF LinkInv, OneEntry, EntryRecord
      <4> DEFINE c == table[l][i].CreatureID
      <4> SUFFICES ASSUME c \notin client[l].missed
                   PROVE  /\ c # NoBeast => c \in DOMAIN client[l].knows
                          /\ c \in view'[l] => table'[l][i].State = "UPTODATE"
                          /\ table'[l][i].State = "UPTODATE" => client[l].knows[c] = beast'[c].look
        BY <2>2 DEF Tells
      <4>2. c # NoBeast => c \in DOMAIN client[l].knows  BY <4>0 DEF Tells
      <4>3. c \in view'[l] => table'[l][i].State = "UPTODATE"  BY <1>6, <2>2, <4>0 DEF Tells
      <4>4. table'[l][i].State = "UPTODATE" => table[l][i].State = "UPTODATE"  BY <2>2
      <4>5. table'[l][i].State = "UPTODATE" => client[l].knows[c] = beast'[c].look
        BY <1>5, <4>0, <4>1, <4>4 DEF Tells
      <4> QED  BY <4>2, <4>3, <4>5
    <3> QED  BY <1>6, <3>1, <3>2 DEF Agree
  <2>6. ASSUME state[l] = "free" PROVE table'[l] = Cleared /\ view'[l] = {}
    <3>1. table[l] = Cleared /\ view[l] = {}  BY <2>1, <2>6 DEF LinkInv
    <3>2. \A i \in Entry : <<l, i>> \notin beast[b].chain  BY <2>1, <3>1, ClearedTable DEF LinkInv, Chained
    <3>3. \A i \in Entry : table'[l][i] = table[l][i]  BY <2>2, <3>2
    <3>4. table'[l] \in [Entry -> EntryRecord] /\ table[l] \in [Entry -> EntryRecord]
      BY <1>1, <1>9 DEF KnownTypeOK
    <3> QED  BY <1>6, <3>1, <3>3, <3>4
  <2> QED  BY <1>6, <2>1, <2>3, <2>4, <2>5, <2>6 DEF LinkInv
<1> QED  BY <1>10, <1>11 DEF KnownInv

\* announce_changed_creature: who sees the creature is told, and for the others
\* that know it the entry becomes outdated.
LEMMA ChangeStep ==
    ASSUME KnownInv, NEW b \in Beast, Change(b)
    PROVE  KnownInv'
<1>1. KnownTypeOK  BY DEF KnownInv
<1>2. PICK look : look = ~beast[b].look  OBVIOUS
<1> DEFINE told(l) == \E i \in Entry : <<l, i>> \in beast[b].chain /\ state[l] = "game" /\ table[l][i].State # "OUTDATED"
           n == [beast[b] EXCEPT !.look = look]
           outdated(e) == [e EXCEPT !.State = "OUTDATED"]
<1>3. /\ beast' = [beast EXCEPT ![b] = n]
      /\ \E arrives \in SUBSET {l \in Link : told(l) /\ b \in view[l]} :
            client' = [l \in Link |-> IF l \in arrives THEN Update(client, l, b, look)[l]
                                     ELSE IF told(l) /\ b \in view[l] THEN Miss(client, l, b)[l]
                                     ELSE client[l]]
      /\ table' = [l \in Link |-> [i \in Entry |->
                      IF <<l, i>> \in beast[b].chain /\ told(l) /\ b \notin view[l]
                      THEN outdated(table[l][i]) ELSE table[l][i]]]
      /\ state' = state /\ view' = view
  BY <1>2 DEF Change
<1>4. beast[b] \in BeastRecord  BY <1>1 DEF KnownTypeOK
<1>5. look \in BOOLEAN  BY <1>2
<1>6. n \in BeastRecord /\ n.look = look /\ n.chain = beast[b].chain  BY <1>4, <1>5 DEF BeastRecord
<1>7. \A e \in EntryRecord : /\ outdated(e) \in EntryRecord
                             /\ outdated(e).State = "OUTDATED" /\ outdated(e).CreatureID = e.CreatureID
  BY DEF EntryRecord
<1> HIDE DEF n, outdated
<1>8. /\ beast' \in [Beast -> BeastRecord]
      /\ \A c \in Beast : /\ beast'[c].look = IF c = b THEN look ELSE beast[c].look
                          /\ beast'[c].chain = beast[c].chain
  BY <1>1, <1>3, <1>6 DEF KnownTypeOK
<1>9. ASSUME NEW l \in Link, told(l)
      PROVE  \E i \in Entry : table[l][i].CreatureID = b /\ table[l][i].State # "FREE" /\ state[l] = "game"
  <2>1. LinkInv(l, table[l], state[l], view[l], client[l], beast)  BY DEF KnownInv
  <2> QED  BY <1>9, <2>1 DEF LinkInv, Chained
<1>10. \A l \in Link, i \in Entry :
          state[l] = "game" /\ table[l][i].CreatureID = b /\ table[l][i].State = "UPTODATE" => told(l)
  <2> SUFFICES ASSUME NEW l \in Link, NEW i \in Entry,
                      state[l] = "game", table[l][i].CreatureID = b, table[l][i].State = "UPTODATE"
               PROVE  told(l)
    OBVIOUS
  <2>1. LinkInv(l, table[l], state[l], view[l], client[l], beast)  BY DEF KnownInv
  <2>2. <<l, i>> \in beast[b].chain  BY <2>1 DEF LinkInv, Chained
  <2> QED  BY <2>2
<1> HIDE DEF told
<1>11. \A l \in Link : told(l) => (b \in DOMAIN client[l].knows \/ b \in client[l].missed) /\ state[l] = "game"
  <2> SUFFICES ASSUME NEW l \in Link, told(l)
               PROVE  (b \in DOMAIN client[l].knows \/ b \in client[l].missed) /\ state[l] = "game"
    OBVIOUS
  <2>1. LinkInv(l, table[l], state[l], view[l], client[l], beast)  BY DEF KnownInv
  <2>2. PICK i \in Entry : table[l][i].CreatureID = b /\ state[l] = "game"  BY <1>9
  <2>3. Tells(table[l][i], view[l], client[l], beast)  BY <2>1, <2>2 DEF LinkInv, Agree
  <2> QED  BY <2>2, <2>3, KnownAssumption DEF Tells
<1>a. PICK arrives \in SUBSET {l \in Link : told(l) /\ b \in view[l]} :
        client' = [l \in Link |-> IF l \in arrives THEN Update(client, l, b, look)[l]
                                 ELSE IF told(l) /\ b \in view[l] THEN Miss(client, l, b)[l]
                                 ELSE client[l]]
  BY <1>3
<1>b. client \in [Link -> ClientRecord]  BY <1>1 DEF KnownTypeOK
<1>12. ASSUME NEW l \in Link
       PROVE  /\ client'[l] \in ClientRecord
              /\ client'[l].lost = client[l].lost
              /\ client[l].missed \subseteq client'[l].missed
              /\ DOMAIN client'[l].knows = DOMAIN client[l].knows
              /\ \A c \in DOMAIN client[l].knows : c # b => client'[l].knows[c] = client[l].knows[c]
              /\ ~(told(l) /\ b \in view[l]) => client'[l] = client[l]
              /\ told(l) /\ b \in view[l] /\ b \in DOMAIN client[l].knows =>
                    client'[l].knows[b] = look \/ b \in client'[l].missed
  <2>1. CASE l \in arrives
    <3>1. client'[l] = Update(client, l, b, look)[l] /\ told(l) /\ b \in view[l]  BY <1>a, <2>1
    <3> QED  BY <1>b, <1>5, <1>11, <3>1, UpdateKnown
  <2>2. CASE l \notin arrives /\ told(l) /\ b \in view[l]
    <3>1. client'[l] = Miss(client, l, b)[l]  BY <1>a, <2>2
    <3> QED  BY <1>b, <2>2, <3>1, MissStep
  <2>3. CASE l \notin arrives /\ ~(told(l) /\ b \in view[l])
    <3>1. client'[l] = client[l]  BY <1>a, <2>3
    <3> QED  BY <1>b, <2>3, <3>1
  <2> QED  BY <2>1, <2>2, <2>3
<1>13. client' \in [Link -> ClientRecord]  BY <1>a, <1>12
<1>14. table' \in [Link -> [Entry -> EntryRecord]]
  <2>1. \A l \in Link, i \in Entry : table[l][i] \in EntryRecord  BY <1>1 DEF KnownTypeOK
  <2>2. \A l \in Link, i \in Entry :
           (IF <<l, i>> \in beast[b].chain /\ told(l) /\ b \notin view[l]
            THEN outdated(table[l][i]) ELSE table[l][i]) \in EntryRecord
    BY <1>7, <2>1
  <2> QED  BY <1>3, <2>2
<1>15. KnownTypeOK'  BY <1>1, <1>3, <1>8, <1>13, <1>14 DEF KnownTypeOK
<1>16. ASSUME NEW l \in Link PROVE LinkInv(l, table'[l], state'[l], view'[l], client'[l], beast')
  <2>1. LinkInv(l, table[l], state[l], view[l], client[l], beast)  BY DEF KnownInv
  <2>2. ASSUME NEW i \in Entry
        PROVE  /\ table'[l][i].CreatureID = table[l][i].CreatureID
               /\ table'[l][i].State = IF /\ table[l][i].CreatureID = b /\ table[l][i].State # "FREE"
                                          /\ told(l) /\ b \notin view[l]
                                       THEN "OUTDATED" ELSE table[l][i].State
               /\ ~told(l) => table'[l][i] = table[l][i]
    <3>1. table[l][i] \in EntryRecord  BY <1>1 DEF KnownTypeOK
    <3>2. table'[l][i] = IF <<l, i>> \in beast[b].chain /\ told(l) /\ b \notin view[l]
                         THEN outdated(table[l][i]) ELSE table[l][i]
      BY <1>3
    <3>3. <<l, i>> \in beast[b].chain <=> table[l][i].CreatureID = b /\ table[l][i].State # "FREE"
      BY <2>1 DEF LinkInv, Chained
    <3> QED  BY <1>7, <3>1, <3>2, <3>3
  <2>3. OneEntry(table'[l])  BY <2>1, <2>2 DEF LinkInv, OneEntry
  <2>4. Chained(l, table'[l], beast')  BY <1>8, <2>1, <2>2 DEF LinkInv, Chained
  <2>5. ASSUME state[l] = "game" PROVE Agree(table'[l], view[l], client'[l], beast')
    <3>1. Agree(table[l], view[l], client[l], beast)  BY <2>1, <2>5 DEF LinkInv
    <3>2. ASSUME NEW i \in Entry PROVE Tells(table'[l][i], view[l], client'[l], beast')
      <4> DEFINE c == table[l][i].CreatureID
      <4> SUFFICES ASSUME c \notin client'[l].missed
                   PROVE  /\ c # NoBeast => c \in DOMAIN client'[l].knows
                          /\ c \in view[l] => table'[l][i].State = "UPTODATE"
                          /\ table'[l][i].State = "UPTODATE" => client'[l].knows[c] = beast'[c].look
        BY <2>2 DEF Tells
      <4>0. c \notin client[l].missed /\ Tells(table[l][i], view[l], client[l], beast)
        BY <1>12, <3>1 DEF Agree
      <4>1. c # NoBeast => c \in DOMAIN client'[l].knows  BY <1>12, <4>0 DEF Tells
      <4>2. c \in view[l] => table'[l][i].State = "UPTODATE"  BY <2>2, <4>0 DEF Tells
      <4>3. ASSUME table'[l][i].State = "UPTODATE" PROVE client'[l].knows[c] = beast'[c].look
        <5>1. table[l][i].State = "UPTODATE" /\ (c = b => (told(l) => b \in view[l]))  BY <2>2, <4>3
        <5>2. c # NoBeast  BY <2>1, <5>1 DEF LinkInv, OneEntry
        <5>3. table[l][i] \in EntryRecord  BY <1>1 DEF KnownTypeOK
        <5>4. c \in Beast  BY <5>2, <5>3 DEF EntryRecord
        <5>5. client[l].knows[c] = beast[c].look /\ c \in DOMAIN client[l].knows
          BY <4>0, <5>1, <5>2 DEF Tells
        <5>6. c = b => told(l) /\ b \in view[l]  BY <1>10, <2>5, <5>1
        <5> QED  BY <1>8, <1>12, <5>4, <5>5, <5>6
      <4> QED  BY <4>1, <4>2, <4>3
    <3> QED  BY <1>12, <3>1, <3>2 DEF Agree
  <2>6. ASSUME state[l] = "free" PROVE table'[l] = Cleared /\ view[l] = {}
    <3>1. table[l] = Cleared /\ view[l] = {} /\ ~told(l)  BY <1>11, <2>1, <2>6 DEF LinkInv
    <3>2. \A i \in Entry : table'[l][i] = table[l][i]  BY <2>2, <3>1
    <3>3. table'[l] \in [Entry -> EntryRecord] /\ table[l] \in [Entry -> EntryRecord]
      BY <1>1, <1>14 DEF KnownTypeOK
    <3> QED  BY <3>1, <3>2, <3>3
  <2> QED  BY <1>3, <1>12, <2>1, <2>3, <2>4, <2>5, <2>6 DEF LinkInv
<1> QED  BY <1>15, <1>16 DEF KnownInv

LEMMA NextKnownInv == KnownInv /\ [KnownNext]_knownVars => KnownInv'
<1> SUFFICES ASSUME KnownInv, [KnownNext]_knownVars PROVE KnownInv'  OBVIOUS
<1>1. ASSUME NEW l \in Link, NEW b \in Beast, Appear(l, b) PROVE KnownInv'
  BY <1>1, AppearMissed, AppearKnown, AppearNew DEF Appear
<1>2. CASE UNCHANGED knownVars
  BY <1>2 DEF knownVars, KnownInv, KnownTypeOK, LinkInv, OneEntry, Chained, Agree, Tells
<1> QED  BY <1>1, <1>2, VanishStep, LogoutStep, JoinStep, DisconnectStep, BornStep, DeleteStep, ChangeStep
         DEF KnownNext

\* What the table of known creatures and the client say of each other, for any
\* number of connections and creatures, any size of the table and any packets
\* lost: but for the creatures that a lost packet was about, no command names one
\* that the client does not know, and who is in view is shown as it is
\* (new_known_creature, finish_send_data, announce_changed_creature, ~TCreature).
THEOREM ClientsKnow == KnownSpec => []ClientKnows
<1>1. KnownInv => ClientKnows
  <2> SUFFICES ASSUME KnownInv, NEW l \in Link
               PROVE  /\ ~client[l].lost
                      /\ state[l] = "game" => \A b \in view[l] \ client[l].missed :
                            /\ b \in DOMAIN client[l].knows
                            /\ Entries(l, b) # {} => client[l].knows[b] = beast[b].look
                      /\ Chained(l, table[l], beast)
    BY DEF ClientKnows, Chained
  <2>1. LinkInv(l, table[l], state[l], view[l], client[l], beast)  BY DEF KnownInv
  <2>2. ASSUME state[l] = "game", NEW b \in view[l] \ client[l].missed
        PROVE  b \in DOMAIN client[l].knows /\ (Entries(l, b) # {} => client[l].knows[b] = beast[b].look)
    BY <2>1, <2>2 DEF LinkInv, Agree, Tells, Entries
  <2> QED  BY <2>1, <2>2 DEF LinkInv
<1> QED  BY <1>1, InitKnownInv, NextKnownInv, PTL DEF KnownSpec

(***************************************************************************)
(* Spells, for any prices.  A spell is settled if it has failed and left   *)
(* the player as it was, but for its exhaustion, or has taken its price.   *)
(***************************************************************************)

Traces == {"damage", "field", "challenge", "heal", "mana", "speed", "shield", "cure", "light",
           "found", "outfit", "seen", "moved", "goods", "emptied", "skills"}

SceneRecord ==
    [mana : Nat, soul : Nat, unlimited : BOOLEAN, wait : Nat,
     right : {"blank", "filled"}, left : {"blank", "filled"},
     charges : Nat, lies : {"bag", "target"},
     servants : Nat, target : {"nobody", "MONSTER", "PLAYER"}, corpse : BOOLEAN,
     effects : SUBSET Traces]

PriceRecord == [mana : Nat, soul : Nat]

\* The price in mana or soul points that a player pays.
Price(s, n) == IF s.unlimited THEN 0 ELSE n

\* What no payment touches.
SameBut(s, t) ==
    /\ t.unlimited = s.unlimited /\ t.right = s.right /\ t.left = s.left
    /\ t.charges = s.charges /\ t.lies = s.lies /\ t.servants = s.servants
    /\ t.target = s.target /\ t.corpse = s.corpse /\ t.effects = s.effects

\* The price has been paid and nothing else been done.
PaidFor(s, t, mana, soul) ==
    /\ t \in SceneRecord /\ SameBut(s, t)
    /\ t.mana = s.mana - Price(s, mana) /\ t.soul = s.soul - Price(s, soul)

\* What the effect of a spell does not touch.
Keeps(s, t) ==
    /\ t \in SceneRecord
    /\ t.unlimited = s.unlimited /\ t.lies = s.lies
    /\ t.mana = s.mana /\ t.soul = s.soul /\ t.charges = s.charges

\* A spell has taken its price, and the rune only if it lay in the way, or has
\* left everything alone.
Settled(s, r, mana, soul) ==
    /\ r.s \in SceneRecord
    /\ r.s.unlimited = s.unlimited /\ r.s.lies = s.lies
    /\ r.result \in {"done", "failed"}
    /\ r.result = "failed" => SameBut(s, r.s) /\ r.s.mana = s.mana /\ r.s.soul = s.soul
    /\ r.result = "done" =>
          /\ r.s.mana = s.mana - Price(s, mana) \/ "mana" \in r.s.effects
          /\ r.s.soul = s.soul - Price(s, soul)
          /\ r.s.charges = s.charges \/ (s.lies = "target" /\ r.s.charges = 0)

LEMMA Exhausted ==
    ASSUME NEW s \in SceneRecord, NEW delay \in Nat
    PROVE  LET t == Exhaust(s, delay)
           IN t \in SceneRecord /\ SameBut(s, t) /\ t.mana = s.mana /\ t.soul = s.soul
<1> DEFINE d == IF s.wait < delay THEN delay ELSE s.wait
<1>1. d \in Nat  BY DEF SceneRecord
<1>2. Exhaust(s, delay) = [s EXCEPT !.wait = d]  BY DEF Exhaust
<1> HIDE DEF d
<1> QED  BY <1>1, <1>2 DEF SceneRecord, SameBut

LEMMA Pays ==
    ASSUME NEW s \in SceneRecord, NEW mana \in Nat, NEW soul \in Nat, NEW delay \in Nat
    PROVE  LET r == CheckMana(s, mana, soul, delay)
           IN \/ r.result = "done" /\ PaidFor(s, r.s, mana, soul)
              \/ r.result = "failed" /\ r.s = s
<1> DEFINE x == s.mana - mana
           y == s.soul - soul
           m == [[s EXCEPT !.mana = x] EXCEPT !.soul = y]
<1>1. ~(mana < 0)  OBVIOUS
<1>2. CASE ~s.unlimited /\ (s.mana < mana \/ s.soul < soul)
  BY <1>1, <1>2 DEF CheckMana, Throw
<1>3. CASE s.unlimited
  <2>1. CheckMana(s, mana, soul, delay) = Done(Exhaust(s, delay))  BY <1>1, <1>3 DEF CheckMana
  <2>2. s.mana - 0 = s.mana /\ s.soul - 0 = s.soul  BY DEF SceneRecord
  <2>3. PaidFor(s, Exhaust(s, delay), mana, soul)  BY <1>3, <2>2, Exhausted DEF PaidFor, Price
  <2> QED  BY <2>1, <2>3 DEF Done
<1>4. CASE ~s.unlimited /\ ~(s.mana < mana \/ s.soul < soul)
  <2>1. x \in Nat /\ y \in Nat  BY <1>4 DEF SceneRecord
  <2>2. [s EXCEPT !.mana = s.mana - mana, !.soul = s.soul - soul] = m  BY DEF SceneRecord
  <2>3. CheckMana(s, mana, soul, delay) = Done(Exhaust(m, delay))
    <3>1. CheckMana(s, mana, soul, delay)
            = Done(Exhaust([s EXCEPT !.mana = s.mana - mana, !.soul = s.soul - soul], delay))
      BY <1>1, <1>4 DEF CheckMana
    <3> HIDE DEF m
    <3> QED  BY <3>1, <2>2
  <2> HIDE DEF x, y
  <2>4. m \in SceneRecord /\ m.mana = x /\ m.soul = y  BY <2>1 DEF SceneRecord
  <2>5. SameBut(s, m)  BY <2>1 DEF SceneRecord, SameBut
  <2> HIDE DEF m
  <2>6. SameBut(s, Exhaust(m, delay))  BY <2>4, <2>5, Exhausted DEF SameBut
  <2> QED  BY <1>4, <2>3, <2>4, <2>6, Exhausted DEF Done, PaidFor, Price, x, y
<1> QED  BY <1>2, <1>3, <1>4

\* What a spell does when it has paid.
LEMMA EndsWell ==
    ASSUME NEW s \in SceneRecord, NEW t, NEW u, NEW mana \in Nat, NEW soul \in Nat,
           PaidFor(s, t, mana, soul), Keeps(t, u)
    PROVE  Settled(s, Done(u), mana, soul)
BY DEF Settled, Done, PaidFor, Keeps, SameBut

LEMMA EndsBadly ==
    ASSUME NEW s \in SceneRecord, NEW mana \in Nat, NEW soul \in Nat
    PROVE  Settled(s, Throw(s), mana, soul)
BY DEF Settled, Throw, SameBut

LEMMA NotPaid ==
    ASSUME NEW s \in SceneRecord, NEW r, NEW mana \in Nat, NEW soul \in Nat, r.result = "failed", r.s = s
    PROVE  Settled(s, r, mana, soul)
BY DEF Settled, SameBut

LEMMA EffectKeeps ==
    ASSUME NEW t \in SceneRecord, NEW e \in Traces
    PROVE  Keeps(t, Effect(t, e)) /\ Effect(t, e).target = t.target
<1>1. t.effects \cup {e} \in SUBSET Traces  BY DEF SceneRecord
<1> QED  BY <1>1 DEF Effect, Keeps, SceneRecord


LEMMA StrikeKeeps ==
    ASSUME NEW t \in SceneRecord
    PROVE  \E u : Strike(t) = Done(u) /\ Keeps(t, u)
<1> DEFINE e == Effect(t, "damage")
           u == [[e EXCEPT !.target = "nobody"] EXCEPT !.corpse = TRUE]
<1>1. Keeps(t, e)  BY EffectKeeps DEF Traces
<1>2. Strike(t) = Done(e) \/ Strike(t) = Done(u)  BY DEF Strike
<1> HIDE DEF e
<1>3. Keeps(e, u)  BY <1>1 DEF Keeps, SceneRecord
<1> QED  BY <1>1, <1>2, <1>3 DEF Keeps

\* The changes that raising, summoning and enchanting make.
LEMMA ServantKeeps ==
    ASSUME NEW t \in SceneRecord
    PROVE  /\ Keeps(t, [t EXCEPT !.servants = @ + 1])
           /\ Keeps(t, [t EXCEPT !.corpse = FALSE, !.servants = @ + 1])
           /\ Keeps(t, [t EXCEPT !.servants = @ + 1, !.target = "nobody"])
<1>1. t.servants + 1 \in Nat  BY DEF SceneRecord
<1>2. Keeps(t, [t EXCEPT !.servants = t.servants + 1])  BY <1>1 DEF Keeps, SceneRecord
<1>3. Keeps(t, [t EXCEPT !.corpse = FALSE, !.servants = t.servants + 1])  BY <1>1 DEF Keeps, SceneRecord
<1>4. Keeps(t, [t EXCEPT !.servants = t.servants + 1, !.target = "nobody"])  BY <1>1 DEF Keeps, SceneRecord
<1> QED  BY <1>2, <1>3, <1>4

LEMMA EffectSpells ==
    ASSUME NEW s \in SceneRecord, NEW w, NEW p \in PriceRecord
    PROVE  /\ Settled(s, heal(s, w, p), p.mana, p.soul)
           /\ Settled(s, mass_heal(s, w, p), p.mana, p.soul)
           /\ Settled(s, heal_friend(s, w, p), p.mana, p.soul)
           /\ Settled(s, magic_go_strength(s, w, p), p.mana, p.soul)
           /\ Settled(s, shielding(s, w, p), p.mana, p.soul)
           /\ Settled(s, negate_poison(s, w, p), p.mana, p.soul)
           /\ Settled(s, enlight(s, w, p), p.mana, p.soul)
           /\ Settled(s, find_person(s, w, p), p.mana, p.soul)
           /\ Settled(s, challenge(s, w, p), p.mana, p.soul)
           /\ Settled(s, invisibility(s, w, p), p.mana, p.soul)
           /\ Settled(s, cancel_invisibility(s, w, p), p.mana, p.soul)
           /\ Settled(s, creature_illusion(s, w, p), p.mana, p.soul)
           /\ Settled(s, object_illusion(s, w, p), p.mana, p.soul)
           /\ Settled(s, magic_rope(s, w, p), p.mana, p.soul)
           /\ Settled(s, magic_climbing(s, w, p), p.mana, p.soul)
           /\ Settled(s, create_food(s, w, p), p.mana, p.soul)
           /\ Settled(s, create_arrows(s, w, p), p.mana, p.soul)
           /\ Settled(s, enchant_object(s, w, p), p.mana, p.soul)
           /\ Settled(s, delete_field(s, w, p), p.mana, p.soul)
<1>1. PICK r : r = CheckMana(s, p.mana, p.soul, 1)  OBVIOUS
<1>2. \/ r.result = "done" /\ PaidFor(s, r.s, p.mana, p.soul)
      \/ r.result = "failed" /\ r.s = s
  BY <1>1, Pays DEF PriceRecord
<1>3. r.result = "failed" => Settled(s, r, p.mana, p.soul)  BY <1>2, NotPaid DEF PriceRecord
<1>4. r.result = "done" => \A u : Keeps(r.s, u) => Settled(s, Done(u), p.mana, p.soul)
  BY <1>2, EndsWell DEF PriceRecord
<1>5. Settled(s, Throw(s), p.mana, p.soul)  BY EndsBadly DEF PriceRecord
<1>6. r.result = "done" => \A e \in Traces : Settled(s, Done(Effect(r.s, e)), p.mana, p.soul)
  BY <1>2, <1>4, EffectKeeps DEF PaidFor
<1> USE <1>1, <1>2, <1>3, <1>4, <1>5, <1>6
<1>7. Settled(s, heal(s, w, p), p.mana, p.soul)  BY DEF heal, Spell, Traces
<1>8. Settled(s, mass_heal(s, w, p), p.mana, p.soul)  BY DEF mass_heal, Spell, Traces
<1>9. Settled(s, heal_friend(s, w, p), p.mana, p.soul)  BY DEF heal_friend, Spell, Traces
<1>10. Settled(s, magic_go_strength(s, w, p), p.mana, p.soul)  BY DEF magic_go_strength, Spell, Traces
<1>11. Settled(s, shielding(s, w, p), p.mana, p.soul)  BY DEF shielding, Spell, Traces
<1>12. Settled(s, negate_poison(s, w, p), p.mana, p.soul)  BY DEF negate_poison, Spell, Traces
<1>13. Settled(s, enlight(s, w, p), p.mana, p.soul)  BY DEF enlight, Spell, Traces
<1>14. Settled(s, find_person(s, w, p), p.mana, p.soul)  BY DEF find_person, Spell, Traces
<1>15. Settled(s, challenge(s, w, p), p.mana, p.soul)  BY DEF challenge, Spell, Traces
<1>16. Settled(s, invisibility(s, w, p), p.mana, p.soul)  BY DEF invisibility, Spell, Traces
<1>17. Settled(s, cancel_invisibility(s, w, p), p.mana, p.soul)  BY DEF cancel_invisibility, Spell, Traces
<1>18. Settled(s, creature_illusion(s, w, p), p.mana, p.soul)  BY DEF creature_illusion, Spell, Traces
<1>19. Settled(s, object_illusion(s, w, p), p.mana, p.soul)  BY DEF object_illusion, Spell, Traces
<1>20. Settled(s, magic_rope(s, w, p), p.mana, p.soul)  BY DEF magic_rope, Spell, Traces
<1>21. Settled(s, magic_climbing(s, w, p), p.mana, p.soul)  BY DEF magic_climbing, Spell, Traces
<1>22. Settled(s, create_food(s, w, p), p.mana, p.soul)  BY DEF create_food, Spell, Traces
<1>23. Settled(s, create_arrows(s, w, p), p.mana, p.soul)  BY DEF create_arrows, Spell, Traces
<1>24. Settled(s, enchant_object(s, w, p), p.mana, p.soul)  BY DEF enchant_object, Spell, Traces
<1>25. Settled(s, delete_field(s, w, p), p.mana, p.soul)  BY DEF delete_field, Spell, Traces
<1> QED  BY <1>7, <1>8, <1>9, <1>10, <1>11, <1>12, <1>13, <1>14, <1>15, <1>16, <1>17, <1>18, <1>19, <1>20, <1>21, <1>22, <1>23, <1>24, <1>25

LEMMA RefreshSpell ==
    ASSUME NEW s \in SceneRecord, NEW w, NEW p \in PriceRecord
    PROVE  Settled(s, refresh_mana(s, w, p), p.mana, p.soul)
<1>1. PICK r : r = CheckMana(s, p.mana, p.soul, 1)  OBVIOUS
<1>2. \/ r.result = "done" /\ PaidFor(s, r.s, p.mana, p.soul)
      \/ r.result = "failed" /\ r.s = s
  BY <1>1, Pays DEF PriceRecord
<1>3. r.result = "failed" => Settled(s, r, p.mana, p.soul)  BY <1>2, NotPaid DEF PriceRecord
<1>4. r.result = "done" => \A u : Keeps(r.s, u) => Settled(s, Done(u), p.mana, p.soul)
  BY <1>2, EndsWell DEF PriceRecord
<1>5. Settled(s, Throw(s), p.mana, p.soul)  BY EndsBadly DEF PriceRecord
<1>6. r.result = "done" => Settled(s, Done([Effect(r.s, "mana") EXCEPT !.mana = MaxMagic]), p.mana, p.soul)
  <2> SUFFICES ASSUME r.result = "done"
               PROVE  Settled(s, Done([Effect(r.s, "mana") EXCEPT !.mana = MaxMagic]), p.mana, p.soul)
    OBVIOUS
  <2> DEFINE e == Effect(r.s, "mana")
             u == [e EXCEPT !.mana = MaxMagic]
  <2>1. Keeps(r.s, e) /\ "mana" \in e.effects
    BY <1>2, EffectKeeps DEF PaidFor, Traces, Effect, SceneRecord
  <2> HIDE DEF e
  <2>2. u \in SceneRecord /\ u.effects = e.effects /\ u.soul = e.soul /\ u.charges = e.charges
        /\ u.unlimited = e.unlimited /\ u.lies = e.lies
    BY <2>1, MagicAssumption DEF Keeps, SceneRecord
  <2> HIDE DEF u
  <2>3. Settled(s, Done(u), p.mana, p.soul)
    BY <1>2, <2>1, <2>2 DEF Settled, Done, PaidFor, Keeps, SameBut
  <2> QED  BY <2>3 DEF e, u
<1> QED  BY <1>1, <1>2, <1>3, <1>5, <1>6 DEF refresh_mana, Spell

LEMMA CleanupSpell ==
    ASSUME NEW s \in SceneRecord, NEW w, NEW p \in PriceRecord
    PROVE  Settled(s, cleanup_field(s, w, p), p.mana, p.soul)
<1>1. PICK r : r = CheckMana(s, p.mana, p.soul, 1)  OBVIOUS
<1>2. \/ r.result = "done" /\ PaidFor(s, r.s, p.mana, p.soul)
      \/ r.result = "failed" /\ r.s = s
  BY <1>1, Pays DEF PriceRecord
<1>3. r.result = "failed" => Settled(s, r, p.mana, p.soul)  BY <1>2, NotPaid DEF PriceRecord
<1>4. r.result = "done" => \A u : Keeps(r.s, u) => Settled(s, Done(u), p.mana, p.soul)
  BY <1>2, EndsWell DEF PriceRecord
<1>5. Settled(s, Throw(s), p.mana, p.soul)  BY EndsBadly DEF PriceRecord
<1> DEFINE e == Effect(r.s, "field")
           c == IF r.s.lies = "target" THEN 0 ELSE e.charges
           u == [e EXCEPT !.corpse = FALSE, !.charges = c]
<1>6. ASSUME r.result = "done" PROVE Settled(s, Done(u), p.mana, p.soul)
  <2>1. Keeps(r.s, e)  BY <1>2, <1>6, EffectKeeps DEF PaidFor, Traces
  <2> HIDE DEF e
  <2>2. c \in Nat  BY <2>1 DEF Keeps, SceneRecord
  <2>3. c = e.charges \/ (r.s.lies = "target" /\ c = 0)  OBVIOUS
  <2> HIDE DEF c
  <2>4. u \in SceneRecord /\ u.mana = e.mana /\ u.soul = e.soul /\ u.charges = c
        /\ u.unlimited = e.unlimited /\ u.lies = e.lies
    BY <2>1, <2>2 DEF Keeps, SceneRecord
  <2> HIDE DEF u
  <2> QED  BY <1>2, <1>6, <2>1, <2>3, <2>4 DEF Settled, Done, PaidFor, Keeps, SameBut
<1>7. CASE w = "OUTOFRANGE"  BY <1>5, <1>7 DEF cleanup_field, Spell
<1>8. CASE w # "OUTOFRANGE" /\ r.result = "failed"  BY <1>1, <1>3, <1>8 DEF cleanup_field, Spell
<1>9. CASE w # "OUTOFRANGE" /\ r.result = "done"
  <2>1. cleanup_field(s, w, p) = Done(u)  BY <1>1, <1>9 DEF cleanup_field, Spell
  <2> QED  BY <1>6, <1>9, <2>1
<1> QED  BY <1>2, <1>7, <1>8, <1>9

LEMMA StrikingSpells ==
    ASSUME NEW s \in SceneRecord, NEW w, NEW p \in PriceRecord
    PROVE  /\ Settled(s, mass_combat(s, w, p), p.mana, p.soul)
           /\ Settled(s, angle_combat(s, w, p), p.mana, p.soul)
           /\ Settled(s, combat(s, w, p), p.mana, p.soul)
           /\ Settled(s, create_field(s, w, p), p.mana, p.soul)
           /\ Settled(s, CreateFieldAhead(s, w, p), p.mana, p.soul)
           /\ Settled(s, mass_create_field(s, w, p), p.mana, p.soul)
           /\ Settled(s, raise_dead(s, w, p), p.mana, p.soul)
           /\ Settled(s, mass_raise_dead(s, w, p), p.mana, p.soul)
<1>1. PICK r : r = CheckMana(s, p.mana, p.soul, 2)  OBVIOUS
<1>2. \/ r.result = "done" /\ PaidFor(s, r.s, p.mana, p.soul)
      \/ r.result = "failed" /\ r.s = s
  BY <1>1, Pays DEF PriceRecord
<1>3. r.result = "failed" => Settled(s, r, p.mana, p.soul)  BY <1>2, NotPaid DEF PriceRecord
<1>4. r.result = "done" => \A u : Keeps(r.s, u) => Settled(s, Done(u), p.mana, p.soul)
  BY <1>2, EndsWell DEF PriceRecord
<1>5. Settled(s, Throw(s), p.mana, p.soul)  BY EndsBadly DEF PriceRecord
<1>6. r.result = "done" => Settled(s, Strike(r.s), p.mana, p.soul)
  BY <1>2, <1>4, StrikeKeeps DEF PaidFor
<1>7. r.result = "done" => Settled(s, Done(Effect(r.s, "field")), p.mana, p.soul)
  BY <1>2, <1>4, EffectKeeps DEF PaidFor, Traces
<1>8. r.result = "done" =>
        /\ Settled(s, Done([r.s EXCEPT !.corpse = FALSE, !.servants = @ + 1]), p.mana, p.soul)
        /\ Settled(s, Done(r.s), p.mana, p.soul)
  BY <1>2, <1>4, ServantKeeps DEF PaidFor, Keeps
<1> USE <1>1, <1>2, <1>3, <1>5
<1>9. Settled(s, mass_combat(s, w, p), p.mana, p.soul)  BY <1>6 DEF mass_combat, Spell
<1>10. Settled(s, angle_combat(s, w, p), p.mana, p.soul)  BY <1>6 DEF angle_combat, Spell
<1>11. Settled(s, combat(s, w, p), p.mana, p.soul)  BY <1>6 DEF combat, Spell
<1>12. Settled(s, create_field(s, w, p), p.mana, p.soul)  BY <1>7 DEF create_field, Spell, PutField
<1>13. Settled(s, CreateFieldAhead(s, w, p), p.mana, p.soul)  BY <1>12 DEF CreateFieldAhead
<1>14. Settled(s, mass_create_field(s, w, p), p.mana, p.soul)  BY <1>7 DEF mass_create_field, Spell, PutField
<1>15. Settled(s, raise_dead(s, w, p), p.mana, p.soul)  BY <1>8 DEF raise_dead, Spell
<1>16. Settled(s, mass_raise_dead(s, w, p), p.mana, p.soul)  BY <1>8 DEF mass_raise_dead, Spell
<1> QED  BY <1>9, <1>10, <1>11, <1>12, <1>13, <1>14, <1>15, <1>16

\* The wall costs no points, so that its late failure takes none.
LEMMA WallSpell ==
    ASSUME NEW s \in SceneRecord, NEW w
    PROVE  Settled(s, create_field_wall(s, w, NoPrice), 0, 0)
<1>1. PICK r : r = CheckMana(s, 0, 0, 2)  OBVIOUS
<1>2. \/ r.result = "done" /\ PaidFor(s, r.s, 0, 0)
      \/ r.result = "failed" /\ r.s = s
  BY <1>1, Pays
<1>3. r.result = "failed" => Settled(s, r, 0, 0)  BY <1>2, NotPaid
<1>4. r.result = "done" => \A u : Keeps(r.s, u) => Settled(s, Done(u), 0, 0)
  BY <1>2, EndsWell
<1>5. Settled(s, Throw(s), 0, 0)  BY EndsBadly
<1>6. r.result = "done" => Settled(s, Done(Effect(r.s, "field")), 0, 0)
  BY <1>2, <1>4, EffectKeeps DEF PaidFor, Traces
<1>7. ASSUME r.result = "done" PROVE Settled(s, Throw(r.s), 0, 0)
  <2>1. s.mana \in Nat /\ s.soul \in Nat  BY DEF SceneRecord
  <2>2. r.s.mana = s.mana /\ r.s.soul = s.soul /\ r.s \in SceneRecord /\ SameBut(s, r.s)
    BY <1>2, <1>7, <2>1 DEF PaidFor, Price
  <2> QED  BY <2>2 DEF Settled, Throw, SameBut
<1> QED  BY <1>1, <1>2, <1>3, <1>5, <1>6, <1>7 DEF create_field_wall, Spell, NoPrice, PutField

LEMMA SummonSpell ==
    ASSUME NEW s \in SceneRecord, NEW w, NEW p \in PriceRecord
    PROVE  Settled(s, summon_creature(s, w, p), p.mana + SummonCost, 0)
<1> DEFINE c == p.mana + SummonCost
<1>a. c \in Nat  BY MagicAssumption DEF PriceRecord
<1>b. summon_creature(s, w, p) =
        IF s.servants >= 2 \/ w \in {"CREATURENOTEXISTING", "NOTACCESSIBLE", "NOROOM"} THEN Throw(s)
        ELSE LET paid == CheckMana(s, c, 0, 2)
             IN IF paid.result = "done" THEN Done([paid.s EXCEPT !.servants = @ + 1]) ELSE paid
  BY DEF summon_creature, Spell
<1> HIDE DEF c
<1>1. PICK r : r = CheckMana(s, c, 0, 2)  OBVIOUS
<1>2. \/ r.result = "done" /\ PaidFor(s, r.s, c, 0)
      \/ r.result = "failed" /\ r.s = s
  BY <1>1, Pays, <1>a
<1>3. r.result = "failed" => Settled(s, r, c, 0)  BY <1>2, NotPaid, <1>a
<1>4. r.result = "done" => \A u : Keeps(r.s, u) => Settled(s, Done(u), c, 0)
  BY <1>2, EndsWell, <1>a
<1>5. Settled(s, Throw(s), c, 0)  BY EndsBadly, <1>a
<1>6. r.result = "done" => Settled(s, Done([r.s EXCEPT !.servants = @ + 1]), c, 0)
  BY <1>2, <1>4, ServantKeeps DEF PaidFor
<1>7. Settled(s, summon_creature(s, w, p), c, 0)  BY <1>b, <1>1, <1>2, <1>3, <1>5, <1>6
<1> QED  BY <1>7 DEF c

LEMMA ConvinceSpell ==
    ASSUME NEW s \in SceneRecord, NEW w
    PROVE  Settled(s, convince(s, w), SummonCost, 0)
<1>1. PICK r : r = CheckMana(s, SummonCost, 0, 2)  OBVIOUS
<1>2. \/ r.result = "done" /\ PaidFor(s, r.s, SummonCost, 0)
      \/ r.result = "failed" /\ r.s = s
  BY <1>1, Pays, MagicAssumption
<1>3. r.result = "failed" => Settled(s, r, SummonCost, 0)  BY <1>2, NotPaid, MagicAssumption
<1>4. r.result = "done" => \A u : Keeps(r.s, u) => Settled(s, Done(u), SummonCost, 0)
  BY <1>2, EndsWell, MagicAssumption
<1>5. Settled(s, Throw(s), SummonCost, 0)  BY EndsBadly, MagicAssumption
<1>6. r.result = "done" => Settled(s, Done([r.s EXCEPT !.servants = @ + 1, !.target = "nobody"]), SummonCost, 0)
  BY <1>2, <1>4, ServantKeeps DEF PaidFor
<1> QED  BY <1>1, <1>2, <1>3, <1>5, <1>6 DEF convince, Spell

-----------------------------------------------------------------------------
(* The commands.                                                           *)

\* One hand: its rune is filled and paid for, or everything is as it was.
Enchanted(s, r, p) ==
    /\ r.s \in SceneRecord /\ r.s.unlimited = s.unlimited /\ r.s.lies = s.lies /\ r.s.charges = s.charges
    /\ \/ r.result = "failed" /\ r.s = s
       \/ /\ r.result = "done"
          /\ r.s.mana = s.mana - Price(s, p.mana) /\ r.s.soul = s.soul - Price(s, p.soul)

LEMMA EnchantRight ==
    ASSUME NEW s \in SceneRecord, NEW p \in PriceRecord
    PROVE  LET r == EnchantRune(s, p, "right")
           IN /\ Enchanted(s, r, p)
              /\ r.s.left = s.left
              /\ r.result = "done" => s.right = "blank" /\ r.s.right = "filled"
              /\ s.right # "blank" => r.result = "failed"
<1>1. PICK r : r = CheckMana(s, p.mana, p.soul, 1)  OBVIOUS
<1>2. \/ r.result = "done" /\ PaidFor(s, r.s, p.mana, p.soul)
      \/ r.result = "failed" /\ r.s = s
  BY <1>1, Pays DEF PriceRecord
<1>3. CASE s.right # "blank"
  BY <1>3 DEF EnchantRune, Throw, Enchanted
<1>4. CASE s.right = "blank" /\ r.result = "failed"
  BY <1>1, <1>2, <1>4 DEF EnchantRune, Spell, Enchanted
<1>5. CASE s.right = "blank" /\ r.result = "done"
  <2> DEFINE u == [r.s EXCEPT !.right = "filled"]
  <2>1. EnchantRune(s, p, "right") = Done(u)  BY <1>1, <1>5 DEF EnchantRune, Spell
  <2>2. u \in SceneRecord /\ u.mana = r.s.mana /\ u.soul = r.s.soul /\ u.unlimited = r.s.unlimited
        /\ u.lies = r.s.lies /\ u.charges = r.s.charges /\ u.left = r.s.left /\ u.right = "filled"
    BY <1>2, <1>5 DEF PaidFor, SceneRecord
  <2> HIDE DEF u
  <2> QED  BY <1>2, <1>5, <2>1, <2>2 DEF Done, Enchanted, PaidFor, SameBut
<1> QED  BY <1>2, <1>3, <1>4, <1>5

LEMMA EnchantLeft ==
    ASSUME NEW s \in SceneRecord, NEW p \in PriceRecord
    PROVE  LET r == EnchantRune(s, p, "left")
           IN /\ Enchanted(s, r, p)
              /\ r.s.right = s.right
              /\ r.result = "done" => s.left = "blank" /\ r.s.left = "filled"
<1>1. PICK r : r = CheckMana(s, p.mana, p.soul, 1)  OBVIOUS
<1>2. \/ r.result = "done" /\ PaidFor(s, r.s, p.mana, p.soul)
      \/ r.result = "failed" /\ r.s = s
  BY <1>1, Pays DEF PriceRecord
<1>3. CASE s.left # "blank"
  BY <1>3 DEF EnchantRune, Throw, Enchanted
<1>4. CASE s.left = "blank" /\ r.result = "failed"
  BY <1>1, <1>2, <1>4 DEF EnchantRune, Spell, Enchanted
<1>5. CASE s.left = "blank" /\ r.result = "done"
  <2> DEFINE u == [r.s EXCEPT !.left = "filled"]
  <2>1. EnchantRune(s, p, "left") = Done(u)  BY <1>1, <1>5 DEF EnchantRune, Spell
  <2>2. u \in SceneRecord /\ u.mana = r.s.mana /\ u.soul = r.s.soul /\ u.unlimited = r.s.unlimited
        /\ u.lies = r.s.lies /\ u.charges = r.s.charges /\ u.right = r.s.right /\ u.left = "filled"
    BY <1>2, <1>5 DEF PaidFor, SceneRecord
  <2> HIDE DEF u
  <2> QED  BY <1>2, <1>5, <2>1, <2>2 DEF Done, Enchanted, PaidFor, SameBut
<1> QED  BY <1>2, <1>3, <1>4, <1>5

\* The hands whose rune a command has changed.
Filled(s, t) == {h \in {"left", "right"} : s[h] # t[h]}

LEMMA HandsFilled ==
    ASSUME NEW s \in SceneRecord, NEW t \in SceneRecord
    PROVE  /\ s.right # t.right /\ s.left # t.left => Cardinality(Filled(s, t)) = 2
           /\ s.right = t.right /\ s.left # t.left => Cardinality(Filled(s, t)) = 1
           /\ s.right # t.right /\ s.left = t.left => Cardinality(Filled(s, t)) = 1
<1>1. s.right # t.right /\ s.left # t.left => Filled(s, t) = {"left", "right"}  BY DEF Filled
<1>2. s.right = t.right /\ s.left # t.left => Filled(s, t) = {"left"}  BY DEF Filled
<1>3. s.right # t.right /\ s.left = t.left => Filled(s, t) = {"right"}  BY DEF Filled
<1>4. Cardinality({"left"}) = 1 /\ Cardinality({"right"}) = 1  BY FS_Singleton
<1>5. {"left", "right"} = {"left"} \cup {"right"} /\ "right" \notin {"left"}  OBVIOUS
<1>6. Cardinality({"left"} \cup {"right"}) = 2
  <2>1. IsFiniteSet({"left"})  BY FS_Singleton
  <2>2. Cardinality({"left"} \cup {"right"}) = Cardinality({"left"}) + 1  BY <1>5, <2>1, FS_AddElement
  <2> QED  BY <1>4, <2>2
<1> QED  BY <1>1, <1>2, <1>3, <1>4, <1>5, <1>6

LEMMA RuneSpellSettles ==
    ASSUME NEW s \in SceneRecord, NEW w, NEW p \in PriceRecord
    PROVE  LET r == RuneSpell(s, w, p)
               n == Cardinality(Filled(s, r.s))
           IN Settled(s, r, n * p.mana, n * p.soul)
<1>1. PICK a : a = EnchantRune(s, p, "right")  OBVIOUS
<1>2. /\ Enchanted(s, a, p)
      /\ a.s.left = s.left
      /\ a.result = "done" => s.right = "blank" /\ a.s.right = "filled"
      /\ s.right # "blank" => a.result = "failed"
  BY <1>1, EnchantRight
<1>3. PICK b : b = EnchantRune(a.s, p, "left")  OBVIOUS
<1>4. /\ Enchanted(a.s, b, p)
      /\ b.s.right = a.s.right
      /\ b.result = "done" => a.s.left = "blank" /\ b.s.left = "filled"
  BY <1>2, <1>3, EnchantLeft DEF Enchanted
<1>5. PICK r : r = RuneSpell(s, w, p)  OBVIOUS
<1>6. r = IF ~MayCast(s, w) THEN Throw(s)
          ELSE IF s.right = "blank" /\ a.result = "failed" THEN a
          ELSE IF "done" \in {a.result, b.result} THEN Done(b.s) ELSE Throw(b.s)
  BY <1>1, <1>3, <1>5, Zenon DEF RuneSpell
<1>7. PICK n : n = Cardinality(Filled(s, r.s))  OBVIOUS
<1>8. PICK x, y : x = n * p.mana /\ y = n * p.soul  OBVIOUS
<1>9. SameBut(s, s) /\ p.mana \in Nat /\ p.soul \in Nat  BY DEF SameBut, PriceRecord
<1>10. ASSUME r.result = "failed" /\ r.s = s PROVE Settled(s, r, x, y)
  BY <1>9, <1>10 DEF Settled
<1>11. ASSUME ~(r.result = "failed" /\ r.s = s) PROVE Settled(s, r, x, y)
  <2>1. r.s = b.s /\ r.result = "done" /\ (a.result = "done" \/ b.result = "done")
    BY <1>2, <1>4, <1>6, <1>11 DEF Throw, Done, Enchanted
  <2>2. s.mana \in Nat /\ s.soul \in Nat /\ b.s \in SceneRecord /\ a.s.unlimited = s.unlimited
    BY <1>2, <1>4 DEF SceneRecord, Enchanted
  <2>3. b.s.mana = s.mana - Price(s, x) /\ b.s.soul = s.soul - Price(s, y)
    <3>1. CASE a.result = "done" /\ b.result = "done"
      <4>1. n = 2  BY <1>2, <1>4, <1>7, <2>1, <2>2, <3>1, HandsFilled
      <4>2. x = p.mana + p.mana /\ y = p.soul + p.soul  BY <1>8, <1>9, <4>1
      <4> QED  BY <1>2, <1>4, <1>9, <2>2, <3>1, <4>2 DEF Enchanted, Price
    <3>2. CASE ~(a.result = "done" /\ b.result = "done")
      <4>1. n = 1  BY <1>2, <1>4, <1>7, <2>1, <2>2, <3>2, HandsFilled DEF Enchanted
      <4>2. x = p.mana /\ y = p.soul  BY <1>8, <1>9, <4>1
      <4> QED  BY <1>2, <1>4, <1>9, <2>1, <2>2, <3>2, <4>2 DEF Enchanted, Price
    <3> QED  BY <3>1, <3>2
  <2> QED  BY <1>2, <1>4, <2>1, <2>3 DEF Enchanted, Settled
<1>12. Settled(s, RuneSpell(s, w, p), n * p.mana, n * p.soul)  BY <1>5, <1>8, <1>10, <1>11
<1>13. n = Cardinality(Filled(s, RuneSpell(s, w, p).s))  BY <1>5, <1>7
<1> QED  BY <1>12, <1>13, Zenon

\* Without a price an effect alone settles the command.
LEMMA Given ==
    ASSUME NEW s \in SceneRecord, NEW u, Keeps(s, u)
    PROVE  Settled(s, Done(u), 0, 0)
<1>1. s.mana - 0 = s.mana /\ s.soul - 0 = s.soul  BY DEF SceneRecord
<1>2. PaidFor(s, s, 0, 0)  BY <1>1 DEF PaidFor, SameBut, Price
<1> QED  BY <1>2, EndsWell

LEMMA NothingGiven ==
    ASSUME NEW s \in SceneRecord
    PROVE  Settled(s, Done(s), 0, 0) /\ Settled(s, Throw(s), 0, 0)
BY Given, EndsBadly DEF Keeps

CastMana(p, spell) == IF spell = "summon_creature" THEN p.mana + SummonCost ELSE p.mana
CastSoul(p, spell) == IF spell = "summon_creature" THEN 0 ELSE p.soul

LEMMA CastSettles ==
    ASSUME NEW s \in SceneRecord, NEW w, NEW p \in PriceRecord, NEW spell \in Casts
    PROVE  Settled(s, CastSpell(s, w, p, spell), CastMana(p, spell), CastSoul(p, spell))
<1>1. CastMana(p, spell) \in Nat /\ CastSoul(p, spell) \in Nat
  BY MagicAssumption DEF CastMana, CastSoul, PriceRecord
<1>2. CASE ~MayCast(s, w) \/ (spell \in Aggressive /\ w = "PROTECTIONZONE")
  BY <1>1, <1>2, EndsBadly DEF CastSpell
<1>3. Settled(s, CastCase(s, w, p, spell), CastMana(p, spell), CastSoul(p, spell))
  <2>1. CASE spell = "summon_creature"
    BY <2>1, SummonSpell DEF CastCase, CastMana, CastSoul
  <2>2. CASE spell \in {"angle_combat", "mass_combat", "mass_raise_dead", "CreateFieldAhead"}
    BY <2>2, StrikingSpells DEF CastCase, CastMana, CastSoul
  <2>3. CASE spell \in {"heal", "mass_heal", "heal_friend", "haste", "enlight", "find_person",
                        "negate_poison", "creature_illusion", "create_food"}
    BY <2>3, EffectSpells DEF CastCase, CastMana, CastSoul
  <2>4. CASE spell \in {"shielding", "invisibility", "create_arrows", "magic_rope", "magic_climbing",
                        "cancel_invisibility", "enchant_object", "challenge"}
    BY <2>4, EffectSpells DEF CastCase, CastMana, CastSoul
  <2> QED  BY <2>1, <2>2, <2>3, <2>4 DEF Casts
<1> QED  BY <1>2, <1>3 DEF CastSpell

RuneMana(p, spell) == IF spell = "convince" THEN SummonCost ELSE IF spell = "paralyze" THEN p.mana ELSE 0
RuneSoul(p, spell) == IF spell = "paralyze" THEN p.soul ELSE 0

LEMMA RuneCaseSettles ==
    ASSUME NEW s \in SceneRecord, NEW w, NEW p \in PriceRecord, NEW spell \in Runes
    PROVE  Settled(s, RuneCase(s, w, p, spell), RuneMana(p, spell), RuneSoul(p, spell))
<1>1. RuneMana(p, spell) \in Nat /\ RuneSoul(p, spell) \in Nat
  BY MagicAssumption DEF RuneMana, RuneSoul, PriceRecord
<1>2. Settled(s, Throw(s), RuneMana(p, spell), RuneSoul(p, spell))  BY <1>1, EndsBadly
<1>3. NoPrice \in PriceRecord /\ NoPrice.mana = 0 /\ NoPrice.soul = 0  BY DEF NoPrice, PriceRecord
<1>4. CASE spell = "heal"
  <2> DEFINE q == [mana |-> -1, soul |-> 0]
  <2>1. CheckMana(s, q.mana, q.soul, 1) = Done(s)  BY DEF CheckMana
  <2>2. heal(s, w, q) = IF w = "NOTACCESSIBLE" THEN Throw(s) ELSE Done(Effect(s, "heal"))
    BY <2>1 DEF heal, Spell, Done
  <2>3. Settled(s, Done(Effect(s, "heal")), 0, 0) /\ Settled(s, Throw(s), 0, 0)
    BY Given, NothingGiven, EffectKeeps DEF Traces
  <2>4. Settled(s, heal(s, w, q), 0, 0)  BY <2>2, <2>3
  <2> HIDE DEF q
  <2>5. RuneCase(s, w, p, spell) \in {Throw(s), heal(s, w, q)}  BY <1>4 DEF RuneCase, q
  <2>6. RuneMana(p, spell) = 0 /\ RuneSoul(p, spell) = 0  BY <1>4 DEF RuneMana, RuneSoul
  <2> QED  BY <2>3, <2>4, <2>5, <2>6
<1>5. CASE spell \in {"combat", "mass_combat", "mass_create_field", "create_field", "raise_dead"}
  BY <1>3, <1>5, StrikingSpells DEF RuneCase, RuneMana, RuneSoul
<1>6. CASE spell \in {"object_illusion", "delete_field"}
  BY <1>3, <1>6, EffectSpells DEF RuneCase, RuneMana, RuneSoul
<1>7. CASE spell = "negate_poison"
  BY <1>2, <1>3, <1>7, EffectSpells DEF RuneCase, RuneMana, RuneSoul
<1>8. CASE spell = "paralyze"
  BY <1>2, <1>8, EffectSpells DEF RuneCase, RuneMana, RuneSoul
<1>9. CASE spell = "convince"
  BY <1>9, ConvinceSpell DEF RuneCase, RuneMana, RuneSoul
<1>10. CASE spell = "create_field_wall"
  BY <1>10, WallSpell DEF RuneCase, RuneMana, RuneSoul
<1>11. CASE spell = "cleanup_field"
  BY <1>3, <1>11, CleanupSpell DEF RuneCase, RuneMana, RuneSoul
<1> QED  BY <1>4, <1>5, <1>6, <1>7, <1>8, <1>9, <1>10, <1>11 DEF Runes

\* A rune that works loses a charge, unless it has swept itself away.
Discharged(s, r, mana, soul) ==
    /\ r.s \in SceneRecord
    /\ r.s.unlimited = s.unlimited /\ r.s.lies = s.lies
    /\ r.result \in {"done", "failed", "error"}
    /\ r.result = "failed" => SameBut(s, r.s) /\ r.s.mana = s.mana /\ r.s.soul = s.soul
    /\ r.result = "done" =>
          /\ r.s.mana = s.mana - Price(s, mana) \/ "mana" \in r.s.effects
          /\ r.s.soul = s.soul - Price(s, soul)
          /\ r.s.charges = s.charges - 1
    /\ r.result = "error" => s.lies = "target" /\ r.s.charges = 0

LEMMA RuneDischarged ==
    ASSUME NEW s \in SceneRecord, s.charges > 0, NEW w, NEW p \in PriceRecord, NEW spell \in Runes
    PROVE  Discharged(s, UseMagicItem(s, w, p, spell), RuneMana(p, spell), RuneSoul(p, spell))
<1>1. PICK r : r = RuneCase(s, w, p, spell)  OBVIOUS
<1>2. PICK m, n : m = RuneMana(p, spell) /\ n = RuneSoul(p, spell)  OBVIOUS
<1>3. Settled(s, r, m, n)  BY <1>1, <1>2, RuneCaseSettles
<1>4. Discharged(s, Throw(s), m, n)  BY DEF Discharged, Throw, SameBut
<1>5. CASE r.result = "failed"
  <2>1. Discharged(s, r, m, n)  BY <1>3, <1>5 DEF Settled, Discharged
  <2>2. UseMagicItem(s, w, p, spell) \in {Throw(s), r}  BY <1>1, <1>5 DEF UseMagicItem
  <2> QED  BY <1>2, <1>4, <2>1, <2>2
<1>6. CASE r.result = "done"
  <2>1. Discharged(s, DeleteRune(r.s), m, n)
    <3>1. CASE r.s.charges = 0
      <4>1. s.lies = "target" /\ r.s \in SceneRecord  BY <1>3, <1>6, <3>1 DEF Settled
      <4> QED  BY <1>3, <3>1, <4>1 DEF Settled, Discharged, DeleteRune
    <3>2. CASE r.s.charges # 0
      <4>1. r.s.charges = s.charges /\ r.s \in SceneRecord  BY <1>3, <1>6, <3>2 DEF Settled
      <4> DEFINE c == s.charges - 1
                 u == [r.s EXCEPT !.charges = c]
      <4>2. c \in Nat  BY DEF SceneRecord
      <4>3. DeleteRune(r.s) = Done(u)  BY <3>2, <4>1 DEF DeleteRune
      <4> HIDE DEF c
      <4>4. u \in SceneRecord /\ u.charges = c /\ u.mana = r.s.mana /\ u.soul = r.s.soul
            /\ u.unlimited = r.s.unlimited /\ u.lies = r.s.lies /\ u.effects = r.s.effects
        BY <4>1, <4>2 DEF SceneRecord
      <4> HIDE DEF u
      <4>5. Discharged(s, Done(u), m, n)
        BY <1>3, <1>6, <4>4 DEF Settled, Discharged, Done, c
      <4> QED  BY <4>3, <4>5
    <3> QED  BY <3>1, <3>2
  <2>2. UseMagicItem(s, w, p, spell) \in {Throw(s), DeleteRune(r.s)}  BY <1>1, <1>6 DEF UseMagicItem
  <2> QED  BY <1>2, <1>4, <2>1, <2>2
<1> QED  BY <1>3, <1>5, <1>6 DEF Settled

LEMMA PotionSettles ==
    ASSUME NEW s \in SceneRecord, NEW w, NEW liquid
    PROVE  Settled(s, DrinkPotion(s, w, liquid), 0, 0)
<1>1. NoPrice \in PriceRecord /\ NoPrice.mana = 0 /\ NoPrice.soul = 0  BY DEF NoPrice, PriceRecord
<1>2. PICK r : r = IF liquid = "LIQUID_MANA" THEN refresh_mana(s, w, NoPrice) ELSE heal(s, w, NoPrice)
  OBVIOUS
<1>3. Settled(s, r, 0, 0)  BY <1>1, <1>2, RefreshSpell, EffectSpells
<1>4. DrinkPotion(s, w, liquid) = IF r.result = "done" THEN Done(Effect(r.s, "emptied")) ELSE r
  BY <1>2 DEF DrinkPotion
<1>5. CASE r.result = "done"
  <2> DEFINE u == Effect(r.s, "emptied")
  <2>1. Keeps(r.s, u) /\ r.s.effects \subseteq u.effects
    BY <1>3, EffectKeeps DEF Settled, Traces, Effect, SceneRecord
  <2> HIDE DEF u
  <2>2. Settled(s, Done(u), 0, 0)  BY <1>3, <1>5, <2>1 DEF Settled, Keeps, Done
  <2> QED  BY <1>4, <1>5, <2>2 DEF u
<1> QED  BY <1>3, <1>4, <1>5

LEMMA RightSettles ==
    ASSUME NEW s \in SceneRecord, NEW w, NEW spell \in Commands
    PROVE  Settled(s, RightSpell(s, w, spell), 0, 0)
<1>1. NoPrice \in PriceRecord /\ NoPrice.mana = 0 /\ NoPrice.soul = 0  BY DEF NoPrice, PriceRecord
<1>2. Settled(s, Done(s), 0, 0) /\ Settled(s, Throw(s), 0, 0)  BY NothingGiven
<1>3. \A e \in Traces : Settled(s, Done(Effect(s, e)), 0, 0)  BY Given, EffectKeeps
<1>4. \A e \in Traces : Settled(s, Gives(s, w, e), 0, 0)  BY <1>2, <1>3 DEF Gives, WithRight
<1>5. "goods" \in Traces /\ "skills" \in Traces /\ "moved" \in Traces  BY DEF Traces
<1>6. CASE spell \in {"create_thing", "create_money", "change_data", "create_knowledge",
                      "set_quest_value", "change_profession"}
  BY <1>4, <1>5, <1>6
  DEF RightSpell, create_thing, create_money, change_data, create_knowledge, set_quest_value, change_profession
<1>7. CASE spell \in {"teleport", "teleport_to_creature", "teleport_player_to_me"}
  <2>1. Settled(s, teleport(s, w), 0, 0)  BY <1>2, <1>4, <1>5 DEF teleport, WithRight
  <2>2. Settled(s, teleport_to_creature(s, w), 0, 0)  BY <1>2, <1>4, <1>5 DEF teleport_to_creature, WithRight
  <2>3. Settled(s, teleport_player_to_me(s, w), 0, 0)  BY <1>2, <1>4, <1>5 DEF teleport_player_to_me, WithRight
  <2> QED  BY <1>7, <2>1, <2>2, <2>3 DEF RightSpell
<1>8. CASE spell \in {"home_teleport", "kick_player"}
  BY <1>2, <1>3, <1>5, <1>8 DEF RightSpell, home_teleport, kick_player, WithRight
<1>9. CASE spell = "kill_all_monsters"
  <2>1. Settled(s, Strike(s), 0, 0)  BY StrikeKeeps, Given
  <2> QED  BY <1>2, <1>9, <2>1 DEF RightSpell, kill_all_monsters, WithRight
<1>10. CASE spell = "cleanup_field"
  <2>1. Settled(s, cleanup_field(s, "NOERROR", NoPrice), 0, 0)  BY <1>1, CleanupSpell
  <2> QED  BY <1>2, <1>10, <2>1 DEF RightSpell, WithRight
<1>11. CASE spell = "magic_climbing"
  <2>1. Settled(s, magic_climbing(s, w, NoPrice), 0, 0)  BY <1>1, EffectSpells
  <2> QED  BY <1>2, <1>11, <2>1 DEF RightSpell, WithRight
<1>12. CASE spell = "summon_creature"
  <2>1. Keeps(s, [s EXCEPT !.target = "MONSTER"])  BY DEF Keeps, SceneRecord
  <2>2. Settled(s, Done([s EXCEPT !.target = "MONSTER"]), 0, 0)  BY <2>1, Given
  <2> QED  BY <1>2, <1>12, <2>2 DEF RightSpell, WithRight
<1> QED  BY <1>6, <1>7, <1>8, <1>9, <1>10, <1>11, <1>12 DEF Commands

-----------------------------------------------------------------------------
(* Every step of the specification.                                        *)

\* The state before a command, without the traces of the last one.
LEMMA Begins ==
    ASSUME scene \in SceneRecord
    PROVE  /\ Begin \in SceneRecord
           /\ Begin.mana = scene.mana /\ Begin.soul = scene.soul /\ Begin.wait = scene.wait
           /\ Begin.unlimited = scene.unlimited /\ Begin.charges = scene.charges
           /\ Begin.lies = scene.lies /\ Begin.right = scene.right /\ Begin.left = scene.left
           /\ Begin.servants = scene.servants /\ Begin.target = scene.target
           /\ Begin.corpse = scene.corpse /\ Begin.effects = {}
<1>1. {} \in SUBSET Traces  OBVIOUS
<1> QED  BY <1>1 DEF Begin, SceneRecord

LEMMA Unchanged ==
    ASSUME NEW s \in SceneRecord, NEW t \in SceneRecord, SameBut(s, t), t.mana = s.mana, t.soul = s.soul
    PROVE  [t EXCEPT !.wait = s.wait] = s
<1> DEFINE u == [t EXCEPT !.wait = s.wait]
<1>1. u \in SceneRecord /\ u.wait = s.wait /\ u.mana = t.mana /\ u.soul = t.soul /\ SameBut(t, u)
  BY DEF SceneRecord, SameBut
<1> HIDE DEF u
<1>2. u = s  BY <1>1 DEF SceneRecord, SameBut
<1> QED  BY <1>2 DEF u

LEMMA SettledIsPaid ==
    ASSUME scene \in SceneRecord, NEW r, NEW mana \in Int, NEW soul \in Int,
           Settled(Begin, r, mana, soul), Ends(r, mana, soul, 0)
    PROVE  Paid /\ scene' \in SceneRecord
<1>1. scene' = r.s /\ cast' = [result |-> r.result, mana |-> mana, soul |-> soul, charges |-> 0]
  BY DEF Ends
<1>2. scene' \in SceneRecord /\ cast'.result = r.result /\ cast'.mana = mana /\ cast'.soul = soul /\ cast'.charges = 0
  BY <1>1 DEF Settled
<1>3. CASE r.result = "failed"
  <2>1. [r.s EXCEPT !.wait = Begin.wait] = Begin  BY <1>3, Begins, Unchanged DEF Settled
  <2>2. [scene' EXCEPT !.wait = scene.wait] = [scene EXCEPT !.effects = {}]
    BY <1>1, <2>1, Begins DEF Begin
  <2> QED  BY <1>2, <1>3, <2>2 DEF Paid
<1>4. CASE r.result = "done"
  <2>1. scene'.mana = scene.mana - Price(scene, mana) \/ "mana" \in scene'.effects
    BY <1>1, <1>4, Begins DEF Settled, Price
  <2>2. scene'.soul = scene.soul - Price(scene, soul)  BY <1>1, <1>4, Begins DEF Settled, Price
  <2> QED  BY <1>2, <1>4, <2>1, <2>2 DEF Paid, Price
<1> QED  BY <1>2, <1>3, <1>4 DEF Settled

LEMMA DischargedIsPaid ==
    ASSUME scene \in SceneRecord, NEW r, NEW mana \in Int, NEW soul \in Int,
           Discharged(Begin, r, mana, soul), Ends(r, mana, soul, 1)
    PROVE  Paid /\ scene' \in SceneRecord
<1>1. scene' = r.s /\ cast' = [result |-> r.result, mana |-> mana, soul |-> soul, charges |-> 1]
  BY DEF Ends
<1>2. scene' \in SceneRecord /\ cast'.result = r.result /\ cast'.mana = mana /\ cast'.soul = soul /\ cast'.charges = 1
  BY <1>1 DEF Discharged
<1>3. CASE r.result = "failed"
  <2>1. [r.s EXCEPT !.wait = Begin.wait] = Begin  BY <1>3, Begins, Unchanged DEF Discharged
  <2>2. [scene' EXCEPT !.wait = scene.wait] = [scene EXCEPT !.effects = {}]
    BY <1>1, <2>1, Begins DEF Begin
  <2> QED  BY <1>2, <1>3, <2>2 DEF Paid
<1>4. CASE r.result = "done"
  <2>1. scene'.mana = scene.mana - Price(scene, mana) \/ "mana" \in scene'.effects
    BY <1>1, <1>4, Begins DEF Discharged, Price
  <2>2. scene'.soul = scene.soul - Price(scene, soul)  BY <1>1, <1>4, Begins DEF Discharged, Price
  <2>3. scene'.charges = scene.charges - 1  BY <1>1, <1>4, Begins DEF Discharged
  <2> QED  BY <1>2, <1>4, <2>1, <2>2, <2>3 DEF Paid, Price
<1>5. CASE r.result = "error"
  BY <1>1, <1>2, <1>5, Begins DEF Discharged, Paid
<1> QED  BY <1>2, <1>3, <1>4, <1>5 DEF Discharged

LEMMA CommandPaid == scene \in SceneRecord /\ MagicCommand => Paid /\ scene' \in SceneRecord
<1> SUFFICES ASSUME scene \in SceneRecord, MagicCommand PROVE Paid /\ scene' \in SceneRecord
  OBVIOUS
<1>1. PICK w \in World, p \in Prices :
           \/ \E spell \in Casts :
                  Ends(CastSpell(Begin, w, p, spell), CastMana(p, spell), CastSoul(p, spell), 0)
           \/ /\ scene.charges > 0
              /\ \E spell \in Runes :
                     Ends(UseMagicItem(Begin, w, p, spell), RuneMana(p, spell), RuneSoul(p, spell), 1)
           \/ LET r == RuneSpell(Begin, w, p)
                  n == Cardinality({h \in {"left", "right"} : scene[h] # r.s[h]})
              IN Ends(r, n * p.mana, n * p.soul, 0)
  BY DEF MagicCommand, CastMana, CastSoul, RuneMana, RuneSoul
<1>2. p \in PriceRecord /\ p.mana \in Nat /\ p.soul \in Nat /\ Begin \in SceneRecord
  BY MagicAssumption, Begins DEF PriceRecord
<1>3. CASE \E spell \in Casts : Ends(CastSpell(Begin, w, p, spell), CastMana(p, spell), CastSoul(p, spell), 0)
  <2>1. PICK spell \in Casts : Ends(CastSpell(Begin, w, p, spell), CastMana(p, spell), CastSoul(p, spell), 0)
    BY <1>3
  <2>2. Settled(Begin, CastSpell(Begin, w, p, spell), CastMana(p, spell), CastSoul(p, spell))
    BY <1>2, CastSettles
  <2>3. CastMana(p, spell) \in Int /\ CastSoul(p, spell) \in Int
    BY <1>2, MagicAssumption DEF CastMana, CastSoul
  <2> QED  BY <2>1, <2>2, <2>3, SettledIsPaid
<1>4. CASE /\ scene.charges > 0
           /\ \E spell \in Runes :
                  Ends(UseMagicItem(Begin, w, p, spell), RuneMana(p, spell), RuneSoul(p, spell), 1)
  <2>1. PICK spell \in Runes :
             Ends(UseMagicItem(Begin, w, p, spell), RuneMana(p, spell), RuneSoul(p, spell), 1)
    BY <1>4
  <2>2. Discharged(Begin, UseMagicItem(Begin, w, p, spell), RuneMana(p, spell), RuneSoul(p, spell))
    BY <1>2, <1>4, Begins, RuneDischarged
  <2>3. RuneMana(p, spell) \in Int /\ RuneSoul(p, spell) \in Int
    BY <1>2, MagicAssumption DEF RuneMana, RuneSoul
  <2> QED  BY <2>1, <2>2, <2>3, DischargedIsPaid
<1>5. CASE LET r == RuneSpell(Begin, w, p)
               n == Cardinality({h \in {"left", "right"} : scene[h] # r.s[h]})
           IN Ends(r, n * p.mana, n * p.soul, 0)
  <2>1. PICK r : r = RuneSpell(Begin, w, p)  OBVIOUS
  <2>2. PICK n : n = Cardinality(Filled(Begin, r.s))  OBVIOUS
  <2>3. Settled(Begin, r, n * p.mana, n * p.soul)  BY <1>2, <2>1, <2>2, RuneSpellSettles
  <2>4. Filled(Begin, r.s) = {h \in {"left", "right"} : scene[h] # r.s[h]}
    BY Begins DEF Filled
  <2>5. Ends(r, n * p.mana, n * p.soul, 0)  BY <1>5, <2>1, <2>2, <2>4
  <2>6. n \in Nat
    <3>1. {"left", "right"} = {"left"} \cup {"right"}  OBVIOUS
    <3>2. IsFiniteSet({"left"} \cup {"right"})  BY FS_Singleton, FS_AddElement
    <3>3. Filled(Begin, r.s) \subseteq {"left"} \cup {"right"}  BY <3>1 DEF Filled
    <3> QED  BY <2>2, <3>2, <3>3, FS_Subset, FS_CardinalityType
  <2>7. n * p.mana \in Int /\ n * p.soul \in Int  BY <1>2, <2>6
  <2> QED  BY <2>3, <2>5, <2>7, SettledIsPaid
<1> QED  BY <1>1, <1>3, <1>4, <1>5

LEMMA RightPaid == scene \in SceneRecord /\ MagicRight => Paid /\ scene' \in SceneRecord
<1> SUFFICES ASSUME scene \in SceneRecord, MagicRight PROVE Paid /\ scene' \in SceneRecord
  OBVIOUS
<1>1. Begin \in SceneRecord  BY Begins
<1>2. PICK w \in World :
           \/ \E liquid \in {"LIQUID_MANA", "LIQUID_LIFE"} : Ends(DrinkPotion(Begin, w, liquid), 0, 0, 0)
           \/ \E spell \in Commands : Ends(RightSpell(Begin, w, spell), 0, 0, 0)
  BY DEF MagicRight
<1>3. ASSUME NEW liquid, Ends(DrinkPotion(Begin, w, liquid), 0, 0, 0)
      PROVE  Paid /\ scene' \in SceneRecord
  BY <1>1, <1>3, PotionSettles, SettledIsPaid
<1>4. ASSUME NEW spell \in Commands, Ends(RightSpell(Begin, w, spell), 0, 0, 0)
      PROVE  Paid /\ scene' \in SceneRecord
  BY <1>1, <1>4, RightSettles, SettledIsPaid
<1> QED  BY <1>2, <1>3, <1>4

\* Between the commands nothing is cast.
LEMMA RestPaid == scene \in SceneRecord /\ (MagicRest \/ MagicScene) => Paid /\ scene' \in SceneRecord
<1> SUFFICES ASSUME scene \in SceneRecord, MagicRest \/ MagicScene PROVE Paid /\ scene' \in SceneRecord
  OBVIOUS
<1>1. Begin \in SceneRecord  BY Begins
<1>2. Paid
  <2>1. cast'.result = "idle"  BY DEF MagicRest, MagicScene, Idle
  <2> QED  BY <2>1 DEF Paid
<1>3. \A v \in Nat : /\ [Begin EXCEPT !.wait = v] \in SceneRecord
                     /\ [Begin EXCEPT !.mana = v] \in SceneRecord
                     /\ [Begin EXCEPT !.soul = v] \in SceneRecord
                     /\ [Begin EXCEPT !.servants = v] \in SceneRecord
  BY <1>1 DEF SceneRecord
<1>4. CASE MagicRest
  <2>1. PICK s : s = Begin  OBVIOUS
  <2> DEFINE a == IF s.wait = 0 THEN 0 ELSE s.wait - 1
             b == IF s.mana = MaxMagic THEN s.mana ELSE s.mana + 1
             c == IF s.soul = MaxMagic THEN s.soul ELSE s.soul + 1
  <2>2. a \in Nat /\ b \in Nat /\ c \in Nat  BY <1>1, <2>1 DEF SceneRecord
  <2>3. scene' \in {[s EXCEPT !.wait = a], [s EXCEPT !.mana = b], [s EXCEPT !.soul = c]}
    BY <1>4, <2>1 DEF MagicRest
  <2> HIDE DEF a, b, c
  <2> QED  BY <1>2, <1>3, <2>1, <2>2, <2>3
<1>5. CASE MagicScene
  <2>1. \A l \in {"bag", "target"} : [Begin EXCEPT !.charges = MaxCharges, !.lies = l] \in SceneRecord
    BY <1>1, MagicAssumption DEF SceneRecord
  <2>2. \A r, l \in {"blank", "filled"} : [Begin EXCEPT !.right = r, !.left = l] \in SceneRecord
    BY <1>1 DEF SceneRecord
  <2>3. \A t \in {"nobody", "MONSTER", "PLAYER"} : [Begin EXCEPT !.target = t] \in SceneRecord
    BY <1>1 DEF SceneRecord
  <2> QED  BY <1>2, <1>3, <1>5, <2>1, <2>2, <2>3 DEF MagicScene
<1> QED  BY <1>4, <1>5

\* For all prices and points, and whatever the world answers: a command that
\* fails takes nothing but time, one that works takes its price once, and the
\* one rune that cannot be discharged has swept itself away (CastSpell,
\* RuneSpell, use_magic_item, drink_potion, check_mana, DeleteRune).
THEOREM SpellsArePaid == MagicSpec => SpellPaid
<1>1. MagicInit => scene \in SceneRecord
  <2> SUFFICES ASSUME MagicInit PROVE scene \in SceneRecord  OBVIOUS
  <2>1. scene \in [mana : {MaxMagic}, soul : {MaxMagic}, unlimited : BOOLEAN, wait : {0},
                  right : {"blank"}, left : {"blank"},
                  charges : {MaxCharges}, lies : {"bag"},
                  servants : {0}, target : {"MONSTER"}, corpse : {TRUE},
                  effects : {{}}]
    BY DEF MagicInit
  <2>2. /\ {MaxMagic} \subseteq Nat /\ {MaxCharges} \subseteq Nat /\ {0} \subseteq Nat
        /\ {{}} \subseteq SUBSET Traces /\ {TRUE} \subseteq BOOLEAN
        /\ {"blank"} \subseteq {"blank", "filled"} /\ {"bag"} \subseteq {"bag", "target"}
        /\ {"MONSTER"} \subseteq {"nobody", "MONSTER", "PLAYER"}
    BY MagicAssumption
  <2> QED  BY <2>1, <2>2 DEF SceneRecord
<1>2. scene \in SceneRecord /\ [MagicNext]_magicVars => (scene \in SceneRecord)'
  BY CommandPaid, RightPaid, RestPaid DEF MagicNext, magicVars
<1>3. scene \in SceneRecord /\ [MagicNext]_magicVars => [Paid]_magicVars
  BY CommandPaid, RightPaid, RestPaid DEF MagicNext
<1> QED  BY <1>1, <1>2, <1>3, PTL DEF MagicSpec, SpellPaid

=============================================================================
