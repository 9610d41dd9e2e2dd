------------------------------- MODULE Skills -------------------------------
(***************************************************************************)
(* The skills of one creature (skill.cpp): its level with the points that  *)
(* advance with it, a skill that grows by use, and the effects that a      *)
(* timer ends.  ProcessSkills works through the list of timers once in a   *)
(* round, and what a timer does may change the list under its hands.       *)
(***************************************************************************)
EXTENDS Integers, Sequences

CONSTANTS
    Type,            \* "PLAYER" or "MONSTER"
    MaxLevel,        \* the last level that has a formula (500)
    Delta,           \* experience of level 2 (100)
    Penalty,         \* taken off when the formula ends (1000000)
    AddLevel,        \* hitpoints of a level
    MinHitPoints,    \* hitpoints of level 1
    MinSkill,        \* where a skill that is used begins
    LastSkill,       \* the last level of such a skill whose experience is an int
    Gains,           \* bound: amounts of experience
    MaxExp,          \* bound: experience
    MaxCycle         \* bound: how long an effect lasts

VARIABLES
    level, hp,       \* SKILL_LEVEL and SKILL_HITPOINTS
    probe,           \* a SkillProbe
    capped,          \* history: the formula of a level has come to its end
    cycle,           \* Cycle of each skill that has a timer
    TimerList,       \* the first FirstFreeTimer elements
    index,           \* Index of ProcessSkills; 0 when it does not run
    outfit,          \* "Org" or "Illusion"
    IsDead

levelVars == <<level, hp, probe, capped>>
timerVars == <<cycle, TimerList, outfit>>
skillVars == <<levelVars, timerVars, index, IsDead>>

Timed == {"POISON", "BURNING", "ILLUSION", "FED"}

\* What the numbers are: the first two levels have a formula, in SkillProbe too.
SkillAssumption ==
    /\ MaxLevel \in Nat /\ MaxLevel >= 2
    /\ Delta \in Nat \ {0} /\ Penalty \in Int
    /\ AddLevel \in Nat /\ MinHitPoints \in Nat
    /\ MinSkill \in Nat /\ LastSkill \in Nat /\ LastSkill > MinSkill
    /\ Gains \subseteq Nat /\ MaxExp \in Nat /\ MaxCycle \in Nat

\* SkillLevel::GetExpForLevel.
GetExpForLevel[l \in Nat] ==
    IF l < 1 THEN 0
    ELSE IF l > MaxLevel THEN -1 ELSE ((((l - 6) * l + 17) * l - 12) \div 6) * Delta

\* SkillProbe::GetExpForLevel with a factor of 2000.  Past LastSkill the result
\* is no int, and the conversion of the double yields a negative number.
ProbeExpForLevel[l \in Nat] ==
    IF l < MinSkill THEN 0
    ELSE IF l > LastSkill THEN -1 ELSE 2 ^ (l - MinSkill) - 1

SkillInit ==
    /\ level = [Act |-> 1, Exp |-> 0, LastLevel |-> 0, NextLevel |-> Delta]
    /\ hp = [Act |-> MinHitPoints, Max |-> MinHitPoints]
    /\ probe = [Act |-> MinSkill, Exp |-> 0, LastLevel |-> 0, NextLevel |-> 1]
    /\ capped = FALSE
    /\ cycle = [s \in Timed |-> 0] /\ TimerList = <<>> /\ index = 0
    /\ outfit = "Org" /\ IsDead = FALSE

-----------------------------------------------------------------------------
(* Levels.                                                                 *)

\* SkillAdd::Advance, for which SkillLevel::Jump calls it.
Advance(h, range) ==
    LET max == h.Max + range * AddLevel
        act == h.Act + range * AddLevel
    IN [Act |-> IF act > max THEN max ELSE act, Max |-> max]

\* The loop of Increase.  The level at which the formula ends is entered, but
\* not counted: nothing advances with it.
LevelsUp(s, expForLevel, penalty) ==
    LET rise[t \in [Act : Nat, Exp : Int, LastLevel : Int, NextLevel : Int, range : Nat, over : BOOLEAN]] ==
          LET n == expForLevel[t.Act + 2]
          IN IF t.over \/ t.Exp < t.NextLevel THEN t
             ELSE IF n < 0
             THEN [t EXCEPT !.Act = @ + 1, !.LastLevel = t.NextLevel, !.NextLevel = t.Exp,
                            !.Exp = @ - penalty, !.over = TRUE]
             ELSE rise[[t EXCEPT !.Act = @ + 1, !.LastLevel = t.NextLevel, !.NextLevel = n, !.range = @ + 1]]
    IN rise[[Act |-> s.Act, Exp |-> s.Exp, LastLevel |-> s.LastLevel, NextLevel |-> s.NextLevel,
             range |-> 0, over |-> FALSE]]

\* The loop of Decrease; a SkillProbe stops at its minimum.
LevelsDown(s, expForLevel, min) ==
    LET fall[t \in [Act : Nat, Exp : Int, LastLevel : Int, NextLevel : Int, range : Int]] ==
          IF t.Exp < t.LastLevel /\ t.Act > min
          THEN fall[[t EXCEPT !.Act = @ - 1, !.NextLevel = t.LastLevel,
                              !.LastLevel = expForLevel[t.Act - 1], !.range = @ - 1]]
          ELSE t
    IN fall[[Act |-> s.Act, Exp |-> s.Exp, LastLevel |-> s.LastLevel, NextLevel |-> s.NextLevel, range |-> 0]]

Grown(t) == [Act |-> t.Act, Exp |-> t.Exp, LastLevel |-> t.LastLevel, NextLevel |-> t.NextLevel]

\* SkillLevel::Increase, with Jump.
LevelIncrease(amount) ==
    LET t == LevelsUp([level EXCEPT !.Exp = @ + amount], GetExpForLevel, Penalty)
    IN /\ level' = Grown(t)
       /\ hp' = Advance(hp, t.range)
       /\ capped' = (capped \/ t.over)
       /\ UNCHANGED probe

\* Mutant: a level that is lost leaves the hitpoints of its advance behind.
BugLevelDecrease(amount) ==
    LET t == LevelsDown([level EXCEPT !.Exp = IF amount < @ THEN @ - amount ELSE 0], GetExpForLevel, 0)
    IN /\ level' = Grown(t)
       /\ UNCHANGED <<hp, probe, capped>>

\* SkillLevel::Decrease.
LevelDecrease(amount) ==
    LET t == LevelsDown([level EXCEPT !.Exp = IF amount < @ THEN @ - amount ELSE 0], GetExpForLevel, 0)
    IN /\ level' = Grown(t)
       /\ hp' = Advance(hp, t.range)
       /\ UNCHANGED <<probe, capped>>

\* SkillProbe::Increase and Decrease.
ProbeIncrease(amount) ==
    LET t == LevelsUp([probe EXCEPT !.Exp = @ + amount], ProbeExpForLevel, 1)
    IN probe' = Grown(t) /\ capped' = (capped \/ t.over) /\ UNCHANGED <<level, hp>>

ProbeDecrease(amount) ==
    LET t == LevelsDown([probe EXCEPT !.Exp = IF amount < @ THEN @ - amount ELSE 0], ProbeExpForLevel, MinSkill)
    IN probe' = Grown(t) /\ UNCHANGED <<level, hp, capped>>

\* Experience for a kill; a skill that is used; TSkill::DecreasePercent for what
\* a death costs.
Gain ==
    /\ index = 0 /\ \E n \in Gains : level.Exp + n <= MaxExp /\ LevelIncrease(n)
    /\ UNCHANGED <<timerVars, index, IsDead>>

Train ==
    /\ index = 0 /\ probe.Exp < MaxExp /\ ProbeIncrease(1)
    /\ UNCHANGED <<timerVars, index, IsDead>>

Lose(percent) ==
    /\ index = 0
    /\ \/ LevelDecrease((level.Exp * percent) \div 100)
       \/ ProbeDecrease((probe.Exp * percent) \div 100)
    /\ UNCHANGED <<timerVars, index, IsDead>>

-----------------------------------------------------------------------------
(* Timers.                                                                 *)

\* The last timer takes the place of the one that goes.
SwapAndPop(list, i) ==
    LET n == Len(list) IN [k \in 1 .. n - 1 |-> IF k = i THEN list[n] ELSE list[k]]

\* SkillBase::DelTimer, on the list.
DelTimer(list, s) ==
    IF \E i \in DOMAIN list : list[i] = s
    THEN SwapAndPop(list, CHOOSE i \in DOMAIN list : list[i] = s)
    ELSE list

\* SkillBase::SetTimer.
SetTimer(t, s, c) ==
    [t EXCEPT !.list = Append(DelTimer(@, s), s), !.cycle[s] = c]

Effects == [list |-> TimerList, cycle |-> cycle, outfit |-> outfit]
NewTimers(t) == TimerList' = t.list /\ cycle' = t.cycle /\ outfit' = t.outfit

\* Hitpoints change by an event; the dead are not healed.
Points(amount) ==
    LET act == IF hp.Act + amount > hp.Max THEN hp.Max ELSE hp.Act + amount
    IN IF IsDead \/ act <= 0 THEN [hp EXCEPT !.Act = 0] ELSE [hp EXCEPT !.Act = act]

\* TCreature::Damage to a monster takes its illusion away.
Disclosed(t, amount) ==
    IF Type # "PLAYER" /\ t.outfit = "Illusion" /\ ~IsDead /\ amount > 0
    THEN [SetTimer(t, "ILLUSION", 0) EXCEPT !.outfit = "Org"] ELSE t

\* TSkill::Process and the events: poison grows weaker by a share of its
\* strength, the others by one, and who stands in a field is not released.
Process(s, field) ==
    LET range == IF s = "POISON" /\ cycle[s] \div 2 > 0 THEN cycle[s] \div 2 ELSE 1
        damage == IF s \in {"POISON", "BURNING"} THEN range ELSE 0
        t == Disclosed([Effects EXCEPT !.cycle[s] = @ - range], damage)
        ended == s = "ILLUSION" /\ t.cycle[s] = 0
        extra == IF field /\ s \in {"POISON", "BURNING"} /\ t.cycle[s] < MaxCycle THEN 1 ELSE 0
    IN /\ NewTimers([t EXCEPT !.cycle[s] = @ + extra, !.outfit = IF ended THEN "Org" ELSE @])
       /\ hp' = Points(IF s = "FED" THEN 1 ELSE -damage)
       /\ IsDead' = (hp'.Act = 0)

\* ProcessSkills: one turn of its loop.
ProcessSkills ==
    \/ /\ index > 0 /\ index <= Len(TimerList)
       /\ LET s == TimerList[index]
          IN \/ /\ cycle[s] = 0
                /\ TimerList' = SwapAndPop(TimerList, index)
                /\ UNCHANGED <<cycle, outfit, hp, IsDead, index>>
             \/ /\ cycle[s] # 0
                /\ \E field \in BOOLEAN : Process(s, field)
                /\ index' = index + 1
    \/ /\ index > Len(TimerList) /\ index' = 0
       /\ UNCHANGED <<timerVars, hp, IsDead>>

Round ==
    /\ index = 0 /\ TimerList # <<>> /\ index' = 1
    /\ UNCHANGED <<levelVars, timerVars, IsDead>>

\* Poison, fire, food and the spells that change the outfit.
StartTimer(s) ==
    /\ index = 0 /\ ~IsDead
    /\ \E c \in 1 .. MaxCycle :
          NewTimers([SetTimer(Effects, s, c) EXCEPT !.outfit = IF s = "ILLUSION" THEN "Illusion" ELSE @])
    /\ UNCHANGED <<levelVars, index, IsDead>>

Running(s) == IF cycle[s] # 0 THEN <<s>> ELSE <<>>

\* TSkill::Save and Load: the skills with an effect get their timers in the
\* order of their numbers; the next level is read, the last one computed.
Load ==
    /\ index = 0
    /\ level' = [level EXCEPT !.LastLevel = GetExpForLevel[level.Act]]
    /\ probe' = [probe EXCEPT !.LastLevel = ProbeExpForLevel[probe.Act]]
    /\ TimerList' = Running("ILLUSION") \o Running("FED") \o Running("POISON") \o Running("BURNING")
    /\ UNCHANGED <<hp, capped, cycle, outfit, index, IsDead>>

\* Bounds: levels change between effects, and no more once the formula ended;
\* effects begin at the first level.
Between == ~capped /\ TimerList = <<>>

SkillNext ==
    \/ Between /\ Gain
    \/ Between /\ Train
    \/ Between /\ Lose(50)
    \/ Load
    \/ ProcessSkills /\ UNCHANGED <<level, probe, capped>>
    \/ Round
    \/ level.Exp = 0 /\ probe.Exp = 0 /\ \E s \in Timed : StartTimer(s)

SkillSpec == SkillInit /\ [][SkillNext]_skillVars

-----------------------------------------------------------------------------
\* However it came to its level, by small steps or large, up and down, a
\* creature has the hitpoints of that level, and its experience lies between
\* the bounds that the formula gives the level: until the formula ends, where
\* the level that is entered is not counted.
LevelsAgree ==
    ~capped =>
        /\ level.LastLevel = GetExpForLevel[level.Act] /\ level.NextLevel = GetExpForLevel[level.Act + 1]
        /\ level.LastLevel <= level.Exp /\ level.Exp < level.NextLevel
        /\ hp.Max = MinHitPoints + AddLevel * (level.Act - 1) /\ hp.Act <= hp.Max
        /\ probe.Act >= MinSkill
        /\ probe.LastLevel = ProbeExpForLevel[probe.Act] /\ probe.NextLevel = ProbeExpForLevel[probe.Act + 1]
        /\ probe.LastLevel <= probe.Exp /\ probe.Exp < probe.NextLevel

\* Every effect that lasts has one timer in the list, so that it ends, and a
\* creature with a borrowed outfit has such an effect.
TimersAgree ==
    /\ \A i, j \in DOMAIN TimerList : TimerList[i] = TimerList[j] => i = j
    /\ \A s \in Timed : cycle[s] # 0 => \E i \in DOMAIN TimerList : TimerList[i] = s
    /\ outfit = "Illusion" => cycle["ILLUSION"] # 0

\* Levels and experience agree, and so do effects and timers, whatever Increase,
\* Decrease, SetTimer, DelTimer and ProcessSkills do in which order, also when a
\* timer that ends changes the list that ProcessSkills works through.
SkillsAgree == LevelsAgree /\ TimersAgree

=============================================================================
