-------------------------------- MODULE ToDo --------------------------------
(***************************************************************************)
(* The to-do lists of creatures (creature/actions/actions.cpp) and the     *)
(* queue of wake-ups that the main loop works off (move_creatures).  The   *)
(* commands of clients and the creatures' reactions to the world fill the  *)
(* lists; the queue executes them.                                         *)
(*                                                                         *)
(* Times are kept as their distance from ServerMilliseconds, 0 for a time  *)
(* that has come: the code only compares them with the clock.  A step      *)
(* takes up to StepBeats beats, depending on the ground and the speed, a   *)
(* use and the waits of 0.1 and 1 second take one, a blow takes two.       *)
(***************************************************************************)
EXTENDS Integers, Sequences, FiniteSets

CONSTANTS
    Creature,
    NoCreature,
    MaxSteps,      \* bound: entries of one command
    StepBeats      \* how many beats a step may take

ASSUME ToDoAssumption ==
    /\ NoCreature \notin Creature
    /\ MaxSteps \in Nat /\ StepBeats \in Nat \ {0}

VARIABLES
    todo,          \* the list of every creature and the times of its actions
    running,       \* the creature whose list is executed
    beat           \* whether move_creatures is working off the queue

todoVars == <<todo, running, beat>>

\* list is the array from ActToDo to NrToDo; queue are the keys under which the
\* creature is in ToDoQueue; walk, attack and multiuse are the earliest times of these
\* actions; chasing says that AttackDest is set, and
\* player that the creature has a client.  Entries are pairs of a code
\* and the time of a TDWait.  lists counts the lists that were started, modulo 2.
\* A second entry of the queue with the same key finds nothing to do.
Fresh == [LockToDo |-> FALSE, Stop |-> FALSE, list |-> <<>>, NextWakeup |-> 0,
          queue |-> {}, walk |-> 0, attack |-> 0, multiuse |-> 0,
          chasing |-> FALSE, player |-> TRUE, IsDead |-> FALSE, lists |-> 0]

\* Nobody looks at the list of a dead creature any more.
Dead == [Fresh EXCEPT !.IsDead = TRUE]

ToDoInit ==
    /\ todo \in [Creature -> {[Fresh EXCEPT !.player = b] : b \in BOOLEAN}]
    /\ running = NoCreature /\ beat = FALSE

Entry(code) == <<code, 0>>
TDWait(t) == <<"Wait", t>>
Greatest(a, b) == IF a > b THEN a ELSE b
Later(t) == IF t = 0 THEN 0 ELSE t - 1

-----------------------------------------------------------------------------

CalculateDelay(s) ==
    LET e == Head(s.list)
    IN CASE e[1] = "Wait" -> Greatest(e[2], s.walk)
         [] e[1] = "Go" -> s.walk
         [] e[1] = "UseTwo" -> s.multiuse
         [] e[1] = "Attack" -> s.attack
         [] OTHER -> 0

ToDoClear(s) ==
    [s EXCEPT !.LockToDo = FALSE, !.Stop = FALSE, !.list = <<>>]

ToDoAdd(s, e) ==
    LET t == IF s.LockToDo THEN ToDoClear(s) ELSE s IN [t EXCEPT !.list = Append(@, e)]

\* Mutant: the list is not put into the queue.
BugToDoStart(s) ==
    IF s.list = <<>> THEN s ELSE [s EXCEPT !.LockToDo = TRUE, !.NextWakeup = 1]

ToDoStart(s) ==
    IF s.list = <<>> THEN s
    ELSE LET delay == Greatest(1, CalculateDelay(s))
         IN [s EXCEPT !.LockToDo = TRUE, !.NextWakeup = delay, !.queue = @ \cup {delay}, !.lists = 1 - @]

ToDoWait(s, t) == ToDoAdd(s, TDWait(t))

ToDoYield(s) == IF s.LockToDo THEN s ELSE ToDoStart(ToDoWait(s, 0))

ToDoStop(s) == IF s.LockToDo THEN [s EXCEPT !.Stop = TRUE] ELSE s

\* ToDoGo adds some steps, or none if the creature is there, or it throws:
\* before it changes anything (another floor; the last entry leads there
\* already, NOERROR) or, if there is no way, after ToDoClear.
Walks == {[i \in 1 .. n |-> Entry("Go")] : n \in 0 .. MaxSteps}
AddAll(s, entries) ==
    IF entries = <<>> THEN s
    ELSE LET t == IF s.LockToDo THEN ToDoClear(s) ELSE s IN [t EXCEPT !.list = @ \o entries]

ToDoGo(s) ==
    {[s |-> AddAll(s, w), r |-> "ok"] : w \in Walks}
      \cup {[s |-> s, r |-> "failed"], [s |-> ToDoClear(s), r |-> "failed"]}
      \cup (IF s.LockToDo /\ s.list[Len(s.list)][1] = "Go" THEN {[s |-> s, r |-> "NOERROR"]} ELSE {})

\* The orders that need an object: refused, or a walk to the object, after
\* which f adds the rest.
AtObject(s, f(_)) ==
    {[s |-> s, r |-> "failed"]} \cup UNION {IF g.r = "ok" THEN f(g.s) ELSE {g} : g \in ToDoGo(s)}

Waiting(s, time, code) == [s |-> ToDoAdd(ToDoWait(s, time), Entry(code)), r |-> "ok"]

\* The move of a creature takes more time, and may be refused after the walk is
\* in the list.
ToDoMove(s) ==
    AtObject(s, LAMBDA t : {Waiting(t, 1, "Move"), Waiting(t, 1 + t.walk, "Move"), [s |-> t, r |-> "failed"]})
ToDoTrade(s) == AtObject(s, LAMBDA t : {[s |-> ToDoAdd(t, Entry("Trade")), r |-> "ok"]})
ToDoUse(s) == AtObject(s, LAMBDA t : {Waiting(t, 1, "UseTwo"), Waiting(t, 1, "Use")})
ToDoTurn(s) == AtObject(s, LAMBDA t : {Waiting(t, 1, "Turn")})

\* SetAttackDest and CanToDoAttack give up the target, or the creature walks to
\* it or away from it.
SetAttackDest(s) == {[s |-> [s EXCEPT !.chasing = b], r |-> IF b THEN "ok" ELSE "failed"] : b \in BOOLEAN}

CanToDoAttack(s) ==
    IF ~s.chasing THEN {[s |-> s, r |-> "ok"]}
    ELSE {[s |-> [s EXCEPT !.chasing = FALSE], r |-> "failed"]} \cup ToDoGo(s)

ToDoAttack(s) ==
    UNION {IF g.r # "ok" THEN {g}
           ELSE {[s |-> ToDoAdd(t, Entry("Attack")), r |-> "ok"] : t \in {g.s, ToDoWait(g.s, 1)}}
           : g \in CanToDoAttack(s)}

-----------------------------------------------------------------------------
\* The reactions of a creature.
\* TPlayer::IdleStimulus; monsters choose among the same lists.
IdleStimulus(s) ==
    IF ~s.chasing THEN {s}
    ELSE {IF x.r = "ok" THEN ToDoStart(x.s)
          ELSE IF x.r = "NOERROR" THEN ToDoClear(x.s)
          ELSE ToDoStart(ToDoWait(ToDoClear(x.s), 1)) : x \in ToDoAttack(s)}

\* TCreature::CreatureMoveStimulus: the target went away while its attacker was
\* waiting for the next blow.
CreatureMoveStimulus(s) ==
    IF ~s.chasing \/ s.IsDead \/ s.attack <= 1 \/ ~s.LockToDo \/ s.list = <<>> THEN {s}
    ELSE IF Head(s.list)[1] # "Attack" THEN {s}
    ELSE {IF x.r = "ok" THEN ToDoStart(x.s)
          ELSE ToDoStart(ToDoWait(ToDoClear(x.s), x.s.attack)) :
             x \in ToDoAttack(ToDoWait(ToDoClear(s), 1))}

\* What the execution of an entry does to the creature itself.
Ok(s) == [s |-> s, r |-> "ok"]
Failed(s) == [s |-> s, r |-> "failed"]

\* A drunken creature says "Hicks!" instead of following its list, and it may
\* die of what lies on the field.
Go(s) ==
    LET hicks == ToDoStart(ToDoAdd(ToDoClear(s), Entry("Talk")))
    IN {Ok(Dead)} \cup UNION {{Failed(t)} \cup {Ok([t EXCEPT !.walk = n]) : n \in 1 .. StepBeats} : t \in {s, hicks}}

\* Move and Use plan a new list if the creature must walk first.
Replan(orders) == {IF x.r = "ok" THEN Ok(ToDoStart(x.s)) ELSE x : x \in orders}

Move(s) == {Ok(s), Ok([s EXCEPT !.attack = 2]), Failed(s)} \cup Replan(ToDoMove(ToDoClear(s)))

Use(s) ==
    LET used == [s EXCEPT !.multiuse = 1] IN {Ok(used), Failed(used), Failed(s)} \cup Replan(ToDoUse(ToDoClear(s)))

\* TCombat::Attack: nothing to attack, a blow, one that cannot be struck, or
\* the end of the fight.
Attack(s) ==
    {Ok(s), Ok([s EXCEPT !.attack = 2]), Failed([s EXCEPT !.attack = Greatest(1, @)])}
      \cup {x \in {Ok([s EXCEPT !.chasing = FALSE]), Failed([s EXCEPT !.chasing = FALSE])} : s.chasing}

Perform(s, code) ==
    CASE code = "Wait" -> {Ok(s)}
      [] code = "Go" -> Go(s)
      [] code = "Move" -> Move(s)
      [] code = "UseTwo" -> Use(s)
      [] code = "Attack" -> Attack(s)
      [] code = "Talk" -> {Ok(s), [s |-> s, r |-> "EXHAUSTED"]}
      [] OTHER -> {Ok(s), Failed(s)}

-----------------------------------------------------------------------------
\* The commands of a client (protocol/receiving/receiving.cpp).
Caught(x, next) == IF x.r = "NOERROR" THEN x.s ELSE IF x.r = "ok" THEN ToDoStart(x.s) ELSE next

GoCommands(s) ==                    \* CGoPath, CGoDirection, CGoStop, CRotate
    {ToDoStart(AddAll(ToDoClear(s), w)) : w \in Walks}
      \cup {ToDoStop(s), ToDoStart(ToDoAdd(s, Entry("Turn")))}
MoveCommands(s) == {Caught(x, ToDoYield(x.s)) : x \in ToDoMove(s) \cup ToDoTrade(s)}
UseCommands(s) == {Caught(x, ToDoYield(ToDoClear(x.s))) : x \in ToDoUse(ToDoWait(s, 1))}
TurnCommand(s) == {Caught(x, ToDoYield(ToDoClear(x.s))) : x \in ToDoTurn(ToDoWait(s, 1))}
TalkCommand(s) == {ToDoStart(ToDoAdd(s, Entry("Talk")))}
AttackCommand(s) ==
    {Caught(x, ToDoYield(x.s)) :
        x \in UNION {IF g.r = "ok" THEN ToDoAttack(g.s) ELSE {g} : g \in SetAttackDest(s)}}
CancelCommand(s) == {ToDoYield(ToDoClear([s EXCEPT !.chasing = FALSE]))}

Command(c) ==
    /\ ~beat /\ todo[c].player /\ ~todo[c].IsDead
    /\ \E s \in GoCommands(todo[c]) \cup MoveCommands(todo[c]) \cup UseCommands(todo[c])
                 \cup TurnCommand(todo[c]) \cup TalkCommand(todo[c]) \cup AttackCommand(todo[c])
                 \cup CancelCommand(todo[c]) :
          todo' = [todo EXCEPT ![c] = s]
    /\ UNCHANGED <<running, beat>>

\* A monster that is hit, sees somebody come or is challenged begins to act.
WakeMonster(c) ==
    /\ running # c /\ ~todo[c].player /\ ~todo[c].IsDead
    /\ todo' = [todo EXCEPT ![c] = ToDoYield([@ EXCEPT !.chasing = TRUE])]
    /\ UNCHANGED <<running, beat>>

\* Another creature moves this one: NotifyGo.  The next step, and whatever waits,
\* is put off from now, however often it happens.
Push(c) ==
    /\ running # c /\ ~todo[c].IsDead
    /\ \E n \in 1 .. StepBeats : todo' = [todo EXCEPT ![c].walk = n]
    /\ UNCHANGED <<running, beat>>

\* Others act on a creature while it is not executing its own list: its target
\* moves, or it is killed.
Affected(c) ==
    /\ running # c
    /\ todo' \in {[todo EXCEPT ![c] = s] : s \in CreatureMoveStimulus(todo[c]) \cup {Dead}}
    /\ UNCHANGED <<running, beat>>

\* move_creatures: the clock goes on, and the wake-ups that are due are taken.
Elapse(s) ==
    [s EXCEPT !.queue = {Later(t) : t \in @}, !.NextWakeup = Later(@), !.walk = Later(@),
              !.attack = Later(@), !.multiuse = Later(@),
              !.list = [i \in DOMAIN @ |-> <<@[i][1], Later(@[i][2])>>]]

Beat ==
    /\ ~beat
    /\ todo' = [c \in Creature |-> Elapse(todo[c])]
    /\ beat' = TRUE
    /\ UNCHANGED running

deleteMin(c) ==
    /\ beat /\ running = NoCreature /\ 0 \in todo[c].queue
    /\ todo' = [todo EXCEPT ![c].queue = @ \ {0}]
    /\ running' = c
    /\ UNCHANGED beat

BeatDone ==
    /\ beat /\ running = NoCreature /\ \A c \in Creature : 0 \notin todo[c].queue
    /\ beat' = FALSE
    /\ UNCHANGED <<todo, running>>

\* TCreature::Execute, one iteration of its loop at a time.
Idle(s) == ~s.LockToDo \/ s.IsDead \/ s.NextWakeup > 0

\* Nothing to do; the end of the list; an action that must wait.
Rest ==
    /\ running # NoCreature
    /\ LET s == todo[running]
           delay == CalculateDelay(s)
       IN todo' \in {[todo EXCEPT ![running] = t] :
              t \in IF Idle(s) THEN {s}
                    ELSE IF s.list = <<>> THEN IdleStimulus(ToDoClear(s))
                    ELSE IF delay = 0 THEN {}
                    ELSE IF s.Stop THEN {ToDoClear(s)}
                    ELSE {[s EXCEPT !.NextWakeup = delay, !.queue = @ \cup {delay}]}}
    /\ running' = NoCreature
    /\ UNCHANGED beat

Act ==
    /\ running # NoCreature
    /\ LET c == running
           s == todo[c]
           code == Head(s.list)[1]
       IN /\ ~Idle(s) /\ s.list # <<>> /\ CalculateDelay(s) = 0
          /\ \E x \in Perform([s EXCEPT !.list = Tail(@)], code) :
                IF x.r # "ok"
                THEN /\ todo' = [todo EXCEPT ![c] =
                           IF x.r = "EXHAUSTED" THEN ToDoStart(ToDoWait(ToDoClear(x.s), 1))
                           ELSE ToDoYield(ToDoClear(x.s))]
                     /\ running' = NoCreature
                ELSE /\ todo' = [todo EXCEPT ![c] = IF x.s.Stop THEN ToDoClear(x.s) ELSE x.s]
                     /\ running' = IF x.s.Stop THEN NoCreature ELSE c
    /\ UNCHANGED beat

ToDoNext ==
    \/ \E c \in Creature : Command(c) \/ WakeMonster(c) \/ Push(c) \/ Affected(c) \/ deleteMin(c)
    \/ Beat \/ BeatDone \/ Rest \/ Act

ToDoSpec == ToDoInit /\ [][ToDoNext]_todoVars

-----------------------------------------------------------------------------
\* A creature with something to do will be woken: between two steps of the main
\* loop no list is left that was filled and not started, also by a command that
\* was refused half way, and a started list of a living creature is in the queue
\* with the time it waits for, which has not been missed.
ListsAreQueued ==
    \A c \in Creature \ {running} :
        LET s == todo[c]
        IN ~s.IsDead =>
             /\ s.LockToDo <=> s.list # <<>>
             /\ s.LockToDo => /\ s.NextWakeup \in s.queue
                              /\ s.NextWakeup > 0 \/ beat


=============================================================================
