-------------------------------- MODULE Npc ---------------------------------
(***************************************************************************)
(* A non-player character and the players who talk to it                   *)
(* (creature/npc/npc.cpp): whom it serves, who waits in its queue, and the *)
(* to-do list in which it answers.  The behaviour database is given by the *)
(* lists of actions with which it can react in a situation.                *)
(***************************************************************************)
EXTENDS Integers, Sequences, FiniteSets, SequencesExt

CONSTANTS
    Visitor,       \* the players
    Nobody,
    Patience,      \* rounds of silence after which the NPC turns away (30)
    MaxTalks       \* bound: how often players speak

VARIABLES
    npc,           \* State, Interlocutor, QueuedPlayers and the to-do list
    place,         \* where every player is: "near", "sight" or "gone"
    quiet,         \* rounds since LastTalk
    talks

npcVars == <<npc, place, quiet, talks>>

\* list are the entries from ActToDo on: "Wait", "Talk", "Go" and "Idle", which
\* is TDChangeState to IDLE.
NpcInit ==
    /\ npc = [State |-> "SLEEPING", Interlocutor |-> Nobody, queue |-> <<>>,
              list |-> <<>>, LockToDo |-> FALSE]
    /\ place = [p \in Visitor |-> "gone"]
    /\ quiet = 0 /\ talks = 0

\* The reactions of the scripts: what they do of Reply, Idle, Queue and Teleport,
\* in this order.  A script answers every address, be it with Idle; Queue is an
\* action for BUSY only.
Behaviour(situation) ==
    CASE situation \in {"ADDRESS", "ADDRESSQUEUE"} -> {{"Reply"}, {"Idle"}, {"Reply", "Idle"}}
      [] situation = "BUSY" -> {{}, {"Reply"}, {"Reply", "Queue"}}
      [] situation = "VANISH" -> {{}, {"Reply"}, {"Idle"}, {"Reply", "Idle"}}
      [] situation = "DEFAULT" ->
             {{}, {"Reply"}, {"Reply", "Idle"}, {"Reply", "Idle", "Teleport"}, {"Reply", "Teleport"}}

-----------------------------------------------------------------------------
\* The to-do list; a change of state that is still to come is made when the
\* list is cleared.
\* Mutant: ToDoClear drops the changes of state.
BugClearList(n) == [n EXCEPT !.list = <<>>, !.LockToDo = FALSE]

ClearList(n) ==
    [n EXCEPT !.list = <<>>, !.LockToDo = FALSE,
              !.State = IF Contains(n.list, "Idle") THEN "IDLE" ELSE @]

AddEntry(n, e) ==
    LET m == IF n.LockToDo THEN ClearList(n) ELSE n IN [m EXCEPT !.list = Append(@, e)]

StartList(n) == [n EXCEPT !.LockToDo = n.list # <<>> \/ @]
Yield(n) == IF n.LockToDo THEN n ELSE StartList(AddEntry(n, "Wait"))

ChangeState(n, state, stimulus) ==
    LET m == [n EXCEPT !.State = state] IN IF stimulus THEN Yield(m) ELSE m

Enqueue(n, p) == IF Contains(n.queue, p) THEN n ELSE [n EXCEPT !.queue = Append(@, p)]

-----------------------------------------------------------------------------
\* BehaviourDatabase::react.  The interlocutor of x.n is the speaker, and
\* x.where is where the players are.
Begin(n, where) == [n |-> n, where |-> where, start |-> FALSE]

Answered(x) == [x EXCEPT !.n = AddEntry(AddEntry(@, "Wait"), "Talk"), !.start = TRUE]

Dismissed(x, situation) ==
    IF x.start THEN [x EXCEPT !.n = AddEntry(ChangeState(@, "LEAVING", FALSE), "Idle")]
    ELSE [x EXCEPT !.n = ChangeState(@, "IDLE", FALSE), !.start = situation # "ADDRESSQUEUE"]

Reacted(x, acts, situation) ==
    LET a == IF "Reply" \in acts THEN Answered(x) ELSE x
        b == IF "Idle" \in acts THEN Dismissed(a, situation) ELSE a
    IN IF "Queue" \in acts THEN [b EXCEPT !.n = Enqueue(@, @.Interlocutor)] ELSE b

Finished(x) == [x EXCEPT !.n = IF x.start THEN StartList(AddEntry(@, "Wait")) ELSE @]

\* The NPC says goodbye to one who has gone.
Vanish(n, where) ==
    {LET x == Finished(Reacted(Begin(n, where), acts, "VANISH"))
     IN ChangeState(x.n, "IDLE", TRUE) : acts \in Behaviour("VANISH")}

\* The loop over the queue in CreatureMoveStimulus: with i it goes past those who
\* stay, and takes out those who are no longer near.
Stay(queue, p, where) ==
    LET Rest[t \in (Nat \ {0}) \X Seq(Visitor)] ==
            LET i == t[1]
                q == t[2]
            IN IF i > Len(q) THEN q
               ELSE IF p \notin {q[i], Nobody} \/ where[q[i]] = "near" THEN Rest[<<i + 1, q>>]
               ELSE Rest[<<i, RemoveAt(q, i)>>]
    IN Rest[<<1, queue>>]

\* TNPC::CreatureMoveStimulus: of a player p, who is now at where[p], or of the
\* NPC, which may be pushed.  A player who is gone is far away or deleted; an NPC
\* that was taking its leave of one who is deleted is idle when it is pushed.
MoveStimulus(n, p, where) ==
    LET m == [n EXCEPT !.queue = Stay(@, p, where)]
        vanished == /\ m.State = "TALKING" /\ p \in {m.Interlocutor, Nobody}
                    /\ where[m.Interlocutor] # "near"
        lost == m.State = "LEAVING" /\ p = Nobody /\ where[m.Interlocutor] = "gone"
        after == IF vanished THEN Vanish(m, where)
                 ELSE {m} \cup (IF lost THEN {ChangeState(m, "IDLE", TRUE)} ELSE {})
    IN {IF k.State = "SLEEPING" /\ p # Nobody /\ where[p] # "gone" THEN ChangeState(k, "IDLE", TRUE) ELSE k : k \in after}

\* Teleport takes the speaker away: the NPC notices it at once, in the middle
\* of its reaction.
Teleport(x) ==
    LET p == x.n.Interlocutor
        where == [x.where EXCEPT ![p] = "gone"]
    IN {[x EXCEPT !.n = n, !.where = where] : n \in MoveStimulus(x.n, p, where)}

react(n, where, situation) ==
    UNION {LET x == Reacted(Begin(n, where), acts, situation)
           IN {Finished(y) : y \in IF "Teleport" \in acts THEN Teleport(x) ELSE {x}} :
           acts \in Behaviour(situation)}

-----------------------------------------------------------------------------
\* TNPC::TalkStimulus.
TalkStimulus(n, p) ==
    IF n.State = "TALKING" \/ n.queue # <<>>
    THEN IF p = n.Interlocutor THEN react(n, place, "DEFAULT")
         ELSE {[x EXCEPT !.n.Interlocutor = n.Interlocutor] :
                  x \in react([n EXCEPT !.Interlocutor = p], place, "BUSY")}
    ELSE react([ChangeState(ClearList(n), "TALKING", FALSE) EXCEPT !.Interlocutor = p], place, "ADDRESS")

Say(p) ==
    /\ place[p] = "near" /\ talks < MaxTalks
    /\ talks' = talks + 1
    /\ \E x \in TalkStimulus(npc, p) : npc' = x.n /\ place' = x.where
    /\ quiet' = IF p = npc.Interlocutor \/ (npc.State # "TALKING" /\ npc.queue = <<>>) THEN 0 ELSE quiet

Walk(p) ==
    /\ \E where \in {"near", "sight", "gone"} \ {place[p]} : place' = [place EXCEPT ![p] = where]
    /\ npc' \in MoveStimulus(npc, p, place')
    /\ UNCHANGED <<quiet, talks>>

\* The NPC is pushed away from some of the players.
Pushed ==
    /\ \E S \in SUBSET {q \in Visitor : place[q] = "near"} \ {{}} :
           place' = [p \in Visitor |-> IF p \in S THEN "sight" ELSE place[p]]
    /\ npc' \in MoveStimulus(npc, Nobody, place')
    /\ UNCHANGED <<quiet, talks>>

\* TNPC::IdleStimulus.  The first player of the queue is asked.
Serve(n) ==
    LET p == Head(n.queue)
        m == ClearList([n EXCEPT !.queue = Tail(@)])
    IN {x.n : x \in react([ChangeState(m, "TALKING", FALSE) EXCEPT !.Interlocutor = p], place, "ADDRESSQUEUE")}

\* They are asked in turn until one is served, the i-th; what was done for those
\* before it is undone when the list is cleared for the next one.
ServeQueue(n) ==
    IF n.queue = <<>> THEN {n}
    ELSE UNION {{m \in Serve([n EXCEPT !.queue = SubSeq(@, i, Len(@))]) : m.State = "TALKING" \/ m.queue = <<>>} :
                i \in 1 .. Len(n.queue)}

Wander(n) ==
    IF n.State # "IDLE" \/ n.LockToDo THEN {n}
    ELSE IF \A p \in Visitor : place[p] = "gone" THEN {ChangeState(n, "SLEEPING", FALSE)}
    ELSE {StartList([n EXCEPT !.list = @ \o l]) : l \in {<<"Go", "Wait">>, <<"Wait">>}}

\* Mutant: the NPC waits for its interlocutor however long it is silent.
BugEndOfList(n) ==
    IF n.State = "TALKING" THEN {StartList(AddEntry(n, "Wait"))}
    ELSE UNION {Wander(m) : m \in ServeQueue(n)}

EndOfList(n) ==
    IF n.State = "TALKING" /\ quiet < Patience THEN {StartList(AddEntry(n, "Wait"))}
    ELSE LET awake == IF n.State = "TALKING"
                      THEN {ChangeState(x.n, "IDLE", FALSE) : x \in react(n, place, "VANISH")} ELSE {n}
         IN UNION {IF k.State = "IDLE" THEN UNION {Wander(m) : m \in ServeQueue(k)} ELSE {k} : k \in awake}

\* TCreature::Execute, one entry.  A step may be impossible.
ExecuteNpc ==
    /\ npc.LockToDo
    /\ LET m == [npc EXCEPT !.list = Tail(@)]
       IN npc' \in IF npc.list = <<>> THEN EndOfList(ClearList(npc))
                   ELSE IF Head(npc.list) = "Idle" THEN {ChangeState(m, "IDLE", TRUE)}
                   ELSE IF Head(npc.list) = "Go" THEN {m, Yield(ClearList(m))}
                   ELSE {m}
    /\ quiet' = IF npc.list = <<>> /\ npc'.State = "TALKING" /\ npc'.Interlocutor # npc.Interlocutor
                THEN 0 ELSE quiet
    /\ UNCHANGED <<place, talks>>

Silence == quiet < Patience /\ quiet' = quiet + 1 /\ UNCHANGED <<npc, place, talks>>

NpcNext == (\E p \in Visitor : Say(p) \/ Walk(p)) \/ Pushed \/ ExecuteNpc \/ Silence

NpcSpec == NpcInit /\ [][NpcNext]_npcVars

-----------------------------------------------------------------------------
\* A conversation never gets stuck (TNPC::IdleStimulus, CreatureMoveStimulus and
\* TCreature::ToDoClear).  An NPC that is awake has a to-do list, at the end of
\* which it looks at its queue and its patience; one that takes its leave becomes
\* idle with this list; the one it talks to and those who wait are still there,
\* and nobody waits twice.
ConversationGoesOn ==
    /\ npc.State # "SLEEPING" => npc.LockToDo
    /\ npc.State = "LEAVING" => Contains(npc.list, "Idle")
    /\ npc.State = "TALKING" => place[npc.Interlocutor] = "near"
    /\ IsInjective(npc.queue) /\ \A i \in DOMAIN npc.queue : place[npc.queue[i]] = "near"

\* Who waits in the queue is served in the end, or leaves, when the others fall
\* silent (TNPC::IdleStimulus).
QueueServed == \A p \in Visitor : Contains(npc.queue, p) ~> ~Contains(npc.queue, p)

=============================================================================
