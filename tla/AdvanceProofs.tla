---------------------------- MODULE AdvanceProofs ---------------------------
(***************************************************************************)
(* What AdvanceGame works through: the to-do lists (move_creatures), the   *)
(* timers and levels of the skills (process_skills), the objects that      *)
(* expire (process_cron_system), and the NPCs, which answer in their to-do *)
(* lists.  Each has a part of its own below.                               *)
(*                                                                         *)
(* No to-do list is forgotten, for any number of creatures and any length  *)
(* of the lists.  The operations on a list keep it ready: if it is started *)
(* it is in the queue.  What starts a list, or yields, then leaves nothing *)
(* unstarted.  The creature that executes its list is the exception: its   *)
(* entry of the queue has been taken.                                      *)
(***************************************************************************)
EXTENDS ToDo, Skills, Cron, Npc, WellFoundedInduction, SequenceTheorems, FiniteSetTheorems, TLAPS

Code == {"Wait", "Go", "Move", "Trade", "UseTwo", "Use", "Turn", "Attack", "Talk"}
Item == Code \X Nat

ToDoRecord ==
    [LockToDo : BOOLEAN, Stop : BOOLEAN, list : Seq(Item), NextWakeup : Nat,
     queue : SUBSET Nat, walk : Nat, attack : Nat, multiuse : Nat,
     chasing : BOOLEAN, player : BOOLEAN, IsDead : BOOLEAN, lists : {0, 1}]

ToDoTypeOK ==
    /\ todo \in [Creature -> ToDoRecord]
    /\ running \in Creature \cup {NoCreature}
    /\ beat \in BOOLEAN

\* A started list is in the queue; now says that move_creatures is at work, so
\* that its time may have come.
Ready(s, now) ==
    s.LockToDo => /\ s.list # <<>>
                  /\ s.NextWakeup \in s.queue
                  /\ s.NextWakeup > 0 \/ now

\* Every entry belongs to a started list.
Queued(s, now) == Ready(s, now) /\ (s.list # <<>> => s.LockToDo)

\* The creature that is executing its list.
Executing(s) ==
    /\ s.list # <<>> => s.LockToDo
    /\ s.LockToDo /\ s.NextWakeup > 0 => s.list # <<>> /\ s.NextWakeup \in s.queue

ToDoInv ==
    /\ ToDoTypeOK
    /\ ~beat => running = NoCreature
    /\ \A c \in Creature :
          todo[c].IsDead \/ IF c = running THEN Executing(todo[c]) ELSE Queued(todo[c], beat)

-----------------------------------------------------------------------------
(* The operations on one list.                                             *)

LEMMA GreatestOf ==
    ASSUME NEW a \in Nat, NEW b \in Nat
    PROVE  Greatest(a, b) \in Nat /\ Greatest(a, b) >= a /\ Greatest(a, b) >= b
BY DEF Greatest

LEMMA DelayIsTime ==
    ASSUME NEW s \in ToDoRecord, s.list # <<>>
    PROVE  CalculateDelay(s) \in Nat
<1>1. s.list \in Seq(Item) /\ s.walk \in Nat /\ s.attack \in Nat /\ s.multiuse \in Nat  BY DEF ToDoRecord
<1>2. Head(s.list) \in Item  BY <1>1
<1>3. Head(s.list)[2] \in Nat  BY <1>2 DEF Item
<1>4. Greatest(Head(s.list)[2], s.walk) \in Nat  BY <1>1, <1>3, GreatestOf
<1> QED  BY <1>1, <1>4 DEF CalculateDelay

LEMMA EntryIsItem ==
    /\ \A code \in Code : Entry(code) \in Item
    /\ \A t \in Nat : TDWait(t) \in Item
<1>1. "Wait" \in Code  BY DEF Code
<1> QED  BY <1>1 DEF Entry, TDWait, Item

LEMMA ClearStep ==
    ASSUME NEW s \in ToDoRecord
    PROVE  /\ ToDoClear(s) \in ToDoRecord
           /\ ~ToDoClear(s).LockToDo /\ ToDoClear(s).list = <<>>
           /\ ToDoClear(s).attack = s.attack /\ ToDoClear(s).chasing = s.chasing
<1> DEFINE n1 == [s EXCEPT !.LockToDo = FALSE]
           n2 == [n1 EXCEPT !.Stop = FALSE]
           n3 == [n2 EXCEPT !.list = <<>>]
<1>1. ToDoClear(s) = n3  BY DEF ToDoClear
<1>2. n1 \in ToDoRecord /\ ~n1.LockToDo /\ n1.attack = s.attack /\ n1.chasing = s.chasing
  BY DEF ToDoRecord
<1> HIDE DEF n1
<1>3. n2 \in ToDoRecord /\ ~n2.LockToDo /\ n2.attack = s.attack /\ n2.chasing = s.chasing
  BY <1>2 DEF ToDoRecord
<1> HIDE DEF n2
<1>4. <<>> \in Seq(Item)  OBVIOUS
<1>5. n3 \in ToDoRecord /\ ~n3.LockToDo /\ n3.list = <<>> /\ n3.attack = s.attack /\ n3.chasing = s.chasing
  BY <1>3, <1>4 DEF ToDoRecord
<1> QED  BY <1>1, <1>5

LEMMA AddStep ==
    ASSUME NEW s \in ToDoRecord, NEW e \in Item
    PROVE  /\ ToDoAdd(s, e) \in ToDoRecord
           /\ ~ToDoAdd(s, e).LockToDo /\ ToDoAdd(s, e).list # <<>>
           /\ ToDoAdd(s, e).attack = s.attack /\ ToDoAdd(s, e).chasing = s.chasing
<1> DEFINE t == IF s.LockToDo THEN ToDoClear(s) ELSE s
           n == [t EXCEPT !.list = Append(@, e)]
<1>1. t \in ToDoRecord /\ ~t.LockToDo /\ t.attack = s.attack /\ t.chasing = s.chasing  BY ClearStep
<1>2. ToDoAdd(s, e) = n  BY DEF ToDoAdd
<1> HIDE DEF t
<1>3. t.list \in Seq(Item)  BY <1>1 DEF ToDoRecord
<1>4. Append(t.list, e) \in Seq(Item) /\ Append(t.list, e) # <<>>  BY <1>3
<1>5. n = [t EXCEPT !.list = Append(t.list, e)]  OBVIOUS
<1>6. /\ n \in ToDoRecord /\ n.list = Append(t.list, e) /\ n.LockToDo = t.LockToDo
      /\ n.attack = t.attack /\ n.chasing = t.chasing
  BY <1>1, <1>4, <1>5 DEF ToDoRecord
<1> QED  BY <1>1, <1>2, <1>4, <1>6

LEMMA StartStep ==
    ASSUME NEW s \in ToDoRecord, NEW now \in BOOLEAN, Ready(s, now)
    PROVE  ToDoStart(s) \in ToDoRecord /\ Queued(ToDoStart(s), now)
<1>1. CASE s.list = <<>>
  BY <1>1 DEF ToDoStart, Queued, Ready
<1>2. CASE s.list # <<>>
  <2> DEFINE d == Greatest(1, CalculateDelay(s))
             q == s.queue \cup {d}
             k == 1 - s.lists
             n1 == [s EXCEPT !.LockToDo = TRUE]
             n2 == [n1 EXCEPT !.NextWakeup = d]
             n3 == [n2 EXCEPT !.queue = q]
             n4 == [n3 EXCEPT !.lists = k]
  <2>1. d \in Nat /\ d > 0
    <3>1. CalculateDelay(s) \in Nat /\ 1 \in Nat  BY <1>2, DelayIsTime
    <3>2. d \in Nat /\ d >= 1  BY <3>1, GreatestOf
    <3> QED  BY <3>2
  <2>2. ToDoStart(s) = n4  BY <1>2 DEF ToDoStart
  <2> HIDE DEF d
  <2>3. q \in SUBSET Nat /\ d \in q /\ k \in {0, 1}  BY <2>1 DEF ToDoRecord
  <2> HIDE DEF q, k
  <2>4. n1 \in ToDoRecord /\ n1.LockToDo /\ n1.list = s.list  BY DEF ToDoRecord
  <2> HIDE DEF n1
  <2>5. n2 \in ToDoRecord /\ n2.LockToDo /\ n2.list = s.list /\ n2.NextWakeup = d  BY <2>1, <2>4 DEF ToDoRecord
  <2> HIDE DEF n2
  <2>6. n3 \in ToDoRecord /\ n3.LockToDo /\ n3.list = s.list /\ n3.NextWakeup = d /\ n3.queue = q
    BY <2>3, <2>5 DEF ToDoRecord
  <2> HIDE DEF n3
  <2>7. n4 \in ToDoRecord /\ n4.LockToDo /\ n4.list = s.list /\ n4.NextWakeup = d /\ n4.queue = q
    BY <2>3, <2>6 DEF ToDoRecord
  <2> HIDE DEF n4
  <2> QED  BY <1>2, <2>1, <2>2, <2>3, <2>7 DEF Queued, Ready
<1> QED  BY <1>1, <1>2

LEMMA WaitStep ==
    ASSUME NEW s \in ToDoRecord, NEW t \in Nat
    PROVE  /\ ToDoWait(s, t) \in ToDoRecord
           /\ ~ToDoWait(s, t).LockToDo /\ ToDoWait(s, t).list # <<>>
           /\ ToDoWait(s, t).attack = s.attack /\ ToDoWait(s, t).chasing = s.chasing
BY AddStep, EntryIsItem DEF ToDoWait

\* What is not started is ready: nothing is promised of it yet.
LEMMA UnlockedIsReady == \A s, now : ~s.LockToDo => Ready(s, now)
BY DEF Ready

LEMMA YieldStep ==
    ASSUME NEW s \in ToDoRecord, NEW now \in BOOLEAN, Ready(s, now)
    PROVE  ToDoYield(s) \in ToDoRecord /\ Queued(ToDoYield(s), now)
<1>1. CASE s.LockToDo
  BY <1>1 DEF ToDoYield, Queued
<1>2. CASE ~s.LockToDo
  <2>1. ToDoWait(s, 0) \in ToDoRecord /\ Ready(ToDoWait(s, 0), now)  BY WaitStep, UnlockedIsReady
  <2> QED  BY <1>2, <2>1, StartStep DEF ToDoYield
<1> QED  BY <1>1, <1>2

LEMMA StopStep ==
    ASSUME NEW s \in ToDoRecord, NEW now \in BOOLEAN, Queued(s, now)
    PROVE  ToDoStop(s) \in ToDoRecord /\ Queued(ToDoStop(s), now)
<1> DEFINE n == [s EXCEPT !.Stop = TRUE]
<1>1. /\ n \in ToDoRecord /\ n.LockToDo = s.LockToDo /\ n.list = s.list
      /\ n.NextWakeup = s.NextWakeup /\ n.queue = s.queue
  BY DEF ToDoRecord
<1> HIDE DEF n
<1>2. Queued(n, now)  BY <1>1 DEF Queued, Ready
<1>3. ToDoStop(s) = n \/ ToDoStop(s) = s  BY DEF ToDoStop, n
<1> QED  BY <1>1, <1>2, <1>3

LEMMA WalkIsItems == Walks \subseteq Seq(Item)
<1> SUFFICES ASSUME NEW n \in 0 .. MaxSteps PROVE [i \in 1 .. n |-> Entry("Go")] \in Seq(Item)
  BY DEF Walks
<1>1. n \in Nat  BY ToDoAssumption
<1>2. Entry("Go") \in Item  BY EntryIsItem DEF Code
<1> QED  BY <1>1, <1>2

LEMMA AddAllStep ==
    ASSUME NEW s \in ToDoRecord, NEW w \in Walks, NEW now \in BOOLEAN, Ready(s, now)
    PROVE  AddAll(s, w) \in ToDoRecord /\ Ready(AddAll(s, w), now)
<1>1. CASE w = <<>>
  BY <1>1 DEF AddAll
<1>2. CASE w # <<>>
  <2> DEFINE t == IF s.LockToDo THEN ToDoClear(s) ELSE s
             n == [t EXCEPT !.list = @ \o w]
  <2>1. t \in ToDoRecord /\ ~t.LockToDo  BY ClearStep
  <2>2. AddAll(s, w) = n  BY <1>2 DEF AddAll
  <2> HIDE DEF t
  <2>3. t.list \in Seq(Item)  BY <2>1 DEF ToDoRecord
  <2>4. t.list \o w \in Seq(Item)  BY <2>3, WalkIsItems
  <2>5. n = [t EXCEPT !.list = t.list \o w]  OBVIOUS
  <2>6. n \in ToDoRecord /\ n.LockToDo = t.LockToDo  BY <2>1, <2>4, <2>5 DEF ToDoRecord
  <2> QED  BY <2>1, <2>2, <2>6, UnlockedIsReady
<1> QED  BY <1>1, <1>2

-----------------------------------------------------------------------------
(* Orders: a list that is being filled, and how that went.                 *)

\* If the order is there already nothing has changed, and the list is started.
Order(x, now) ==
    /\ x.s \in ToDoRecord /\ Ready(x.s, now)
    /\ x.r = "NOERROR" => x.s.LockToDo

LEMMA OrderOf ==
    ASSUME NEW s \in ToDoRecord, NEW now \in BOOLEAN, Ready(s, now)
    PROVE  Order([s |-> s, r |-> "ok"], now) /\ Order([s |-> s, r |-> "failed"], now)
BY DEF Order

LEMMA GoOrders ==
    ASSUME NEW s \in ToDoRecord, NEW now \in BOOLEAN, Ready(s, now), NEW x \in ToDoGo(s)
    PROVE  Order(x, now)
<1>1. ASSUME NEW w \in Walks, x = [s |-> AddAll(s, w), r |-> "ok"] PROVE Order(x, now)
  BY <1>1, AddAllStep, OrderOf
<1>2. CASE x = [s |-> s, r |-> "failed"]
  BY <1>2, OrderOf
<1>3. CASE x = [s |-> ToDoClear(s), r |-> "failed"]
  <2>1. ToDoClear(s) \in ToDoRecord /\ ~ToDoClear(s).LockToDo
    BY ClearStep
  <2>2. Ready(ToDoClear(s), now)
    BY <2>1, UnlockedIsReady
  <2> QED
    BY <1>3, <2>1, <2>2, OrderOf
<1>4. CASE s.LockToDo /\ x = [s |-> s, r |-> "NOERROR"]
  BY <1>4 DEF Order
<1> QED  BY <1>1, <1>2, <1>3, <1>4 DEF ToDoGo

LEMMA WaitingOrder ==
    ASSUME NEW s \in ToDoRecord, NEW now \in BOOLEAN, NEW time \in Nat, NEW code \in Code
    PROVE  Order(Waiting(s, time, code), now)
<1>1. ToDoWait(s, time) \in ToDoRecord  BY WaitStep
<1>2. Entry(code) \in Item  BY EntryIsItem
<1>3. /\ ToDoAdd(ToDoWait(s, time), Entry(code)) \in ToDoRecord
      /\ ~ToDoAdd(ToDoWait(s, time), Entry(code)).LockToDo
  BY <1>1, <1>2, AddStep
<1> QED  BY <1>3, UnlockedIsReady, OrderOf DEF Waiting

LEMMA MoveOrders ==
    ASSUME NEW s \in ToDoRecord, NEW now \in BOOLEAN, Ready(s, now), NEW x \in ToDoMove(s)
    PROVE  Order(x, now)
<1>1. CASE x = [s |-> s, r |-> "failed"]
  BY <1>1, OrderOf
<1>2. ASSUME NEW g \in ToDoGo(s), x = g \/ x = [s |-> g.s, r |-> "failed"]
                                          \/ x = Waiting(g.s, 1, "Move") \/ x = Waiting(g.s, 1 + g.s.walk, "Move")
      PROVE  Order(x, now)
  <2>1. Order(g, now)  BY GoOrders
  <2>2. g.s \in ToDoRecord /\ Ready(g.s, now) /\ "Move" \in Code  BY <2>1 DEF Order, Code
  <2>3. 1 \in Nat /\ 1 + g.s.walk \in Nat  BY <2>2 DEF ToDoRecord
  <2> QED  BY <1>2, <2>1, <2>2, <2>3, WaitingOrder, OrderOf
<1> QED  BY <1>1, <1>2 DEF ToDoMove, AtObject

LEMMA TradeOrders ==
    ASSUME NEW s \in ToDoRecord, NEW now \in BOOLEAN, Ready(s, now), NEW x \in ToDoTrade(s)
    PROVE  Order(x, now)
<1>1. CASE x = [s |-> s, r |-> "failed"]
  BY <1>1, OrderOf
<1>2. ASSUME NEW g \in ToDoGo(s), x = g \/ x = [s |-> ToDoAdd(g.s, Entry("Trade")), r |-> "ok"]
      PROVE  Order(x, now)
  <2>1. Order(g, now)  BY GoOrders
  <2>2. g.s \in ToDoRecord /\ Entry("Trade") \in Item  BY <2>1, EntryIsItem DEF Order, Code
  <2>3. Ready(ToDoAdd(g.s, Entry("Trade")), now) /\ ToDoAdd(g.s, Entry("Trade")) \in ToDoRecord
    BY <2>2, AddStep, UnlockedIsReady
  <2> QED  BY <1>2, <2>1, <2>3, OrderOf
<1> QED  BY <1>1, <1>2 DEF ToDoTrade, AtObject

LEMMA UseOrders ==
    ASSUME NEW s \in ToDoRecord, NEW now \in BOOLEAN, Ready(s, now), NEW x \in ToDoUse(s)
    PROVE  Order(x, now)
<1>1. CASE x = [s |-> s, r |-> "failed"]
  BY <1>1, OrderOf
<1>2. ASSUME NEW g \in ToDoGo(s), x = g \/ x = Waiting(g.s, 1, "UseTwo") \/ x = Waiting(g.s, 1, "Use")
      PROVE  Order(x, now)
  <2>1. Order(g, now)  BY GoOrders
  <2>2. g.s \in ToDoRecord /\ "UseTwo" \in Code /\ "Use" \in Code /\ 1 \in Nat  BY <2>1 DEF Order, Code
  <2> QED  BY <1>2, <2>1, <2>2, WaitingOrder
<1> QED  BY <1>1, <1>2 DEF ToDoUse, AtObject

LEMMA TurnOrders ==
    ASSUME NEW s \in ToDoRecord, NEW now \in BOOLEAN, Ready(s, now), NEW x \in ToDoTurn(s)
    PROVE  Order(x, now)
<1>1. CASE x = [s |-> s, r |-> "failed"]
  BY <1>1, OrderOf
<1>2. ASSUME NEW g \in ToDoGo(s), x = g \/ x = Waiting(g.s, 1, "Turn")
      PROVE  Order(x, now)
  <2>1. Order(g, now)  BY GoOrders
  <2>2. g.s \in ToDoRecord /\ "Turn" \in Code /\ 1 \in Nat  BY <2>1 DEF Order, Code
  <2> QED  BY <1>2, <2>1, <2>2, WaitingOrder
<1> QED  BY <1>1, <1>2 DEF ToDoTurn, AtObject

\* The target may be given up.
LEMMA ChasingKept ==
    ASSUME NEW s \in ToDoRecord, NEW now \in BOOLEAN, NEW b \in BOOLEAN
    PROVE  /\ [s EXCEPT !.chasing = b] \in ToDoRecord
           /\ Ready(s, now) => Ready([s EXCEPT !.chasing = b], now)
           /\ Queued(s, now) => Queued([s EXCEPT !.chasing = b], now)
           /\ Executing(s) => Executing([s EXCEPT !.chasing = b])
           /\ [s EXCEPT !.chasing = b].IsDead = s.IsDead
<1> DEFINE n == [s EXCEPT !.chasing = b]
<1>1. /\ n \in ToDoRecord /\ n.LockToDo = s.LockToDo /\ n.list = s.list /\ n.IsDead = s.IsDead
      /\ n.NextWakeup = s.NextWakeup /\ n.queue = s.queue
  BY DEF ToDoRecord
<1> HIDE DEF n
<1>2. /\ Ready(s, now) => Ready(n, now)
      /\ Queued(s, now) => Queued(n, now)
      /\ Executing(s) => Executing(n)
  BY <1>1 DEF Queued, Ready, Executing
<1> QED  BY <1>1, <1>2 DEF n

LEMMA AttackOrders ==
    ASSUME NEW s \in ToDoRecord, NEW now \in BOOLEAN, Ready(s, now), NEW x \in ToDoAttack(s)
    PROVE  Order(x, now)
<1>1. ASSUME NEW g \in CanToDoAttack(s) PROVE Order(g, now)
  <2>1. CASE g = [s |-> s, r |-> "ok"]  BY <2>1, OrderOf
  <2>2. CASE g = [s |-> [s EXCEPT !.chasing = FALSE], r |-> "failed"]
    BY <2>2, ChasingKept, OrderOf
  <2>3. CASE g \in ToDoGo(s)  BY <2>3, GoOrders
  <2> QED  BY <1>1, <2>1, <2>2, <2>3 DEF CanToDoAttack
<1>2. ASSUME NEW g \in CanToDoAttack(s),
             \/ x = g
             \/ x = [s |-> ToDoAdd(g.s, Entry("Attack")), r |-> "ok"]
             \/ x = [s |-> ToDoAdd(ToDoWait(g.s, 1), Entry("Attack")), r |-> "ok"]
      PROVE  Order(x, now)
  <2>1. Order(g, now)  BY <1>1
  <2>2. g.s \in ToDoRecord /\ Entry("Attack") \in Item  BY <2>1, EntryIsItem DEF Order, Code
  <2>3. ToDoWait(g.s, 1) \in ToDoRecord  BY <2>2, WaitStep
  <2>4. \A t \in {g.s, ToDoWait(g.s, 1)} :
           Ready(ToDoAdd(t, Entry("Attack")), now) /\ ToDoAdd(t, Entry("Attack")) \in ToDoRecord
    BY <2>2, <2>3, AddStep, UnlockedIsReady
  <2> QED  BY <1>2, <2>1, <2>4, OrderOf
<1> QED  BY <1>2 DEF ToDoAttack

-----------------------------------------------------------------------------
(* What the creature and its client make of orders.                        *)

\* Whatever an order has come to, these leave a list that is started or empty.
LEMMA OrderEnds ==
    ASSUME NEW x, NEW now \in BOOLEAN, Order(x, now), NEW t \in Nat
    PROVE  /\ ToDoStart(x.s) \in ToDoRecord /\ Queued(ToDoStart(x.s), now)
           /\ ToDoYield(x.s) \in ToDoRecord /\ Queued(ToDoYield(x.s), now)
           /\ ToDoClear(x.s) \in ToDoRecord /\ Queued(ToDoClear(x.s), now)
           /\ ToDoYield(ToDoClear(x.s)) \in ToDoRecord /\ Queued(ToDoYield(ToDoClear(x.s)), now)
           /\ ToDoStart(ToDoWait(ToDoClear(x.s), t)) \in ToDoRecord
           /\ Queued(ToDoStart(ToDoWait(ToDoClear(x.s), t)), now)
           /\ x.r = "NOERROR" => Queued(x.s, now)
<1>1. x.s \in ToDoRecord /\ Ready(x.s, now)  BY DEF Order
<1>2. ToDoClear(x.s) \in ToDoRecord /\ ~ToDoClear(x.s).LockToDo /\ ToDoClear(x.s).list = <<>>
  BY <1>1, ClearStep
<1>3. Ready(ToDoClear(x.s), now)  BY <1>2, UnlockedIsReady
<1>4. Queued(ToDoClear(x.s), now)  BY <1>2, <1>3 DEF Queued
<1>5. ToDoWait(ToDoClear(x.s), t) \in ToDoRecord /\ Ready(ToDoWait(ToDoClear(x.s), t), now)
  BY <1>2, WaitStep, UnlockedIsReady
<1>6. x.r = "NOERROR" => Queued(x.s, now)  BY <1>1 DEF Order, Queued
<1> QED  BY <1>1, <1>2, <1>3, <1>4, <1>5, <1>6, StartStep, YieldStep

LEMMA IdleStep ==
    ASSUME NEW s \in ToDoRecord, NEW now \in BOOLEAN, Queued(s, now), NEW t \in IdleStimulus(s)
    PROVE  t \in ToDoRecord /\ Queued(t, now)
<1>1. CASE t = s  BY <1>1
<1>2. ASSUME NEW x \in ToDoAttack(s),
             \/ t = ToDoStart(x.s) \/ t = ToDoClear(x.s)
             \/ t = ToDoStart(ToDoWait(ToDoClear(x.s), 1))
      PROVE  t \in ToDoRecord /\ Queued(t, now)
  <2>1. Order(x, now)  BY AttackOrders DEF Queued
  <2> QED  BY <1>2, <2>1, OrderEnds
<1> QED  BY <1>1, <1>2 DEF IdleStimulus

LEMMA StimulusStep ==
    ASSUME NEW s \in ToDoRecord, NEW now \in BOOLEAN, Queued(s, now), NEW t \in CreatureMoveStimulus(s)
    PROVE  t \in ToDoRecord /\ Queued(t, now)
<1> DEFINE u == ToDoWait(ToDoClear(s), 1)
<1>1. ToDoClear(s) \in ToDoRecord  BY ClearStep
<1>2. u \in ToDoRecord /\ Ready(u, now)  BY <1>1, WaitStep, UnlockedIsReady
<1>3. t = s \/ \E x \in ToDoAttack(u) : \/ t = ToDoStart(x.s)
                                        \/ t = ToDoStart(ToDoWait(ToDoClear(x.s), x.s.attack))
  BY DEF CreatureMoveStimulus
<1> HIDE DEF u
<1>4. ASSUME NEW x \in ToDoAttack(u),
             t = ToDoStart(x.s) \/ t = ToDoStart(ToDoWait(ToDoClear(x.s), x.s.attack))
      PROVE  t \in ToDoRecord /\ Queued(t, now)
  <2>1. Order(x, now)  BY <1>2, AttackOrders
  <2>2. x.s.attack \in Nat  BY <2>1 DEF Order, ToDoRecord
  <2> QED  BY <1>4, <2>1, <2>2, OrderEnds
<1> QED  BY <1>3, <1>4

LEMMA CaughtStep ==
    ASSUME NEW x, NEW now \in BOOLEAN, Order(x, now)
    PROVE  /\ Caught(x, ToDoYield(x.s)) \in ToDoRecord /\ Queued(Caught(x, ToDoYield(x.s)), now)
           /\ Caught(x, ToDoYield(ToDoClear(x.s))) \in ToDoRecord
           /\ Queued(Caught(x, ToDoYield(ToDoClear(x.s))), now)
<1>1. 1 \in Nat /\ x.s \in ToDoRecord  BY DEF Order
<1> QED  BY <1>1, OrderEnds DEF Caught

LEMMA QueuedOrder ==
    ASSUME NEW s \in ToDoRecord, NEW now \in BOOLEAN, NEW e \in Item
    PROVE  ToDoStart(ToDoAdd(s, e)) \in ToDoRecord /\ Queued(ToDoStart(ToDoAdd(s, e)), now)
BY AddStep, UnlockedIsReady, StartStep

LEMMA CommandStep ==
    ASSUME NEW s \in ToDoRecord, NEW now \in BOOLEAN, Queued(s, now),
           NEW t \in GoCommands(s) \cup MoveCommands(s) \cup UseCommands(s) \cup TurnCommand(s)
                       \cup TalkCommand(s) \cup AttackCommand(s) \cup CancelCommand(s)
    PROVE  t \in ToDoRecord /\ Queued(t, now)
<1>1. Ready(s, now) /\ ToDoClear(s) \in ToDoRecord /\ Ready(ToDoClear(s), now)
  BY ClearStep, UnlockedIsReady DEF Queued
<1>2. ToDoWait(s, 1) \in ToDoRecord /\ Ready(ToDoWait(s, 1), now)  BY WaitStep, UnlockedIsReady
<1>3. CASE t \in GoCommands(s)
  <2>1. ASSUME NEW w \in Walks, t = ToDoStart(AddAll(ToDoClear(s), w)) PROVE t \in ToDoRecord /\ Queued(t, now)
    BY <1>1, <2>1, AddAllStep, StartStep
  <2>2. CASE t = ToDoStop(s)  BY <2>2, StopStep
  <2>3. CASE t = ToDoStart(ToDoAdd(s, Entry("Turn")))  BY <2>3, QueuedOrder, EntryIsItem DEF Code
  <2> QED  BY <1>3, <2>1, <2>2, <2>3 DEF GoCommands
<1>4. CASE t \in MoveCommands(s)
  <2>1. PICK x \in ToDoMove(s) \cup ToDoTrade(s) : t = Caught(x, ToDoYield(x.s))  BY <1>4 DEF MoveCommands
  <2>2. Order(x, now)  BY <1>1, MoveOrders, TradeOrders
  <2> QED  BY <2>1, <2>2, CaughtStep
<1>5. CASE t \in UseCommands(s)
  <2>1. PICK x \in ToDoUse(ToDoWait(s, 1)) : t = Caught(x, ToDoYield(ToDoClear(x.s)))  BY <1>5 DEF UseCommands
  <2>2. Order(x, now)  BY <1>2, UseOrders
  <2> QED  BY <2>1, <2>2, CaughtStep
<1>6. CASE t \in TurnCommand(s)
  <2>1. PICK x \in ToDoTurn(ToDoWait(s, 1)) : t = Caught(x, ToDoYield(ToDoClear(x.s)))  BY <1>6 DEF TurnCommand
  <2>2. Order(x, now)  BY <1>2, TurnOrders
  <2> QED  BY <2>1, <2>2, CaughtStep
<1>7. CASE t \in TalkCommand(s)
  BY <1>7, QueuedOrder, EntryIsItem DEF TalkCommand, Code
<1>8. CASE t \in AttackCommand(s)
  <2>1. PICK g \in SetAttackDest(s) :
             \E x : /\ t = Caught(x, ToDoYield(x.s))
                    /\ IF g.r = "ok" THEN x \in ToDoAttack(g.s) ELSE x = g
    BY <1>8 DEF AttackCommand
  <2>2. PICK x : /\ t = Caught(x, ToDoYield(x.s))
                 /\ IF g.r = "ok" THEN x \in ToDoAttack(g.s) ELSE x = g
    BY <2>1
  <2>3. PICK b \in BOOLEAN : g = [s |-> [s EXCEPT !.chasing = b], r |-> IF b THEN "ok" ELSE "failed"]
    BY DEF SetAttackDest
  <2>4. g.s \in ToDoRecord /\ Ready(g.s, now) /\ (g.r = "ok" \/ g.r = "failed")
    <3>1. g.s = [s EXCEPT !.chasing = b] /\ g.r = IF b THEN "ok" ELSE "failed"  BY <2>3
    <3> QED  BY <1>1, <3>1, ChasingKept
  <2>5. Order(x, now)
    <3>1. CASE g.r = "ok"  BY <2>2, <2>4, <3>1, AttackOrders
    <3>2. CASE g.r = "failed"  BY <2>2, <2>4, <3>2 DEF Order
    <3> QED  BY <2>4, <3>1, <3>2
  <2> QED  BY <2>2, <2>5, CaughtStep
<1>9. CASE t \in CancelCommand(s)
  <2> DEFINE u == [s EXCEPT !.chasing = FALSE]
  <2>1. t = ToDoYield(ToDoClear(u))  BY <1>9 DEF CancelCommand
  <2>2. u \in ToDoRecord  BY ChasingKept
  <2> HIDE DEF u
  <2>3. ToDoClear(u) \in ToDoRecord /\ Ready(ToDoClear(u), now)  BY <2>2, ClearStep, UnlockedIsReady
  <2> QED  BY <2>1, <2>3, YieldStep
<1> QED  BY <1>3, <1>4, <1>5, <1>6, <1>7, <1>8, <1>9

-----------------------------------------------------------------------------
(* The execution of an entry.                                              *)

\* The times of the actions say nothing of the list.
LEMMA TimesKept ==
    ASSUME NEW s \in ToDoRecord, NEW now \in BOOLEAN, NEW t \in Nat
    PROVE  /\ \A n \in {[s EXCEPT !.walk = t], [s EXCEPT !.attack = t], [s EXCEPT !.multiuse = t]} :
                 /\ n \in ToDoRecord /\ n.IsDead = s.IsDead
                 /\ Queued(s, now) => Queued(n, now)
                 /\ Executing(s) => Executing(n)
<1> SUFFICES ASSUME NEW n \in ToDoRecord, n.LockToDo = s.LockToDo, n.list = s.list, n.IsDead = s.IsDead,
                    n.NextWakeup = s.NextWakeup, n.queue = s.queue
             PROVE  (Queued(s, now) => Queued(n, now)) /\ (Executing(s) => Executing(n))
  <2> DEFINE kept(n) == /\ n \in ToDoRecord /\ n.LockToDo = s.LockToDo /\ n.list = s.list /\ n.IsDead = s.IsDead
                        /\ n.NextWakeup = s.NextWakeup /\ n.queue = s.queue
  <2>1. kept([s EXCEPT !.walk = t])  BY DEF ToDoRecord
  <2>2. kept([s EXCEPT !.attack = t])  BY DEF ToDoRecord
  <2>3. kept([s EXCEPT !.multiuse = t])  BY DEF ToDoRecord
  <2>4. \A n : kept(n) => (Queued(s, now) => Queued(n, now)) /\ (Executing(s) => Executing(n))
    OBVIOUS
  <2>5. \A n : kept(n) => n \in ToDoRecord /\ n.IsDead = s.IsDead  OBVIOUS
  <2> HIDE DEF kept
  <2> QED  BY <2>1, <2>2, <2>3, <2>4, <2>5, Zenon
<1> QED  BY DEF Queued, Ready, Executing

LEMMA QueuedExecutes == \A s, now : s.NextWakeup \in Nat /\ Queued(s, now) => Executing(s)
BY DEF Queued, Ready, Executing

LEMMA FreshList ==
    /\ Fresh \in ToDoRecord /\ Dead \in ToDoRecord /\ Dead.IsDead /\ ~Dead.Stop
    /\ \A b \in BOOLEAN : /\ [Fresh EXCEPT !.player = b] \in ToDoRecord
                          /\ \A now \in BOOLEAN : Queued([Fresh EXCEPT !.player = b], now)
<1>1. Fresh \in ToDoRecord /\ ~Fresh.LockToDo /\ Fresh.list = <<>> /\ ~Fresh.Stop
  <2>1. <<>> \in Seq(Item)  OBVIOUS
  <2> QED  BY <2>1 DEF Fresh, ToDoRecord
<1>2. Dead \in ToDoRecord /\ Dead.IsDead /\ ~Dead.Stop
  <2> HIDE DEF Fresh
  <2> QED  BY <1>1 DEF Dead, ToDoRecord
<1>3. ASSUME NEW b \in BOOLEAN
      PROVE  /\ [Fresh EXCEPT !.player = b] \in ToDoRecord
             /\ \A now \in BOOLEAN : Queued([Fresh EXCEPT !.player = b], now)
  <2> DEFINE n == [Fresh EXCEPT !.player = b]
  <2>1. n \in ToDoRecord /\ ~n.LockToDo /\ n.list = <<>>  BY <1>1 DEF ToDoRecord
  <2> HIDE DEF n
  <2>2. \A now \in BOOLEAN : Queued(n, now)  BY <2>1 DEF Queued, Ready
  <2> QED  BY <2>1, <2>2 DEF n
<1> QED  BY <1>1, <1>2, <1>3

\* What came of an entry: the creature goes on with its list, or it has failed.
Performed(x) == x.s \in ToDoRecord /\ (x.r = "ok" => x.s.IsDead \/ Executing(x.s))

LEMMA PerformedOf ==
    ASSUME NEW s \in ToDoRecord
    PROVE  /\ s.IsDead \/ Executing(s) => Performed(Ok(s))
           /\ Performed(Failed(s)) /\ Performed([s |-> s, r |-> "EXHAUSTED"])
BY DEF Performed, Ok, Failed

LEMMA GoPerformed ==
    ASSUME NEW s \in ToDoRecord, Executing(s), NEW x \in Go(s)
    PROVE  Performed(x)
<1> DEFINE hicks == ToDoStart(ToDoAdd(ToDoClear(s), Entry("Talk")))
<1>1. hicks \in ToDoRecord /\ Executing(hicks)
  <2>1. ToDoClear(s) \in ToDoRecord /\ Entry("Talk") \in Item  BY ClearStep, EntryIsItem DEF Code
  <2>2. hicks \in ToDoRecord /\ Queued(hicks, FALSE)  BY <2>1, QueuedOrder
  <2> HIDE DEF hicks
  <2>3. hicks.NextWakeup \in Nat  BY <2>2 DEF ToDoRecord
  <2> QED  BY <2>2, <2>3, QueuedExecutes
<1>2. \/ x = Ok(Dead)
      \/ \E t \in {s, hicks} : x = Failed(t) \/ \E n \in 1 .. StepBeats : x = Ok([t EXCEPT !.walk = n])
  BY DEF Go
<1> HIDE DEF hicks
<1>3. CASE x = Ok(Dead)  BY <1>3, FreshList, PerformedOf
<1>4. ASSUME NEW t \in {s, hicks}, x = Failed(t) \/ \E n \in 1 .. StepBeats : x = Ok([t EXCEPT !.walk = n])
      PROVE  Performed(x)
  <2>1. t \in ToDoRecord /\ Executing(t)  BY <1>1
  <2>2. ASSUME NEW n \in 1 .. StepBeats
        PROVE  [t EXCEPT !.walk = n] \in ToDoRecord /\ Executing([t EXCEPT !.walk = n])
    <3>1. n \in Nat /\ FALSE \in BOOLEAN  BY ToDoAssumption
    <3> QED  BY <2>1, <3>1, TimesKept, Zenon
  <2> QED  BY <1>4, <2>1, <2>2, PerformedOf
<1> QED  BY <1>2, <1>3, <1>4

LEMMA Replanned ==
    ASSUME NEW orders, \A o \in orders : Order(o, FALSE), NEW x \in Replan(orders)
    PROVE  Performed(x)
<1>1. PICK o \in orders : x = IF o.r = "ok" THEN Ok(ToDoStart(o.s)) ELSE o  BY DEF Replan
<1>2. Order(o, FALSE) /\ o.s \in ToDoRecord /\ FALSE \in BOOLEAN /\ 1 \in Nat  BY DEF Order
<1>3. ToDoStart(o.s) \in ToDoRecord /\ Queued(ToDoStart(o.s), FALSE)  BY <1>2, OrderEnds
<1>4. ToDoStart(o.s).NextWakeup \in Nat  BY <1>3 DEF ToDoRecord
<1>5. Performed(Ok(ToDoStart(o.s)))  BY <1>3, <1>4, QueuedExecutes, PerformedOf
<1> QED  BY <1>1, <1>2, <1>5 DEF Performed

LEMMA MovePerformed ==
    ASSUME NEW s \in ToDoRecord, Executing(s), NEW x \in Move(s)
    PROVE  Performed(x)
<1>1. [s EXCEPT !.attack = 2] \in ToDoRecord /\ Executing([s EXCEPT !.attack = 2])
  <2>1. 2 \in Nat /\ FALSE \in BOOLEAN  OBVIOUS
  <2> QED  BY <2>1, TimesKept, Zenon
<1>2. ToDoClear(s) \in ToDoRecord /\ Ready(ToDoClear(s), FALSE)  BY ClearStep, UnlockedIsReady
<1>3. \A o \in ToDoMove(ToDoClear(s)) : Order(o, FALSE)  BY <1>2, MoveOrders
<1>4. x \in {Ok(s), Ok([s EXCEPT !.attack = 2]), Failed(s)} \/ x \in Replan(ToDoMove(ToDoClear(s)))
  BY DEF Move
<1> QED  BY <1>1, <1>3, <1>4, Replanned, PerformedOf

LEMMA UsePerformed ==
    ASSUME NEW s \in ToDoRecord, Executing(s), NEW x \in Use(s)
    PROVE  Performed(x)
<1> DEFINE used == [s EXCEPT !.multiuse = 1]
<1>1. used \in ToDoRecord /\ Executing(used)
  <2>1. 1 \in Nat /\ FALSE \in BOOLEAN  OBVIOUS
  <2> QED  BY <2>1, TimesKept, Zenon
<1>2. ToDoClear(s) \in ToDoRecord /\ Ready(ToDoClear(s), FALSE)  BY ClearStep, UnlockedIsReady
<1>3. \A o \in ToDoUse(ToDoClear(s)) : Order(o, FALSE)  BY <1>2, UseOrders
<1>4. x \in {Ok(used), Failed(used), Failed(s)} \/ x \in Replan(ToDoUse(ToDoClear(s)))
  BY DEF Use
<1> HIDE DEF used
<1> QED  BY <1>1, <1>3, <1>4, Replanned, PerformedOf

LEMMA AttackPerformed ==
    ASSUME NEW s \in ToDoRecord, Executing(s), NEW x \in Attack(s)
    PROVE  Performed(x)
<1> DEFINE u == [s EXCEPT !.attack = 2]
           v == [s EXCEPT !.attack = Greatest(1, s.attack)]
           w == [s EXCEPT !.chasing = FALSE]
<1>1. u \in ToDoRecord /\ Executing(u)
  <2>1. 2 \in Nat /\ FALSE \in BOOLEAN  OBVIOUS
  <2> QED  BY <2>1, TimesKept, Zenon
<1>2. v \in ToDoRecord
  <2>1. s.attack \in Nat /\ 1 \in Nat /\ FALSE \in BOOLEAN  BY DEF ToDoRecord
  <2>2. Greatest(1, s.attack) \in Nat  BY <2>1, GreatestOf
  <2> QED  BY <2>1, <2>2, TimesKept, Zenon
<1>3. w \in ToDoRecord /\ Executing(w)  BY ChasingKept
<1>4. x \in {Ok(s), Ok(u), Failed(v), Ok(w), Failed(w)}  BY DEF Attack
<1> HIDE DEF u, v, w
<1> QED  BY <1>1, <1>2, <1>3, <1>4, PerformedOf

LEMMA PerformStep ==
    ASSUME NEW s \in ToDoRecord, Executing(s), NEW code, NEW x \in Perform(s, code)
    PROVE  Performed(x)
<1>1. \/ x \in {Ok(s), Failed(s), [s |-> s, r |-> "EXHAUSTED"]}
      \/ x \in Go(s) \/ x \in Move(s) \/ x \in Use(s) \/ x \in Attack(s)
  BY DEF Perform
<1> QED  BY <1>1, PerformedOf, GoPerformed, MovePerformed, UsePerformed, AttackPerformed

-----------------------------------------------------------------------------
(* The steps of the specification.                                         *)

Attended(s, runs, now) == s.IsDead \/ IF runs THEN Executing(s) ELSE Queued(s, now)

\* The list of one creature changes, while the others stay as they are.
LEMMA OneCreature ==
    ASSUME ToDoInv, NEW c \in Creature, NEW s \in ToDoRecord, todo' = [todo EXCEPT ![c] = s],
           running' \in Creature \cup {NoCreature}, beat' = beat,
           ~beat => running' = NoCreature,
           \A d \in Creature \ {c} : d = running' <=> d = running,
           Attended(s, c = running', beat)
    PROVE  ToDoInv'
<1>1. todo' \in [Creature -> ToDoRecord] /\ todo'[c] = s /\ \A d \in Creature \ {c} : todo'[d] = todo[d]
  BY DEF ToDoInv, ToDoTypeOK
<1>2. ToDoTypeOK'  BY <1>1 DEF ToDoInv, ToDoTypeOK
<1>3. ASSUME NEW d \in Creature
      PROVE  todo'[d].IsDead \/ IF d = running' THEN Executing(todo'[d]) ELSE Queued(todo'[d], beat')
  <2>1. CASE d = c  BY <1>1, <2>1 DEF Attended
  <2>2. CASE d # c
    <3>1. todo[d].IsDead \/ IF d = running THEN Executing(todo[d]) ELSE Queued(todo[d], beat)  BY DEF ToDoInv
    <3> QED  BY <1>1, <2>2, <3>1
  <2> QED  BY <2>1, <2>2
<1> QED  BY <1>2, <1>3 DEF ToDoInv

LEMMA InitToDoInv == ToDoInit => ToDoInv
<1> SUFFICES ASSUME ToDoInit PROVE ToDoInv  OBVIOUS
<1>1. \A c \in Creature : todo[c] \in {[Fresh EXCEPT !.player = b] : b \in BOOLEAN}  BY DEF ToDoInit
<1>2. \A c \in Creature : todo[c] \in ToDoRecord /\ Queued(todo[c], FALSE)  BY <1>1, FreshList
<1>3. todo \in [Creature -> ToDoRecord]  BY <1>2 DEF ToDoInit
<1>4. running = NoCreature /\ beat = FALSE  BY DEF ToDoInit
<1>5. \A c \in Creature : c # running  BY <1>4, ToDoAssumption
<1> QED  BY <1>2, <1>3, <1>4, <1>5 DEF ToDoInv, ToDoTypeOK

LEMMA TypesOf ==
    ASSUME ToDoInv
    PROVE  /\ running \in Creature \cup {NoCreature} /\ beat \in BOOLEAN
           /\ ~beat => running = NoCreature
           /\ \A c \in Creature : todo[c] \in ToDoRecord /\ Attended(todo[c], c = running, beat)
BY DEF ToDoInv, ToDoTypeOK, Attended

LEMMA CommandKeeps ==
    ASSUME ToDoInv, NEW c \in Creature, Command(c)
    PROVE  ToDoInv'
<1>1. ~beat /\ ~todo[c].IsDead /\ running' = running /\ beat' = beat  BY DEF Command
<1>2. PICK t \in GoCommands(todo[c]) \cup MoveCommands(todo[c]) \cup UseCommands(todo[c])
                   \cup TurnCommand(todo[c]) \cup TalkCommand(todo[c]) \cup AttackCommand(todo[c])
                   \cup CancelCommand(todo[c]) :
         todo' = [todo EXCEPT ![c] = t]
  BY DEF Command
<1>3. c # running /\ todo[c] \in ToDoRecord /\ Queued(todo[c], beat)
  BY <1>1, TypesOf, ToDoAssumption DEF Attended
<1>4. t \in ToDoRecord /\ Queued(t, beat)  BY <1>3, TypesOf, CommandStep
<1> QED  BY <1>1, <1>2, <1>3, <1>4, TypesOf, OneCreature DEF Attended

LEMMA WakeKeeps ==
    ASSUME ToDoInv, NEW c \in Creature, WakeMonster(c)
    PROVE  ToDoInv'
<1> DEFINE s == [todo[c] EXCEPT !.chasing = TRUE]
<1>1. /\ c # running /\ ~todo[c].IsDead /\ running' = running /\ beat' = beat
      /\ todo' = [todo EXCEPT ![c] = ToDoYield(s)]
  BY DEF WakeMonster
<1>2. c # running /\ todo[c] \in ToDoRecord /\ Queued(todo[c], beat)
  BY <1>1, TypesOf, ToDoAssumption DEF Attended
<1>3. s \in ToDoRecord /\ Ready(s, beat)  BY <1>2, TypesOf, ChasingKept DEF Queued
<1> HIDE DEF s
<1>4. ToDoYield(s) \in ToDoRecord /\ Queued(ToDoYield(s), beat)  BY <1>3, TypesOf, YieldStep
<1> QED  BY <1>1, <1>2, <1>4, TypesOf, OneCreature DEF Attended

LEMMA PushKeeps ==
    ASSUME ToDoInv, NEW c \in Creature, Push(c)
    PROVE  ToDoInv'
<1>1. c # running /\ running' = running /\ beat' = beat  BY DEF Push
<1>2. PICK n \in 1 .. StepBeats : todo' = [todo EXCEPT ![c].walk = n]  BY DEF Push
<1> DEFINE s == [todo[c] EXCEPT !.walk = n]
<1>3. todo' = [todo EXCEPT ![c] = s]  BY <1>2
<1>4. todo[c] \in ToDoRecord /\ Attended(todo[c], FALSE, beat)  BY <1>1, TypesOf DEF Attended
<1>5. s \in ToDoRecord /\ s.IsDead = todo[c].IsDead /\ (Queued(todo[c], beat) => Queued(s, beat))
  <2>1. n \in Nat /\ beat \in BOOLEAN  BY TypesOf, ToDoAssumption
  <2> QED  BY <1>4, <2>1, TimesKept, Zenon
<1> HIDE DEF s
<1>6. Attended(s, FALSE, beat)  BY <1>4, <1>5 DEF Attended
<1> QED  BY <1>1, <1>3, <1>5, <1>6, TypesOf, OneCreature DEF Attended

LEMMA AffectedKeeps ==
    ASSUME ToDoInv, NEW c \in Creature, Affected(c)
    PROVE  ToDoInv'
<1>1. running # c /\ running' = running /\ beat' = beat  BY DEF Affected
<1>2. PICK t \in CreatureMoveStimulus(todo[c]) \cup {Dead} : todo' = [todo EXCEPT ![c] = t]  BY DEF Affected
<1>3. todo[c] \in ToDoRecord /\ Attended(todo[c], FALSE, beat)
  BY <1>1, TypesOf DEF Attended
<1>4. t \in ToDoRecord /\ Attended(t, FALSE, beat)
  <2>1. CASE t = Dead  BY <2>1, FreshList DEF Attended
  <2>2. CASE t \in CreatureMoveStimulus(todo[c]) /\ todo[c].IsDead
    <3>1. t = todo[c]  BY <2>2 DEF CreatureMoveStimulus
    <3> QED  BY <1>3, <3>1
  <2>3. CASE t \in CreatureMoveStimulus(todo[c]) /\ ~todo[c].IsDead
    <3>1. Queued(todo[c], beat)  BY <1>3, <2>3 DEF Attended
    <3> QED  BY <1>3, <2>3, <3>1, TypesOf, StimulusStep DEF Attended
  <2> QED  BY <1>2, <2>1, <2>2, <2>3
<1> QED  BY <1>1, <1>2, <1>4, TypesOf, OneCreature DEF Attended

\* The clock goes on: a time that comes is still in the queue.
LEMMA ElapseStep ==
    ASSUME NEW s \in ToDoRecord
    PROVE  /\ Elapse(s) \in ToDoRecord /\ Elapse(s).IsDead = s.IsDead
           /\ Queued(s, FALSE) => Queued(Elapse(s), TRUE)
<1>1. /\ s.list \in Seq(Item) /\ s.NextWakeup \in Nat /\ s.queue \in SUBSET Nat
      /\ s.walk \in Nat /\ s.attack \in Nat /\ s.multiuse \in Nat
  BY DEF ToDoRecord
<1> DEFINE q == {Later(t) : t \in s.queue}
           l == [i \in DOMAIN s.list |-> <<s.list[i][1], Later(s.list[i][2])>>]
<1>2. \A t \in Nat : Later(t) \in Nat  BY DEF Later
<1>3. q \in SUBSET Nat /\ (s.NextWakeup \in s.queue => Later(s.NextWakeup) \in q)  BY <1>1, <1>2
<1>4. l \in Seq(Item) /\ (l # <<>> <=> s.list # <<>>)
  <2>1. \A i \in 1 .. Len(s.list) : s.list[i] \in Item  BY <1>1
  <2>2. \A i \in 1 .. Len(s.list) : <<s.list[i][1], Later(s.list[i][2])>> \in Item
    BY <1>2, <2>1 DEF Item
  <2>3. DOMAIN s.list = 1 .. Len(s.list) /\ Len(s.list) \in Nat  BY <1>1
  <2>4. l = [i \in 1 .. Len(s.list) |-> <<s.list[i][1], Later(s.list[i][2])>>]  BY <2>3
  <2>5. l \in Seq(Item) /\ Len(l) = Len(s.list)  BY <2>2, <2>3, <2>4
  <2> HIDE DEF l
  <2> QED  BY <1>1, <2>5
<1> DEFINE n1 == [s EXCEPT !.queue = q]
           n2 == [n1 EXCEPT !.NextWakeup = Later(s.NextWakeup)]
           n3 == [n2 EXCEPT !.walk = Later(s.walk)]
           n4 == [n3 EXCEPT !.attack = Later(s.attack)]
           n5 == [n4 EXCEPT !.multiuse = Later(s.multiuse)]
           n6 == [n5 EXCEPT !.list = l]
<1>5. Elapse(s) = n6  BY DEF Elapse
<1> HIDE DEF q, l
<1>6. n1 \in ToDoRecord /\ n1.queue = q /\ n1.LockToDo = s.LockToDo /\ n1.IsDead = s.IsDead
  BY <1>3 DEF ToDoRecord
<1> HIDE DEF n1
<1>7. /\ n2 \in ToDoRecord /\ n2.queue = q /\ n2.LockToDo = s.LockToDo /\ n2.IsDead = s.IsDead
      /\ n2.NextWakeup = Later(s.NextWakeup)
  BY <1>1, <1>2, <1>6 DEF ToDoRecord
<1> HIDE DEF n2
<1>8. /\ n3 \in ToDoRecord /\ n3.queue = q /\ n3.LockToDo = s.LockToDo /\ n3.IsDead = s.IsDead
      /\ n3.NextWakeup = Later(s.NextWakeup)
  BY <1>1, <1>2, <1>7 DEF ToDoRecord
<1> HIDE DEF n3
<1>9. /\ n4 \in ToDoRecord /\ n4.queue = q /\ n4.LockToDo = s.LockToDo /\ n4.IsDead = s.IsDead
      /\ n4.NextWakeup = Later(s.NextWakeup)
  BY <1>1, <1>2, <1>8 DEF ToDoRecord
<1> HIDE DEF n4
<1>10. /\ n5 \in ToDoRecord /\ n5.queue = q /\ n5.LockToDo = s.LockToDo /\ n5.IsDead = s.IsDead
       /\ n5.NextWakeup = Later(s.NextWakeup)
  BY <1>1, <1>2, <1>9 DEF ToDoRecord
<1> HIDE DEF n5
<1>11. /\ n6 \in ToDoRecord /\ n6.queue = q /\ n6.LockToDo = s.LockToDo /\ n6.IsDead = s.IsDead
       /\ n6.NextWakeup = Later(s.NextWakeup) /\ n6.list = l
  BY <1>4, <1>10 DEF ToDoRecord
<1> HIDE DEF n6
<1>12. Queued(s, FALSE) => Queued(n6, TRUE)  BY <1>3, <1>4, <1>11 DEF Queued, Ready
<1> QED  BY <1>5, <1>11, <1>12

LEMMA BeatKeeps ==
    ASSUME ToDoInv, Beat
    PROVE  ToDoInv'
<1>1. /\ ~beat /\ beat' = TRUE /\ running' = running /\ running = NoCreature
      /\ todo' = [c \in Creature |-> Elapse(todo[c])]
  BY TypesOf DEF Beat
<1>2. ASSUME NEW c \in Creature
      PROVE  c # running /\ todo'[c] \in ToDoRecord /\ Attended(todo'[c], FALSE, TRUE)
  <2>1. todo[c] \in ToDoRecord /\ Attended(todo[c], FALSE, FALSE) /\ c # running
    BY <1>1, TypesOf, ToDoAssumption DEF Attended
  <2>2. todo'[c] = Elapse(todo[c])  BY <1>1
  <2> QED  BY <2>1, <2>2, ElapseStep DEF Attended
<1>3. todo' \in [Creature -> ToDoRecord]  BY <1>1, <1>2
<1> QED  BY <1>1, <1>2, <1>3, TypesOf DEF ToDoInv, ToDoTypeOK, Attended

LEMMA BeatDoneKeeps ==
    ASSUME ToDoInv, BeatDone
    PROVE  ToDoInv'
<1>1. /\ beat /\ beat' = FALSE /\ todo' = todo /\ running' = running /\ running = NoCreature
      /\ \A c \in Creature : 0 \notin todo[c].queue
  BY DEF BeatDone
<1>2. ASSUME NEW c \in Creature
      PROVE  c # running /\ Attended(todo[c], FALSE, FALSE)
  <2>1. todo[c] \in ToDoRecord /\ Attended(todo[c], FALSE, TRUE) /\ c # running
    BY <1>1, TypesOf, ToDoAssumption DEF Attended
  <2>2. todo[c].NextWakeup \in Nat  BY <2>1 DEF ToDoRecord
  <2> QED  BY <1>1, <2>1, <2>2 DEF Attended, Queued, Ready
<1> QED  BY <1>1, <1>2, TypesOf DEF ToDoInv, ToDoTypeOK, Attended

LEMMA DeleteMinKeeps ==
    ASSUME ToDoInv, NEW c \in Creature, deleteMin(c)
    PROVE  ToDoInv'
<1> DEFINE s == [todo[c] EXCEPT !.queue = todo[c].queue \ {0}]
<1>1. /\ beat /\ running = NoCreature /\ running' = c /\ beat' = beat
      /\ todo' = [todo EXCEPT ![c] = s]
  BY DEF deleteMin
<1>2. todo[c] \in ToDoRecord /\ Attended(todo[c], FALSE, beat) /\ \A d \in Creature : d # running
  BY <1>1, TypesOf, ToDoAssumption DEF Attended
<1>3. /\ s \in ToDoRecord /\ s.IsDead = todo[c].IsDead /\ s.LockToDo = todo[c].LockToDo
      /\ s.list = todo[c].list /\ s.NextWakeup = todo[c].NextWakeup /\ s.queue = todo[c].queue \ {0}
  BY <1>2 DEF ToDoRecord
<1> HIDE DEF s
<1>4. s.NextWakeup \in Nat  BY <1>3 DEF ToDoRecord
<1>5. Attended(s, TRUE, beat)  BY <1>2, <1>3, <1>4 DEF Attended, Queued, Ready, Executing
<1> QED  BY <1>1, <1>2, <1>3, <1>5, TypesOf, OneCreature DEF Attended

LEMMA RestKeeps ==
    ASSUME ToDoInv, Rest
    PROVE  ToDoInv'
<1>1. PICK c \in Creature : c = running  BY TypesOf DEF Rest
<1>2. PICK s : s = todo[c]  OBVIOUS
<1>3. PICK delay : delay = CalculateDelay(s)  OBVIOUS
<1>4. PICK t \in IF Idle(s) THEN {s}
                 ELSE IF s.list = <<>> THEN IdleStimulus(ToDoClear(s))
                 ELSE IF delay = 0 THEN {}
                 ELSE IF s.Stop THEN {ToDoClear(s)}
                 ELSE {[s EXCEPT !.NextWakeup = delay, !.queue = @ \cup {delay}]} :
         todo' = [todo EXCEPT ![c] = t]
  BY <1>1, <1>2, <1>3 DEF Rest
<1>5. running' = NoCreature /\ beat' = beat  BY DEF Rest
<1>6. s \in ToDoRecord /\ Attended(s, TRUE, beat) /\ beat \in BOOLEAN  BY <1>1, <1>2, TypesOf
<1>7. s.NextWakeup \in Nat /\ ToDoClear(s) \in ToDoRecord /\ Queued(ToDoClear(s), beat)
  BY <1>6, ClearStep DEF ToDoRecord, Queued, Ready
<1>8. t \in ToDoRecord /\ Attended(t, FALSE, beat)
  <2>1. CASE Idle(s)
    BY <1>4, <1>6, <1>7, <2>1 DEF Idle, Attended, Executing, Queued, Ready
  <2>2. CASE ~Idle(s) /\ s.list = <<>>
    <3>1. t \in IdleStimulus(ToDoClear(s))  BY <1>4, <2>2
    <3> QED  BY <1>6, <1>7, <3>1, IdleStep DEF Attended
  <2>3. CASE ~Idle(s) /\ s.list # <<>> /\ s.Stop
    <3>1. t = ToDoClear(s)  BY <1>4, <2>3
    <3> QED  BY <1>7, <3>1 DEF Attended
  <2>4. CASE ~Idle(s) /\ s.list # <<>> /\ ~s.Stop
    <3>1. t = [s EXCEPT !.NextWakeup = delay, !.queue = @ \cup {delay}] /\ delay # 0  BY <1>4, <2>4
    <3>2. delay \in Nat /\ delay > 0  BY <1>3, <1>6, <2>4, <3>1, DelayIsTime
    <3> DEFINE q == s.queue \cup {delay}
               n1 == [s EXCEPT !.NextWakeup = delay]
               n2 == [n1 EXCEPT !.queue = q]
    <3>3. t = n2  BY <3>1
    <3>4. q \in SUBSET Nat /\ delay \in q  BY <1>6, <3>2 DEF ToDoRecord
    <3> HIDE DEF q
    <3>5. n1 \in ToDoRecord /\ n1.NextWakeup = delay /\ n1.LockToDo = s.LockToDo /\ n1.list = s.list
      BY <1>6, <3>2 DEF ToDoRecord
    <3> HIDE DEF n1
    <3>6. n2 \in ToDoRecord /\ n2.NextWakeup = delay /\ n2.LockToDo = s.LockToDo /\ n2.list = s.list /\ n2.queue = q
      BY <3>4, <3>5 DEF ToDoRecord
    <3> HIDE DEF n2
    <3>7. s.LockToDo  BY <2>4 DEF Idle
    <3>8. Queued(n2, beat)  BY <2>4, <3>2, <3>4, <3>6, <3>7 DEF Queued, Ready
    <3> QED  BY <3>3, <3>6, <3>8 DEF Attended
  <2> QED  BY <2>1, <2>2, <2>3, <2>4
<1>9. c # NoCreature /\ \A d \in Creature : d # NoCreature  BY ToDoAssumption
<1> QED  BY <1>1, <1>4, <1>5, <1>8, <1>9, TypesOf, OneCreature DEF Attended

LEMMA ActKeeps ==
    ASSUME ToDoInv, Act
    PROVE  ToDoInv'
<1>1. PICK c \in Creature : c = running  BY TypesOf DEF Act
<1>2. PICK s : s = todo[c]  OBVIOUS
<1> DEFINE u == [s EXCEPT !.list = Tail(s.list)]
<1>3. ~Idle(s) /\ s.list # <<>> /\ beat' = beat  BY <1>1, <1>2 DEF Act
<1>4. PICK x \in Perform(u, Head(s.list)[1]) :
         IF x.r # "ok"
         THEN /\ todo' = [todo EXCEPT ![c] = IF x.r = "EXHAUSTED" THEN ToDoStart(ToDoWait(ToDoClear(x.s), 1))
                                            ELSE ToDoYield(ToDoClear(x.s))]
              /\ running' = NoCreature
         ELSE /\ todo' = [todo EXCEPT ![c] = IF x.s.Stop THEN ToDoClear(x.s) ELSE x.s]
              /\ running' = IF x.s.Stop THEN NoCreature ELSE c
  BY <1>1, <1>2 DEF Act
<1>5. s \in ToDoRecord /\ beat \in BOOLEAN  BY <1>1, <1>2, TypesOf
<1>6. s.list \in Seq(Item) /\ s.NextWakeup \in Nat  BY <1>5 DEF ToDoRecord
<1>7. Tail(s.list) \in Seq(Item)  BY <1>3, <1>6
<1>8. u \in ToDoRecord /\ u.LockToDo = s.LockToDo /\ u.NextWakeup = s.NextWakeup  BY <1>5, <1>7 DEF ToDoRecord
<1> HIDE DEF u
<1>9. Executing(u)  BY <1>3, <1>6, <1>8 DEF Idle, Executing
<1>10. Performed(x)  BY <1>8, <1>9, PerformStep
<1>11. x.s \in ToDoRecord  BY <1>10 DEF Performed
<1>12. ToDoClear(x.s) \in ToDoRecord /\ Queued(ToDoClear(x.s), beat)
  BY <1>11, ClearStep DEF Queued, Ready
<1>13. /\ ToDoYield(ToDoClear(x.s)) \in ToDoRecord /\ Queued(ToDoYield(ToDoClear(x.s)), beat)
       /\ ToDoStart(ToDoWait(ToDoClear(x.s), 1)) \in ToDoRecord
       /\ Queued(ToDoStart(ToDoWait(ToDoClear(x.s), 1)), beat)
  <2>1. ToDoWait(ToDoClear(x.s), 1) \in ToDoRecord /\ Ready(ToDoWait(ToDoClear(x.s), 1), beat)
    BY <1>12, WaitStep, UnlockedIsReady
  <2> QED  BY <1>5, <1>12, <2>1, YieldStep, StartStep DEF Queued
<1>14. beat  BY <1>1, TypesOf, ToDoAssumption
<1>15. \A d \in Creature : d # NoCreature  BY ToDoAssumption
<1>16. PICK t : t = IF x.r = "EXHAUSTED" THEN ToDoStart(ToDoWait(ToDoClear(x.s), 1))
                    ELSE IF x.r # "ok" THEN ToDoYield(ToDoClear(x.s))
                    ELSE IF x.s.Stop THEN ToDoClear(x.s) ELSE x.s
  OBVIOUS
<1>17. CASE x.r # "ok" \/ x.s.Stop
  <2>1. todo' = [todo EXCEPT ![c] = t] /\ running' = NoCreature  BY <1>4, <1>16, <1>17
  <2>2. t \in ToDoRecord /\ Queued(t, beat)  BY <1>12, <1>13, <1>16, <1>17
  <2> QED  BY <1>1, <1>3, <1>15, <2>1, <2>2, TypesOf, OneCreature DEF Attended
<1>18. CASE x.r = "ok" /\ ~x.s.Stop
  <2>1. todo' = [todo EXCEPT ![c] = x.s] /\ running' = c  BY <1>4, <1>18
  <2>2. Attended(x.s, TRUE, beat)  BY <1>10, <1>18 DEF Performed, Attended
  <2> QED  BY <1>1, <1>3, <1>11, <1>14, <2>1, <2>2, TypesOf, OneCreature DEF Attended
<1> QED  BY <1>17, <1>18

LEMMA NextToDoInv == ToDoInv /\ [ToDoNext]_todoVars => ToDoInv'
<1> SUFFICES ASSUME ToDoInv, [ToDoNext]_todoVars PROVE ToDoInv'  OBVIOUS
<1>1. CASE UNCHANGED todoVars
  BY <1>1 DEF todoVars, ToDoInv, ToDoTypeOK
<1> QED  BY <1>1, CommandKeeps, WakeKeeps, PushKeeps, AffectedKeeps, DeleteMinKeeps, BeatKeeps,
            BeatDoneKeeps, RestKeeps, ActKeeps
         DEF ToDoNext

\* No list is left that was filled and not started, and a started list is in
\* the queue with the time it waits for, whatever the client orders, others do
\* to the creature and the main loop is at (TCreature::ToDoStart, Execute,
\* move_creatures).
THEOREM ListsQueued == ToDoSpec => []ListsAreQueued
<1>1. ToDoInv => ListsAreQueued
  BY DEF ToDoInv, ListsAreQueued, Queued, Ready
<1> QED  BY <1>1, InitToDoInv, NextToDoInv, PTL DEF ToDoSpec

-----------------------------------------------------------------------------
(***************************************************************************)
(* The skills of a creature, for every number of levels, every formula of  *)
(* experience and every gain.  Increase and Decrease are loops, which the  *)
(* model writes as recursive functions; a loop whose measure becomes       *)
(* smaller has a result (LoopEnds), and what holds on the way holds of it  *)
(* (LoopKeeps).                                                            *)
(***************************************************************************)

\* A set of numbers has a least one.
LEMMA LeastNumber ==
    ASSUME NEW T, T \subseteq Nat, T # {}
    PROVE  \E x \in T : \A y \in T : x <= y
<1> DEFINE R == OpToRel(<, Nat)
<1>1. \A x, y \in Nat : <<y, x>> \in R <=> y < x  BY DEF OpToRel
<1>2. IsWellFoundedOn(R, Nat)  BY NatLessThanWellFounded
<1> HIDE DEF R
<1>3. PICK x \in T : \A y \in T : <<y, x>> \notin R  BY <1>2, WFMin
<1>4. \A y \in T : ~(y < x)  BY <1>1, <1>3, Zenon
<1>5. \A y \in T : x <= y  BY <1>4
<1> QED  BY <1>5

\* A loop: from t it goes on to next[t] until t is in X, and m becomes smaller.
Loop(D, m, X, next) ==
    /\ m \in [D -> Nat] /\ X \subseteq D /\ next \in [D \ X -> D]
    /\ \A t \in D \ X : m[next[t]] < m[t]

\* What holds on the way and of the end of every loop that ends holds of the
\* result.
LEMMA LoopKeeps ==
    ASSUME NEW D, NEW m, NEW X, NEW next, Loop(D, m, X, next),
           NEW f, \A t \in D \ X : f[t] = f[next[t]],
           NEW I, I \subseteq D, \A t \in I \ X : next[t] \in I,
           NEW J, \A t \in I \cap X : f[t] \in J
    PROVE  \A t \in I : f[t] \in J
<1> SUFFICES ASSUME NEW b \in I, f[b] \notin J PROVE FALSE
  OBVIOUS
<1> DEFINE T == {m[t] : t \in {t \in I : f[t] \notin J}}
<1>1. T \subseteq Nat  BY DEF Loop
<1>2. T # {}  OBVIOUS
<1> HIDE DEF T
<1>3. PICK x \in T : \A y \in T : x <= y  BY <1>1, <1>2, LeastNumber
<1>4. PICK t \in I : f[t] \notin J /\ m[t] = x  BY <1>3 DEF T
<1>5. t \in I \ X  BY <1>4
<1>6. next[t] \in I /\ f[next[t]] \notin J  BY <1>4, <1>5
<1>7. m[next[t]] \in T  BY <1>6 DEF T
<1>8. m[next[t]] < m[t] /\ m[next[t]] \in Nat /\ m[t] \in Nat  BY <1>5, <1>6 DEF Loop
<1> QED  BY <1>3, <1>4, <1>7, <1>8

\* There is a function that gives the result of the loop.
LEMMA LoopEnds ==
    ASSUME NEW D, NEW m, NEW X, NEW next, Loop(D, m, X, next), NEW V, NEW out \in [X -> V]
    PROVE  \E f \in [D -> V] : \A t \in D : f[t] = IF t \in X THEN out[t] ELSE f[next[t]]
<1> DEFINE Below(n) == {t \in D : m[t] < n}
           Solves(g, n) == /\ g \in [Below(n) -> V]
                           /\ \A t \in Below(n) : g[t] = IF t \in X THEN out[t] ELSE g[next[t]]
<1>0. \A t \in D : m[t] \in Nat  BY DEF Loop
<1>1. ASSUME NEW n \in Nat, NEW t \in Below(n), t \notin X PROVE next[t] \in D /\ m[next[t]] < m[t] /\ next[t] \in Below(n)
  <2>1. t \in D \ X /\ m[t] < n  BY <1>1
  <2>2. next[t] \in D /\ m[next[t]] < m[t]  BY <2>1 DEF Loop
  <2> QED  BY <2>1, <2>2, <1>0
<1>2. ASSUME NEW n \in Nat, NEW k \in Nat, n <= k, NEW g, NEW h, Solves(g, n), Solves(h, k)
      PROVE  \A t \in Below(n) : g[t] = h[t]
  <2> SUFFICES ASSUME NEW b \in Below(n), g[b] # h[b] PROVE FALSE
    OBVIOUS
  <2> DEFINE T == {m[t] : t \in {t \in Below(n) : g[t] # h[t]}}
  <2>1. T \subseteq Nat /\ T # {}  BY <1>0
  <2> HIDE DEF T
  <2>2. PICK x \in T : \A y \in T : x <= y  BY <2>1, LeastNumber
  <2>3. PICK t \in Below(n) : g[t] # h[t] /\ m[t] = x  BY <2>2 DEF T
  <2>4. t \in Below(k)  BY <1>0, <1>2
  <2>5. t \notin X  BY <1>2, <2>3, <2>4
  <2>6. next[t] \in Below(n) /\ m[next[t]] < m[t]  BY <1>1, <2>5
  <2>7. g[next[t]] # h[next[t]]  BY <1>2, <2>3, <2>4, <2>5
  <2>8. m[next[t]] \in T  BY <2>6, <2>7 DEF T
  <2> QED  BY <1>0, <2>1, <2>2, <2>3, <2>6, <2>8
<1>3. ASSUME NEW n \in Nat, NEW g, Solves(g, n) PROVE \E h : Solves(h, n + 1)
  <2> DEFINE h == [t \in Below(n + 1) |-> IF t \in X THEN out[t] ELSE g[next[t]]]
  <2>1. ASSUME NEW t \in Below(n + 1), t \notin X PROVE next[t] \in Below(n)
    <3>1. next[t] \in D /\ m[next[t]] < m[t] /\ m[t] < n + 1  BY <1>1, <2>1
    <3>2. m[next[t]] \in Nat /\ m[t] \in Nat  BY <1>0, <2>1, <3>1
    <3> QED  BY <3>1, <3>2
  <2>2. \A t \in Below(n) : t \in Below(n + 1) /\ h[t] = g[t]
    <3>1. \A t \in Below(n) : t \in Below(n + 1)  BY <1>0
    <3> QED  BY <1>3, <3>1
  <2>3. h \in [Below(n + 1) -> V]
    <3> SUFFICES ASSUME NEW t \in Below(n + 1) PROVE h[t] \in V
      OBVIOUS
    <3> QED  BY <1>3, <2>1
  <2>4. \A t \in Below(n + 1) : h[t] = IF t \in X THEN out[t] ELSE h[next[t]]
    BY <2>1, <2>2
  <2> HIDE DEF h
  <2> QED  BY <2>3, <2>4
<1> HIDE DEF Solves
<1>4. \A n \in Nat : \E g : Solves(g, n)
  <2> SUFFICES ASSUME NEW b \in Nat, ~\E g : Solves(g, b) PROVE FALSE
    OBVIOUS
  <2> DEFINE T == {n \in Nat : ~\E g : Solves(g, n)}
  <2>1. PICK x \in T : \A y \in T : x <= y
    <3>1. T \subseteq Nat /\ T # {}  OBVIOUS
    <3> HIDE DEF T
    <3> QED  BY <3>1, LeastNumber
  <2>2. x # 0
    <3>1. Below(0) = {}  BY <1>0
    <3>2. Solves([t \in Below(0) |-> out[t]], 0)  BY <3>1 DEF Solves
    <3> QED  BY <2>1, <3>2
  <2>3. x - 1 \in Nat /\ x - 1 \notin T  BY <2>1, <2>2
  <2>4. PICK g : Solves(g, x - 1)  BY <2>3
  <2>5. \E h : Solves(h, (x - 1) + 1)  BY <1>3, <2>3, <2>4
  <2> QED  BY <2>1, <2>5
<1> DEFINE sol == [n \in Nat |-> CHOOSE g : Solves(g, n)]
           f == [t \in D |-> sol[m[t] + 1][t]]
<1>5. \A n \in Nat : Solves(sol[n], n)  BY <1>4, Zenon
<1> HIDE DEF sol
<1>6. ASSUME NEW t \in D PROVE f[t] \in V /\ f[t] = IF t \in X THEN out[t] ELSE f[next[t]]
  <2> DEFINE n == m[t] + 1
  <2>1. n \in Nat /\ t \in Below(n)  BY <1>0
  <2>2. Solves(sol[n], n)  BY <1>5, <2>1
  <2>3. sol[n][t] \in V /\ sol[n][t] = IF t \in X THEN out[t] ELSE sol[n][next[t]]
    BY <2>1, <2>2 DEF Solves
  <2>4. ASSUME t \notin X PROVE sol[n][next[t]] = f[next[t]]
    <3> DEFINE k == m[next[t]] + 1
    <3>1. next[t] \in D /\ m[next[t]] < m[t]  BY <1>1, <2>1, <2>4
    <3>2. k \in Nat /\ k <= n /\ next[t] \in Below(k)  BY <1>0, <3>1
    <3>3. Solves(sol[k], k)  BY <1>5, <3>2
    <3>4. sol[k][next[t]] = sol[n][next[t]]  BY <1>2, <2>1, <2>2, <3>2, <3>3
    <3> QED  BY <3>1, <3>4
  <2> QED  BY <2>3, <2>4
<1> HIDE DEF f
<1>7. f \in [D -> V]  BY <1>6 DEF f
<1> QED  BY <1>6, <1>7

-----------------------------------------------------------------------------
(* The loops of Increase and Decrease.                                     *)

SkillRecord == [Act : Nat, Exp : Int, LastLevel : Int, NextLevel : Int]

\* A formula for the experience of a level, which ends at level L.
Formula(e, L) == e \in [Nat -> Int] /\ L \in Nat /\ \A l \in Nat : l > L => e[l] < 0

\* The bounds are those of the level.
Bounds(e, t) == t.LastLevel = e[t.Act] /\ t.NextLevel = e[t.Act + 1]

RiseRecord == [Act : Nat, Exp : Int, LastLevel : Int, NextLevel : Int, range : Nat, over : BOOLEAN]
RiseStart(s) == [Act |-> s.Act, Exp |-> s.Exp, LastLevel |-> s.LastLevel, NextLevel |-> s.NextLevel,
                 range |-> 0, over |-> FALSE]
RiseStep(t, n) == [t EXCEPT !.Act = @ + 1, !.LastLevel = t.NextLevel, !.NextLevel = n, !.range = @ + 1]
RiseOver(t, p) == [t EXCEPT !.Act = @ + 1, !.LastLevel = t.NextLevel, !.NextLevel = t.Exp,
                            !.Exp = @ - p, !.over = TRUE]

LEMMA RiseStepType ==
    ASSUME NEW t \in RiseRecord, NEW n \in Int
    PROVE  /\ RiseStep(t, n) \in RiseRecord
           /\ RiseStep(t, n).Act = t.Act + 1 /\ RiseStep(t, n).Exp = t.Exp /\ RiseStep(t, n).LastLevel = t.NextLevel
           /\ RiseStep(t, n).NextLevel = n /\ RiseStep(t, n).range = t.range + 1 /\ RiseStep(t, n).over = t.over
<1> DEFINE n1 == [t EXCEPT !.Act = t.Act + 1]
           n2 == [n1 EXCEPT !.LastLevel = t.NextLevel]
           n3 == [n2 EXCEPT !.NextLevel = n]
           n4 == [n3 EXCEPT !.range = t.range + 1]
<1>1. t.Act + 1 \in Nat /\ t.range + 1 \in Nat /\ t.NextLevel \in Int
  BY DEF RiseRecord
<1>2. RiseStep(t, n) = n4  BY DEF RiseStep, RiseRecord
<1>3. n1 \in RiseRecord /\ n1.Act = t.Act + 1 /\ n1.Exp = t.Exp /\ n1.range = t.range /\ n1.over = t.over
  BY <1>1 DEF RiseRecord
<1> HIDE DEF n1
<1>4. n2 \in RiseRecord /\ n2.Act = t.Act + 1 /\ n2.Exp = t.Exp /\ n2.range = t.range /\ n2.over = t.over
      /\ n2.LastLevel = t.NextLevel
  BY <1>1, <1>3 DEF RiseRecord
<1> HIDE DEF n2
<1>5. n3 \in RiseRecord /\ n3.Act = t.Act + 1 /\ n3.Exp = t.Exp /\ n3.range = t.range /\ n3.over = t.over
      /\ n3.LastLevel = t.NextLevel /\ n3.NextLevel = n
  BY <1>4 DEF RiseRecord
<1> HIDE DEF n3
<1>6. n4 \in RiseRecord /\ n4.Act = t.Act + 1 /\ n4.Exp = t.Exp /\ n4.range = t.range + 1 /\ n4.over = t.over
      /\ n4.LastLevel = t.NextLevel /\ n4.NextLevel = n
  BY <1>1, <1>5 DEF RiseRecord
<1> HIDE DEF n4
<1> QED  BY <1>2, <1>6

LEMMA RiseOverType ==
    ASSUME NEW t \in RiseRecord, NEW p \in Int
    PROVE  RiseOver(t, p) \in RiseRecord /\ RiseOver(t, p).over
<1> DEFINE n1 == [t EXCEPT !.Act = t.Act + 1]
           n2 == [n1 EXCEPT !.LastLevel = t.NextLevel]
           n3 == [n2 EXCEPT !.NextLevel = t.Exp]
           n4 == [n3 EXCEPT !.Exp = t.Exp - p]
           n5 == [n4 EXCEPT !.over = TRUE]
<1>1. t.Act + 1 \in Nat /\ t.Exp - p \in Int /\ t.NextLevel \in Int /\ t.Exp \in Int
  BY DEF RiseRecord
<1>2. RiseOver(t, p) = n5  BY DEF RiseOver, RiseRecord
<1>3. n1 \in RiseRecord  BY <1>1 DEF RiseRecord
<1> HIDE DEF n1
<1>4. n2 \in RiseRecord  BY <1>1, <1>3 DEF RiseRecord
<1> HIDE DEF n2
<1>5. n3 \in RiseRecord  BY <1>1, <1>4 DEF RiseRecord
<1> HIDE DEF n3
<1>6. n4 \in RiseRecord  BY <1>1, <1>5 DEF RiseRecord
<1> HIDE DEF n4
<1>7. n5 \in RiseRecord /\ n5.over  BY <1>6 DEF RiseRecord
<1> HIDE DEF n5
<1> QED  BY <1>2, <1>7

\* Increase: unless the formula comes to its end, the level is the one that the
\* experience lies in, and range counts the levels.
LEMMA UpResult ==
    ASSUME NEW e, NEW L, Formula(e, L), NEW p \in Int, NEW s \in SkillRecord,
           Bounds(e, s), s.LastLevel <= s.Exp
    PROVE  /\ LevelsUp(s, e, p) \in RiseRecord
           /\ ~LevelsUp(s, e, p).over => /\ LevelsUp(s, e, p).Act = s.Act + LevelsUp(s, e, p).range
                                         /\ LevelsUp(s, e, p).Exp = s.Exp
                                         /\ Bounds(e, LevelsUp(s, e, p))
                                         /\ LevelsUp(s, e, p).LastLevel <= s.Exp /\ s.Exp < LevelsUp(s, e, p).NextLevel
<1> DEFINE D == RiseRecord
           Body(f, t) == IF t.over \/ t.Exp < t.NextLevel THEN t
                         ELSE IF e[t.Act + 2] < 0 THEN RiseOver(t, p) ELSE f[RiseStep(t, e[t.Act + 2])]
           X == {t \in D : t.over \/ t.Exp < t.NextLevel \/ e[t.Act + 2] < 0}
           next == [t \in D \ X |-> RiseStep(t, e[t.Act + 2])]
           m == [t \in D |-> IF t.Act <= L THEN L + 1 - t.Act ELSE 0]
           out == [t \in X |-> IF t.over \/ t.Exp < t.NextLevel THEN t ELSE RiseOver(t, p)]
<1>1. /\ e \in [Nat -> Int] /\ L \in Nat /\ \A l \in Nat : l > L => e[l] < 0  BY DEF Formula
<1>2. ASSUME NEW t \in D PROVE t.Act \in Nat /\ t.Act + 1 \in Nat /\ t.Act + 2 \in Nat /\ e[t.Act + 2] \in Int
  BY <1>1 DEF RiseRecord
<1>a. ASSUME NEW t \in D, t \notin X
      PROVE  /\ next[t] \in D /\ next[t].Act = t.Act + 1 /\ next[t].Exp = t.Exp /\ next[t].LastLevel = t.NextLevel
             /\ next[t].NextLevel = e[t.Act + 2] /\ next[t].range = t.range + 1 /\ next[t].over = t.over
  <2>1. PICK n \in Int : n = e[t.Act + 2]  BY <1>2
  <2>2. next[t] = RiseStep(t, n)  BY <1>a, <2>1
  <2> HIDE DEF next, X, m, out
  <2>3. /\ RiseStep(t, n) \in D /\ RiseStep(t, n).Act = t.Act + 1 /\ RiseStep(t, n).Exp = t.Exp
        /\ RiseStep(t, n).LastLevel = t.NextLevel /\ RiseStep(t, n).NextLevel = n
        /\ RiseStep(t, n).range = t.range + 1 /\ RiseStep(t, n).over = t.over
    BY RiseStepType, Zenon
  <2> QED  BY <2>1, <2>2, <2>3, Zenon
<1>3. Loop(D, m, X, next)
  <2>1. m \in [D -> Nat]
    <3> SUFFICES ASSUME NEW t \in D PROVE (IF t.Act <= L THEN L + 1 - t.Act ELSE 0) \in Nat
      OBVIOUS
    <3> QED  BY <1>1, <1>2
  <2>2. next \in [D \ X -> D]
    <3> SUFFICES ASSUME NEW t \in D \ X PROVE RiseStep(t, e[t.Act + 2]) \in D
      OBVIOUS
    <3> HIDE DEF m
    <3> QED  BY <1>2, RiseStepType
  <2>3. ASSUME NEW t \in D \ X PROVE m[next[t]] < m[t]
    <3>1. next[t] \in D /\ next[t].Act = t.Act + 1
      <4> HIDE DEF next, m
      <4> QED  BY <1>a, Zenon
    <3>2. t.Act + 2 <= L  BY <1>1, <1>2
    <3> QED  BY <1>1, <1>2, <3>1, <3>2
  <2> HIDE DEF m, next
  <2> QED  BY <2>1, <2>2, <2>3 DEF Loop
<1>4. out \in [X -> D]
  <2> SUFFICES ASSUME NEW t \in X PROVE (IF t.over \/ t.Exp < t.NextLevel THEN t ELSE RiseOver(t, p)) \in D
    OBVIOUS
  <2> QED  BY RiseOverType
<1>5. PICK f \in [D -> D] : \A t \in D : f[t] = IF t \in X THEN out[t] ELSE f[next[t]]
  <2> HIDE DEF D, X, m, next, out
  <2> QED  BY <1>3, <1>4, LoopEnds
<1>6. f = [t \in D |-> Body(f, t)]
  <2>1. ASSUME NEW t \in D PROVE f[t] = Body(f, t)
    <3>1. CASE t \in X
      <4>1. f[t] = out[t]  BY <1>5, <3>1
      <4> QED  BY <3>1, <4>1
    <3>2. CASE t \notin X
      <4>1. f[t] = f[next[t]] /\ next[t] = RiseStep(t, e[t.Act + 2])  BY <1>5, <3>2
      <4> QED  BY <3>2, <4>1
    <3> QED  BY <3>1, <3>2
  <2> HIDE DEF Body, D
  <2> QED  BY <1>5, <2>1
<1>7. \E g : g = [t \in D |-> Body(g, t)] /\ LevelsUp(s, e, p) = g[RiseStart(s)]
  BY <1>6, Zenon DEF LevelsUp, RiseStart, RiseStep, RiseOver, RiseRecord
<1>8. PICK g : g = [t \in D |-> Body(g, t)] /\ LevelsUp(s, e, p) = g[RiseStart(s)]
  BY <1>7
<1>9. \A t \in D \ X : g[t] = g[next[t]]
  <2> SUFFICES ASSUME NEW t \in D \ X PROVE g[t] = g[next[t]]
    OBVIOUS
  <2>1. g[t] = Body(g, t)  BY <1>8
  <2> QED  BY <2>1
<1>10. \A t \in X : g[t] = out[t]
  <2> SUFFICES ASSUME NEW t \in X PROVE g[t] = out[t]
    OBVIOUS
  <2>1. g[t] = Body(g, t)  BY <1>8
  <2> QED  BY <2>1
<1> DEFINE I == {t \in D : /\ ~t.over /\ t.Act = s.Act + t.range /\ t.Exp = s.Exp
                           /\ Bounds(e, t) /\ t.LastLevel <= s.Exp}
           J == {t \in D : t.over \/ (t \in I /\ s.Exp < t.NextLevel)}
<1>11. RiseStart(s) \in I
  BY <1>1 DEF RiseStart, RiseRecord, SkillRecord, Bounds
<1>12. ASSUME NEW t \in I \ X PROVE next[t] \in I
  <2>1. t \in D \ X /\ t \in D  OBVIOUS
  <2>2. /\ next[t] \in D /\ next[t].Act = t.Act + 1 /\ next[t].Exp = t.Exp /\ next[t].LastLevel = t.NextLevel
        /\ next[t].NextLevel = e[t.Act + 2] /\ next[t].range = t.range + 1 /\ next[t].over = t.over
    <3> HIDE DEF next, m, X
    <3> QED  BY <2>1, <1>a, Zenon
  <2>3. s.Act \in Nat /\ t.Act \in Nat /\ t.range \in Nat /\ t.Exp \in Int /\ t.NextLevel \in Int
    BY DEF SkillRecord, RiseRecord
  <2>4. ~(t.Exp < t.NextLevel)  OBVIOUS
  <2>5. ~next[t].over /\ next[t].Act = s.Act + next[t].range /\ next[t].Exp = s.Exp /\ next[t].LastLevel <= s.Exp
    BY <2>2, <2>3, <2>4
  <2>6. Bounds(e, next[t])
    <3>1. t.Act + 2 = (t.Act + 1) + 1  BY <2>3
    <3> QED  BY <2>2, <3>1 DEF Bounds
  <2> QED  BY <2>2, <2>5, <2>6
<1>13. ASSUME NEW t \in I \cap X PROVE g[t] \in J
  <2>1. g[t] = out[t]  BY <1>10
  <2>2. CASE t.Exp < t.NextLevel
    BY <2>1, <2>2
  <2>3. CASE ~(t.Exp < t.NextLevel)
    BY <2>1, <2>3, RiseOverType
  <2> QED  BY <2>2, <2>3
<1>14. g[RiseStart(s)] \in J
  <2> HIDE DEF J, X, D, next, m, out
  <2>1. I \subseteq D  OBVIOUS
  <2> HIDE DEF I
  <2> QED  BY <1>3, <1>9, <1>11, <1>12, <1>13, <2>1, LoopKeeps
<1> DEFINE u == g[RiseStart(s)]
<1> HIDE DEF u
<1>15. /\ u \in RiseRecord
       /\ ~u.over => /\ u.Act = s.Act + u.range /\ u.Exp = s.Exp /\ Bounds(e, u)
                     /\ u.LastLevel <= s.Exp /\ s.Exp < u.NextLevel
  <2>1. u \in J  BY <1>14 DEF u
  <2> QED  BY <2>1
<1>16. LevelsUp(s, e, p) = u  BY <1>8 DEF u
<1> QED  BY <1>15, <1>16, Zenon

FallRecord == [Act : Nat, Exp : Int, LastLevel : Int, NextLevel : Int, range : Int]
FallStart(s) == [Act |-> s.Act, Exp |-> s.Exp, LastLevel |-> s.LastLevel, NextLevel |-> s.NextLevel, range |-> 0]
FallStep(t, n) == [t EXCEPT !.Act = @ - 1, !.NextLevel = t.LastLevel, !.LastLevel = n, !.range = @ - 1]

LEMMA FallStepType ==
    ASSUME NEW t \in FallRecord, NEW n \in Int, t.Act > 0
    PROVE  /\ FallStep(t, n) \in FallRecord
           /\ FallStep(t, n).Act = t.Act - 1 /\ FallStep(t, n).Exp = t.Exp /\ FallStep(t, n).LastLevel = n
           /\ FallStep(t, n).NextLevel = t.LastLevel /\ FallStep(t, n).range = t.range - 1
<1> DEFINE n1 == [t EXCEPT !.Act = t.Act - 1]
           n2 == [n1 EXCEPT !.NextLevel = t.LastLevel]
           n3 == [n2 EXCEPT !.LastLevel = n]
           n4 == [n3 EXCEPT !.range = t.range - 1]
<1>1. t.Act - 1 \in Nat /\ t.range - 1 \in Int /\ t.LastLevel \in Int
  BY DEF FallRecord
<1>2. FallStep(t, n) = n4  BY DEF FallStep, FallRecord
<1>3. n1 \in FallRecord /\ n1.Act = t.Act - 1 /\ n1.Exp = t.Exp /\ n1.range = t.range
  BY <1>1 DEF FallRecord
<1> HIDE DEF n1
<1>4. n2 \in FallRecord /\ n2.Act = t.Act - 1 /\ n2.Exp = t.Exp /\ n2.range = t.range /\ n2.NextLevel = t.LastLevel
  BY <1>1, <1>3 DEF FallRecord
<1> HIDE DEF n2
<1>5. n3 \in FallRecord /\ n3.Act = t.Act - 1 /\ n3.Exp = t.Exp /\ n3.range = t.range /\ n3.NextLevel = t.LastLevel
      /\ n3.LastLevel = n
  BY <1>4 DEF FallRecord
<1> HIDE DEF n3
<1>6. n4 \in FallRecord /\ n4.Act = t.Act - 1 /\ n4.Exp = t.Exp /\ n4.range = t.range - 1
      /\ n4.NextLevel = t.LastLevel /\ n4.LastLevel = n
  BY <1>1, <1>5 DEF FallRecord
<1> HIDE DEF n4
<1> QED  BY <1>2, <1>6

\* Decrease, down to level min or to the level a, which costs nothing.
LEMMA DownResult ==
    ASSUME NEW e, NEW L, Formula(e, L), NEW min \in Nat, NEW a \in Nat, a >= min, e[a] = 0,
           NEW s \in SkillRecord, Bounds(e, s), s.Exp < s.NextLevel, s.Exp >= 0, s.Act >= a
    PROVE  /\ LevelsDown(s, e, min) \in FallRecord
           /\ LevelsDown(s, e, min).Act = s.Act + LevelsDown(s, e, min).range
           /\ LevelsDown(s, e, min).Exp = s.Exp
           /\ LevelsDown(s, e, min).Act >= a
           /\ Bounds(e, LevelsDown(s, e, min))
           /\ LevelsDown(s, e, min).LastLevel <= s.Exp /\ s.Exp < LevelsDown(s, e, min).NextLevel
<1> DEFINE D == FallRecord
           Body(f, t) == IF t.Exp < t.LastLevel /\ t.Act > min THEN f[FallStep(t, e[t.Act - 1])] ELSE t
           X == {t \in D : ~(t.Exp < t.LastLevel /\ t.Act > min)}
           next == [t \in D \ X |-> FallStep(t, e[t.Act - 1])]
           m == [t \in D |-> t.Act]
           out == [t \in X |-> t]
<1>1. e \in [Nat -> Int]  BY DEF Formula
<1>2. ASSUME NEW t \in D, t \notin X
      PROVE  t.Exp < t.LastLevel /\ t.Act \in Nat /\ t.Act > 0 /\ t.Act - 1 \in Nat /\ e[t.Act - 1] \in Int
  <2>1. t.Act \in Nat  BY DEF FallRecord
  <2>2. t.Exp < t.LastLevel /\ t.Act > min  BY <1>2
  <2> QED  BY <1>1, <2>1, <2>2
<1>3. Loop(D, m, X, next)
  <2>1. m \in [D -> Nat]  BY DEF FallRecord
  <2>2. next \in [D \ X -> D]
    <3> SUFFICES ASSUME NEW t \in D \ X PROVE FallStep(t, e[t.Act - 1]) \in D
      OBVIOUS
    <3> QED  BY <1>2, FallStepType
  <2>3. ASSUME NEW t \in D \ X PROVE m[next[t]] < m[t]
    <3>0. next[t] = FallStep(t, e[t.Act - 1]) /\ e[t.Act - 1] \in Int /\ t.Act \in Nat /\ t.Act > 0  BY <1>2
    <3>1. next[t] \in D /\ next[t].Act = t.Act - 1
      <4> HIDE DEF next, m
      <4> QED  BY <3>0, FallStepType
    <3> QED  BY <3>0, <3>1
  <2> HIDE DEF m, next
  <2> QED  BY <2>1, <2>2, <2>3 DEF Loop
<1>4. out \in [X -> D]
  OBVIOUS
<1>5. PICK f \in [D -> D] : \A t \in D : f[t] = IF t \in X THEN out[t] ELSE f[next[t]]
  <2> HIDE DEF D, X, m, next, out
  <2> QED  BY <1>3, <1>4, LoopEnds
<1>6. f = [t \in D |-> Body(f, t)]
  <2>1. ASSUME NEW t \in D PROVE f[t] = Body(f, t)
    <3>1. CASE t \in X
      <4>1. f[t] = out[t]  BY <1>5, <3>1
      <4> QED  BY <3>1, <4>1
    <3>2. CASE t \notin X
      <4>1. f[t] = f[next[t]] /\ next[t] = FallStep(t, e[t.Act - 1])  BY <1>5, <3>2
      <4> QED  BY <3>2, <4>1
    <3> QED  BY <3>1, <3>2
  <2> HIDE DEF Body, D
  <2> QED  BY <1>5, <2>1
<1>7. \E g : g = [t \in D |-> Body(g, t)] /\ LevelsDown(s, e, min) = g[FallStart(s)]
  BY <1>6, Zenon DEF LevelsDown, FallStart, FallStep, FallRecord
<1>8. PICK g : g = [t \in D |-> Body(g, t)] /\ LevelsDown(s, e, min) = g[FallStart(s)]
  BY <1>7
<1>9. \A t \in D \ X : g[t] = g[next[t]]
  <2> SUFFICES ASSUME NEW t \in D \ X PROVE g[t] = g[next[t]]
    OBVIOUS
  <2>1. g[t] = Body(g, t)  BY <1>8
  <2> QED  BY <2>1
<1>10. \A t \in X : g[t] = t
  <2> SUFFICES ASSUME NEW t \in X PROVE g[t] = t
    OBVIOUS
  <2>1. g[t] = Body(g, t)  BY <1>8
  <2> QED  BY <2>1
<1> DEFINE I == {t \in D : /\ t.Act = s.Act + t.range /\ t.Exp = s.Exp /\ t.Act >= a
                           /\ Bounds(e, t) /\ s.Exp < t.NextLevel}
           J == {t \in I : t.LastLevel <= s.Exp}
<1>11. FallStart(s) \in I
  BY <1>1 DEF FallStart, FallRecord, SkillRecord, Bounds
<1>12. ASSUME NEW t \in I \ X PROVE next[t] \in I
  <2>1. t \in D \ X /\ t \in D  OBVIOUS
  <2>2. /\ next[t] \in D /\ next[t].Act = t.Act - 1 /\ next[t].Exp = t.Exp /\ next[t].LastLevel = e[t.Act - 1]
        /\ next[t].NextLevel = t.LastLevel /\ next[t].range = t.range - 1
    <3>1. next[t] = FallStep(t, e[t.Act - 1]) /\ e[t.Act - 1] \in Int /\ t.Act > 0  BY <1>2, <2>1
    <3> HIDE DEF next, m, X
    <3> QED  BY <2>1, <3>1, FallStepType
  <2>3. s.Act \in Nat /\ t.Act \in Nat /\ t.range \in Int /\ t.Exp \in Int /\ t.LastLevel \in Int
    BY DEF SkillRecord, FallRecord
  <2>4. t.Exp < t.LastLevel  BY <1>2, <2>1
  <2>5. t.Act # a  BY <2>3, <2>4 DEF Bounds
  <2>6. next[t].Act = s.Act + next[t].range /\ next[t].Exp = s.Exp /\ next[t].Act >= a /\ s.Exp < next[t].NextLevel
    BY <2>2, <2>3, <2>4, <2>5
  <2>7. Bounds(e, next[t])
    <3>1. t.Act = (t.Act - 1) + 1  BY <2>3
    <3>2. t.LastLevel = e[t.Act]  BY DEF Bounds
    <3> QED  BY <2>2, <3>1, <3>2 DEF Bounds
  <2> QED  BY <2>2, <2>6, <2>7
<1>13. ASSUME NEW t \in I \cap X PROVE g[t] \in J
  <2>1. g[t] = t  BY <1>10
  <2>2. t.Act \in Nat /\ t.LastLevel \in Int /\ t.Exp \in Int  BY DEF FallRecord
  <2>3. CASE t.Act > min
    BY <2>1, <2>2, <2>3
  <2>4. CASE ~(t.Act > min)
    <3>1. t.Act = a  BY <2>2, <2>4
    <3>2. t.LastLevel = 0  BY <3>1 DEF Bounds
    <3> QED  BY <2>1, <3>2
  <2> QED  BY <2>3, <2>4
<1>14. g[FallStart(s)] \in J
  <2>1. I \subseteq D  OBVIOUS
  <2> HIDE DEF J, X, D, next, m, out, I
  <2> QED  BY <1>3, <1>9, <1>11, <1>12, <1>13, <2>1, LoopKeeps
<1> QED  BY <1>8, <1>14

-----------------------------------------------------------------------------
(* The list of timers.                                                     *)

Distinct(list) == \A i, j \in DOMAIN list : list[i] = list[j] => i = j
Listed(list, s) == \E i \in DOMAIN list : list[i] = s

TimerRecord == [list : Seq(Timed), cycle : [Timed -> Nat], outfit : {"Org", "Illusion"}]

\* A list without its element at place i: what was last is not forgotten.
LEMMA SwapAndPopStep ==
    ASSUME NEW list \in Seq(Timed), Distinct(list), NEW i \in DOMAIN list
    PROVE  /\ SwapAndPop(list, i) \in Seq(Timed) /\ Distinct(SwapAndPop(list, i))
           /\ \A s : Listed(SwapAndPop(list, i), s) <=> Listed(list, s) /\ s # list[i]
<1> DEFINE n == Len(list)
           new == [k \in 1 .. n - 1 |-> IF k = i THEN list[n] ELSE list[k]]
<1>1. n \in Nat /\ DOMAIN list = 1 .. n /\ i \in 1 .. n /\ n \in 1 .. n /\ \A k \in 1 .. n : list[k] \in Timed
  OBVIOUS
<1>2. SwapAndPop(list, i) = new  BY DEF SwapAndPop
<1>3. new \in Seq(Timed)
  <2>1. \A k \in 1 .. n - 1 : new[k] \in Timed  BY <1>1
  <2>2. n - 1 \in Nat  BY <1>1
  <2> QED  BY <2>1, <2>2, IsASeq
<1>4. DOMAIN new = 1 .. n - 1  OBVIOUS
<1>5. \A k \in 1 .. n - 1 : new[k] = IF k = i THEN list[n] ELSE list[k]  OBVIOUS
<1> HIDE DEF new, n
<1>6. \A j, k \in 1 .. n : list[j] = list[k] => j = k  BY <1>1 DEF Distinct
<1>7. Distinct(new)
  <2> SUFFICES ASSUME NEW j \in 1 .. n - 1, NEW k \in 1 .. n - 1, new[j] = new[k] PROVE j = k
    BY <1>4 DEF Distinct
  <2>1. j \in 1 .. n /\ k \in 1 .. n /\ j # n /\ k # n  BY <1>1
  <2> QED  BY <1>1, <1>5, <1>6, <2>1
<1>8. ASSUME NEW s, Listed(new, s) PROVE Listed(list, s) /\ s # list[i]
  <2>1. PICK k \in 1 .. n - 1 : new[k] = s  BY <1>4, <1>8 DEF Listed
  <2>2. k \in 1 .. n /\ k # n  BY <1>1
  <2>3. PICK j \in 1 .. n : j # i /\ s = list[j]  BY <1>1, <1>5, <2>1, <2>2
  <2> QED  BY <1>1, <1>6, <2>3 DEF Listed
<1>9. ASSUME NEW s, Listed(list, s), s # list[i] PROVE Listed(new, s)
  <2>1. PICK k \in 1 .. n : list[k] = s /\ k # i  BY <1>1, <1>9 DEF Listed
  <2>2. CASE k = n
    <3>1. i \in 1 .. n - 1  BY <1>1, <2>1, <2>2
    <3> QED  BY <1>4, <1>5, <2>1, <2>2, <3>1 DEF Listed
  <2>3. CASE k # n
    <3>1. k \in 1 .. n - 1  BY <1>1, <2>3
    <3> QED  BY <1>4, <1>5, <2>1, <3>1 DEF Listed
  <2> QED  BY <2>2, <2>3
<1> QED  BY <1>2, <1>3, <1>7, <1>8, <1>9

LEMMA DelTimerStep ==
    ASSUME NEW list \in Seq(Timed), Distinct(list), NEW s
    PROVE  /\ DelTimer(list, s) \in Seq(Timed) /\ Distinct(DelTimer(list, s))
           /\ \A x : Listed(DelTimer(list, s), x) <=> Listed(list, x) /\ x # s
<1>1. CASE Listed(list, s)
  <2> DEFINE i == CHOOSE i \in DOMAIN list : list[i] = s
  <2>1. i \in DOMAIN list /\ list[i] = s  BY <1>1 DEF Listed
  <2>2. DelTimer(list, s) = SwapAndPop(list, i)  BY <1>1, Zenon DEF DelTimer, Listed
  <2> HIDE DEF i
  <2> QED  BY <2>1, <2>2, SwapAndPopStep
<1>2. CASE ~Listed(list, s)
  <2>1. DelTimer(list, s) = list  BY <1>2, Zenon DEF DelTimer, Listed
  <2> QED  BY <1>2, <2>1
<1> QED  BY <1>1, <1>2

LEMMA AppendTimer ==
    ASSUME NEW list \in Seq(Timed), Distinct(list), NEW s \in Timed, ~Listed(list, s)
    PROVE  /\ Append(list, s) \in Seq(Timed) /\ Distinct(Append(list, s))
           /\ \A x : Listed(Append(list, s), x) <=> Listed(list, x) \/ x = s
<1> DEFINE n == Len(list)
           new == Append(list, s)
<1>1. n \in Nat /\ DOMAIN list = 1 .. n  OBVIOUS
<1>2. new \in Seq(Timed) /\ DOMAIN new = 1 .. n + 1 /\ new[n + 1] = s /\ \A k \in 1 .. n : new[k] = list[k]
  OBVIOUS
<1> HIDE DEF n, new
<1>3. \A k \in 1 .. n + 1 : k \in 1 .. n \/ k = n + 1  BY <1>1
<1>4. \A k \in 1 .. n : k \in 1 .. n + 1 /\ list[k] # s  BY <1>1 DEF Listed
<1>5. n + 1 \in 1 .. n + 1  BY <1>1
<1>6. Distinct(new)
  <2> SUFFICES ASSUME NEW j \in 1 .. n + 1, NEW k \in 1 .. n + 1, new[j] = new[k] PROVE j = k
    BY <1>2 DEF Distinct
  <2>1. CASE j \in 1 .. n /\ k \in 1 .. n  BY <1>1, <1>2, <2>1 DEF Distinct
  <2>2. CASE j = n + 1 \/ k = n + 1  BY <1>2, <1>3, <1>4, <2>2
  <2> QED  BY <1>3, <2>1, <2>2
<1>7. \A x : Listed(new, x) <=> Listed(list, x) \/ x = s
  BY <1>1, <1>2, <1>3, <1>4, <1>5 DEF Listed
<1> QED  BY <1>2, <1>6, <1>7 DEF new

\* SetTimer: the effect has one timer, the others keep theirs.
LEMMA SetTimerStep ==
    ASSUME NEW t \in TimerRecord, Distinct(t.list), NEW s \in Timed, NEW c \in Nat
    PROVE  LET u == SetTimer(t, s, c) IN
           /\ u \in TimerRecord /\ Distinct(u.list) /\ u.outfit = t.outfit
           /\ \A x : Listed(u.list, x) <=> Listed(t.list, x) \/ x = s
           /\ u.cycle[s] = c /\ \A x \in Timed \ {s} : u.cycle[x] = t.cycle[x]
<1> DEFINE new == Append(DelTimer(t.list, s), s)
           cyc == [t.cycle EXCEPT ![s] = c]
           u1 == [t EXCEPT !.list = new]
           u2 == [u1 EXCEPT !.cycle = cyc]
<1>1. t.list \in Seq(Timed) /\ t.cycle \in [Timed -> Nat]  BY DEF TimerRecord
<1>2. /\ DelTimer(t.list, s) \in Seq(Timed) /\ Distinct(DelTimer(t.list, s))
      /\ \A x : Listed(DelTimer(t.list, s), x) <=> Listed(t.list, x) /\ x # s
  BY <1>1, DelTimerStep
<1>3. new \in Seq(Timed) /\ Distinct(new) /\ \A x : Listed(new, x) <=> Listed(t.list, x) \/ x = s
  <2>1. ~Listed(DelTimer(t.list, s), s)  BY <1>2
  <2>2. new \in Seq(Timed) /\ Distinct(new)
        /\ \A x : Listed(new, x) <=> Listed(DelTimer(t.list, s), x) \/ x = s
    BY <1>2, <2>1, AppendTimer
  <2> HIDE DEF new
  <2> QED  BY <1>2, <2>2
<1>4. SetTimer(t, s, c) = u2  BY DEF SetTimer, TimerRecord
<1>5. cyc \in [Timed -> Nat] /\ cyc[s] = c /\ \A x \in Timed \ {s} : cyc[x] = t.cycle[x]  BY <1>1
<1> HIDE DEF new, cyc
<1>6. u1 \in TimerRecord /\ u1.list = new /\ u1.outfit = t.outfit  BY <1>3 DEF TimerRecord
<1> HIDE DEF u1
<1>7. u2 \in TimerRecord /\ u2.list = new /\ u2.outfit = t.outfit /\ u2.cycle = cyc  BY <1>5, <1>6 DEF TimerRecord
<1> HIDE DEF u2
<1> QED  BY <1>3, <1>4, <1>5, <1>7

\* Every effect that lasts has one timer, and a borrowed outfit has an effect.
Agreed(t) ==
    /\ Distinct(t.list)
    /\ \A s \in Timed : t.cycle[s] # 0 => Listed(t.list, s)
    /\ t.outfit = "Illusion" => t.cycle["ILLUSION"] # 0

LEMMA AgreedIsAgree == TimersAgree <=> Agreed(Effects)
  BY DEF TimersAgree, Agreed, Effects, Distinct, Listed

LEMMA NewTimersAgree ==
    ASSUME NEW t \in TimerRecord, Agreed(t), NewTimers(t)
    PROVE  Effects' \in TimerRecord /\ TimersAgree'
<1>1. Effects' = [list |-> t.list, cycle |-> t.cycle, outfit |-> t.outfit]  BY DEF Effects, NewTimers
<1>2. Effects' = t  BY <1>1 DEF TimerRecord
<1>3. TimersAgree' <=> Agreed(Effects)'
  BY DEF TimersAgree, Agreed, Effects, Distinct, Listed
<1>4. Agreed(Effects)' <=> Agreed(t)  BY <1>2 DEF Agreed
<1> QED  BY <1>2, <1>3, <1>4

\* One turn of an effect, which may end it, take an illusion away with it, or
\* find the creature in a field.
LEMMA ProcessTimers ==
    ASSUME Effects \in TimerRecord, Agreed(Effects), NEW s \in Timed, Listed(TimerList, s), cycle[s] # 0,
           NEW field \in BOOLEAN, Process(s, field)
    PROVE  Effects' \in TimerRecord /\ TimersAgree'
<1> DEFINE range == IF s = "POISON" /\ cycle[s] \div 2 > 0 THEN cycle[s] \div 2 ELSE 1
           damage == IF s \in {"POISON", "BURNING"} THEN range ELSE 0
           t0 == [Effects EXCEPT !.cycle[s] = @ - range]
           t == Disclosed(t0, damage)
           ended == s = "ILLUSION" /\ t.cycle[s] = 0
           extra == IF field /\ s \in {"POISON", "BURNING"} /\ t.cycle[s] < MaxCycle THEN 1 ELSE 0
           new == [t EXCEPT !.cycle[s] = @ + extra, !.outfit = IF ended THEN "Org" ELSE @]
<1>1. NewTimers(new)  BY DEF Process
<1>2. Effects.list = TimerList /\ Effects.cycle = cycle /\ Effects.outfit = outfit  BY DEF Effects
<1>3. cycle \in [Timed -> Nat] /\ cycle[s] \in Nat  BY <1>2 DEF TimerRecord
<1>4. range \in Nat /\ range <= cycle[s]  BY <1>3
<1> DEFINE cyc == [cycle EXCEPT ![s] = @ - range]
<1>5. cyc \in [Timed -> Nat] /\ \A x \in Timed \ {s} : cyc[x] = cycle[x]  BY <1>3, <1>4
<1>6. t0 = [Effects EXCEPT !.cycle = cyc]  BY <1>2
<1> HIDE DEF cyc, range
<1>7. t0 \in TimerRecord /\ t0.list = TimerList /\ t0.cycle = cyc /\ t0.outfit = outfit
  <2> HIDE DEF t0
  <2> QED  BY <1>2, <1>5, <1>6 DEF TimerRecord
<1> HIDE DEF t0
<1>8. Distinct(TimerList) /\ (\A x \in Timed : cycle[x] # 0 => Listed(TimerList, x))
      /\ (outfit = "Illusion" => cycle["ILLUSION"] # 0)
  BY <1>2 DEF Agreed
<1>9. /\ t \in TimerRecord /\ Distinct(t.list) /\ Listed(t.list, s)
      /\ \A x \in Timed : t.cycle[x] # 0 => Listed(t.list, x)
      /\ t.outfit = "Illusion" => t = t0
  <2>1. CASE t = t0
    BY <1>5, <1>7, <1>8, <2>1
  <2>2. CASE t # t0
    <3> DEFINE u == SetTimer(t0, "ILLUSION", 0)
    <3>1. t = [u EXCEPT !.outfit = "Org"]  BY <2>2 DEF Disclosed
    <3>2. /\ u \in TimerRecord /\ Distinct(u.list)
          /\ \A x : Listed(u.list, x) <=> Listed(t0.list, x) \/ x = "ILLUSION"
          /\ \A x \in Timed \ {"ILLUSION"} : u.cycle[x] = t0.cycle[x]
      BY <1>7, <1>8, SetTimerStep DEF Timed
    <3> HIDE DEF u, t
    <3>3. t \in TimerRecord /\ t.list = u.list /\ t.cycle = u.cycle /\ t.outfit = "Org"
      BY <3>1, <3>2 DEF TimerRecord
    <3>4. \A x \in Timed : t.cycle[x] # 0 => Listed(t.list, x)
      BY <1>5, <1>7, <1>8, <3>2, <3>3
    <3> QED  BY <1>7, <3>2, <3>3, <3>4
  <2> QED  BY <2>1, <2>2
<1>10. t.cycle \in [Timed -> Nat] /\ t.cycle[s] \in Nat /\ extra \in Nat  BY <1>9 DEF TimerRecord
<1> DEFINE cyc2 == [t.cycle EXCEPT ![s] = @ + extra]
           n1 == [t EXCEPT !.cycle = cyc2]
           n2 == [n1 EXCEPT !.outfit = IF ended THEN "Org" ELSE t.outfit]
<1>11. cyc2 \in [Timed -> Nat] /\ cyc2[s] = t.cycle[s] + extra /\ \A x \in Timed \ {s} : cyc2[x] = t.cycle[x]
  BY <1>10
<1>12. new = n2
  <2> HIDE DEF t, ended, extra
  <2> QED  BY <1>9 DEF TimerRecord
<1>13. ended \in BOOLEAN /\ (ended <=> s = "ILLUSION" /\ t.cycle[s] = 0)  OBVIOUS
<1>14. s = "ILLUSION" => extra = 0  OBVIOUS
<1>15. t = t0 => t.cycle = cyc /\ t.outfit = outfit  BY <1>7
<1> HIDE DEF t, ended, extra, cyc2
<1>16. n1 \in TimerRecord /\ n1.list = t.list /\ n1.cycle = cyc2 /\ n1.outfit = t.outfit
  BY <1>9, <1>11 DEF TimerRecord
<1> HIDE DEF n1
<1>17. n2 \in TimerRecord /\ n2.list = t.list /\ n2.cycle = cyc2 /\ n2.outfit = IF ended THEN "Org" ELSE t.outfit
  <2>1. (IF ended THEN "Org" ELSE t.outfit) \in {"Org", "Illusion"}  BY <1>9 DEF TimerRecord
  <2> QED  BY <1>16, <2>1 DEF TimerRecord
<1> HIDE DEF n2
<1>18. Agreed(n2)
  <2>1. \A x \in Timed : n2.cycle[x] # 0 => Listed(n2.list, x)
    BY <1>9, <1>11, <1>17
  <2>2. ASSUME n2.outfit = "Illusion" PROVE n2.cycle["ILLUSION"] # 0
    <3>1. ~ended /\ t.outfit = "Illusion"  BY <1>17, <2>2
    <3>2. t = t0 /\ t.cycle = cyc /\ outfit = "Illusion" /\ cycle["ILLUSION"] # 0  BY <1>8, <1>9, <1>15, <3>1
    <3>3. "ILLUSION" \in Timed  BY DEF Timed
    <3>4. CASE s = "ILLUSION"
      BY <1>10, <1>11, <1>13, <1>14, <1>17, <3>1, <3>4
    <3>5. CASE s # "ILLUSION"
      BY <1>5, <1>11, <1>17, <3>2, <3>3, <3>5
    <3> QED  BY <3>4, <3>5
  <2> QED  BY <1>9, <1>17, <2>1, <2>2 DEF Agreed
<1>19. NewTimers(n2)  BY <1>1, <1>12
<1> QED  BY <1>17, <1>18, <1>19, NewTimersAgree

-----------------------------------------------------------------------------
(* The invariant of the skills.                                            *)

LevelOK(l, h) ==
    /\ l.Act >= 1 /\ l.Exp >= 0 /\ Bounds(GetExpForLevel, l)
    /\ l.LastLevel <= l.Exp /\ l.Exp < l.NextLevel
    /\ h.Max = MinHitPoints + AddLevel * (l.Act - 1) /\ h.Act <= h.Max

ProbeOK(p) ==
    /\ p.Act >= MinSkill /\ p.Exp >= 0 /\ Bounds(ProbeExpForLevel, p)
    /\ p.LastLevel <= p.Exp /\ p.Exp < p.NextLevel

SkillTypeOK ==
    /\ level \in SkillRecord /\ probe \in SkillRecord
    /\ hp \in [Act : Int, Max : Int]
    /\ capped \in BOOLEAN
    /\ Effects \in TimerRecord
    /\ index \in Nat /\ IsDead \in BOOLEAN

SkillInv ==
    /\ SkillTypeOK
    /\ ~capped => LevelOK(level, hp) /\ ProbeOK(probe)
    /\ TimersAgree

LEMMA Formulas ==
    ASSUME SkillAssumption
    PROVE  /\ Formula(GetExpForLevel, MaxLevel) /\ GetExpForLevel[1] = 0 /\ GetExpForLevel[2] = Delta
           /\ Formula(ProbeExpForLevel, LastSkill) /\ ProbeExpForLevel[MinSkill] = 0
           /\ ProbeExpForLevel[MinSkill + 1] = 1
<1> USE DEF SkillAssumption
<1>1. GetExpForLevel = [l \in Nat |-> IF l < 1 THEN 0 ELSE IF l > MaxLevel THEN -1
                                      ELSE ((((l - 6) * l + 17) * l - 12) \div 6) * Delta]
  BY DEF GetExpForLevel
<1>2. ProbeExpForLevel = [l \in Nat |-> IF l < MinSkill THEN 0 ELSE IF l > LastSkill THEN -1
                                        ELSE 2 ^ (l - MinSkill) - 1]
  BY DEF ProbeExpForLevel
<1>3. GetExpForLevel[1] = 0 /\ GetExpForLevel[2] = Delta
  BY <1>1
<1>4. ProbeExpForLevel[MinSkill] = 0 /\ ProbeExpForLevel[MinSkill + 1] = 1
  <2>1. MinSkill - MinSkill = 0 /\ (MinSkill + 1) - MinSkill = 1 /\ 2 ^ 0 = 1 /\ 2 ^ 1 = 2
    OBVIOUS
  <2> QED  BY <1>2, <2>1
<1>5. Formula(GetExpForLevel, MaxLevel)
  <2>1. ASSUME NEW l \in Nat PROVE GetExpForLevel[l] \in Int /\ (l > MaxLevel => GetExpForLevel[l] < 0)
    <3>1. ((((l - 6) * l + 17) * l - 12) \div 6) * Delta \in Int
      <4>1. ((l - 6) * l + 17) * l - 12 \in Int  OBVIOUS
      <4>2. (((l - 6) * l + 17) * l - 12) \div 6 \in Int  BY <4>1
      <4> QED  BY <4>2
    <3> QED  BY <1>1, <3>1
  <2>2. GetExpForLevel \in [Nat -> Int]  BY <1>1, <2>1
  <2> QED  BY <2>1, <2>2 DEF Formula
<1>6. Formula(ProbeExpForLevel, LastSkill)
  <2>1. ASSUME NEW l \in Nat PROVE ProbeExpForLevel[l] \in Int /\ (l > LastSkill => ProbeExpForLevel[l] < 0)
    <3>1. ASSUME l >= MinSkill PROVE 2 ^ (l - MinSkill) - 1 \in Int
      <4>1. l - MinSkill \in Nat  BY <3>1
      <4>2. 2 ^ (l - MinSkill) \in Int  BY <4>1
      <4> QED  BY <4>2
    <3> QED  BY <1>2, <3>1
  <2>2. ProbeExpForLevel \in [Nat -> Int]  BY <1>2, <2>1
  <2> QED  BY <2>1, <2>2 DEF Formula
<1> QED  BY <1>3, <1>4, <1>5, <1>6

\* At the first level nothing runs.
LEMMA SkillInitInv == ASSUME SkillAssumption, SkillInit PROVE SkillInv
<1> USE DEF SkillInit
<1>1. Effects \in TimerRecord
  <2>1. [s \in Timed |-> 0] \in [Timed -> Nat] /\ <<>> \in Seq(Timed)  OBVIOUS
  <2> QED  BY <2>1 DEF Effects, TimerRecord
<1>2. SkillTypeOK
  <2>1. level \in SkillRecord /\ probe \in SkillRecord  BY DEF SkillRecord, SkillAssumption
  <2>2. hp \in [Act : Int, Max : Int]  BY DEF SkillAssumption
  <2> QED  BY <1>1, <2>1, <2>2 DEF SkillTypeOK
<1>3. LevelOK(level, hp)  BY Formulas DEF LevelOK, Bounds, SkillAssumption
<1>4. ProbeOK(probe)  BY Formulas DEF ProbeOK, Bounds, SkillAssumption
<1>5. TimersAgree
  <2>1. DOMAIN TimerList = {}  OBVIOUS
  <2>2. \A s \in Timed : cycle[s] = 0  OBVIOUS
  <2> QED  BY <2>1, <2>2 DEF TimersAgree
<1> QED  BY <1>2, <1>3, <1>4, <1>5 DEF SkillInv

LEMMA AdvanceStep ==
    ASSUME NEW h \in [Act : Int, Max : Int], NEW r \in Int, SkillAssumption
    PROVE  /\ Advance(h, r) \in [Act : Int, Max : Int] /\ Advance(h, r).Max = h.Max + r * AddLevel
           /\ Advance(h, r).Act <= Advance(h, r).Max
<1>1. h.Max + r * AddLevel \in Int /\ h.Act + r * AddLevel \in Int  BY DEF SkillAssumption
<1> QED  BY <1>1 DEF Advance

\* Experience that is added.
LEMMA IncreaseStep ==
    ASSUME NEW s \in SkillRecord, NEW n \in Int
    PROVE  /\ [s EXCEPT !.Exp = n] \in SkillRecord
           /\ [s EXCEPT !.Exp = n].Exp = n /\ [s EXCEPT !.Exp = n].Act = s.Act
           /\ [s EXCEPT !.Exp = n].LastLevel = s.LastLevel /\ [s EXCEPT !.Exp = n].NextLevel = s.NextLevel
  BY DEF SkillRecord

LEMMA GrownRise ==
    ASSUME NEW t \in RiseRecord
    PROVE  /\ Grown(t) \in SkillRecord /\ Grown(t).Act = t.Act /\ Grown(t).Exp = t.Exp
           /\ Grown(t).LastLevel = t.LastLevel /\ Grown(t).NextLevel = t.NextLevel
  BY DEF Grown, RiseRecord, SkillRecord

LEMMA GrownFall ==
    ASSUME NEW t \in FallRecord
    PROVE  /\ Grown(t) \in SkillRecord /\ Grown(t).Act = t.Act /\ Grown(t).Exp = t.Exp
           /\ Grown(t).LastLevel = t.LastLevel /\ Grown(t).NextLevel = t.NextLevel
  BY DEF Grown, FallRecord, SkillRecord

\* The hitpoints go with the level, up and down.
LEMMA HitPointsFollow ==
    ASSUME SkillAssumption, NEW h \in [Act : Int, Max : Int], NEW a \in Int, NEW r \in Int,
           h.Max = MinHitPoints + AddLevel * (a - 1)
    PROVE  Advance(h, r).Max = MinHitPoints + AddLevel * ((a + r) - 1)
<1>1. AddLevel \in Int /\ MinHitPoints \in Int  BY DEF SkillAssumption
<1>2. AddLevel * ((a + r) - 1) = AddLevel * (a - 1) + r * AddLevel  BY <1>1
<1>3. Advance(h, r).Max = h.Max + r * AddLevel  BY AdvanceStep
<1>4. AddLevel * (a - 1) \in Int /\ r * AddLevel \in Int  BY <1>1
<1> QED  BY <1>1, <1>2, <1>3, <1>4

LEMMA LevelIncreaseInv ==
    ASSUME SkillAssumption, SkillInv, ~capped, NEW n \in Nat, LevelIncrease(n)
    PROVE  /\ level' \in SkillRecord /\ hp' \in [Act : Int, Max : Int] /\ capped' \in BOOLEAN
           /\ ~capped' => LevelOK(level', hp')
<1> DEFINE e == GetExpForLevel
           s == [level EXCEPT !.Exp = @ + n]
           t == LevelsUp(s, e, Penalty)
<1>1. Formula(e, MaxLevel) /\ Penalty \in Int  BY Formulas DEF SkillAssumption
<1>2. level \in SkillRecord /\ hp \in [Act : Int, Max : Int] /\ LevelOK(level, hp)  BY DEF SkillInv, SkillTypeOK
<1>3. level.Act \in Nat /\ level.Exp \in Int /\ level.LastLevel \in Int  BY <1>2 DEF SkillRecord
<1>4. /\ s \in SkillRecord /\ s.Exp = level.Exp + n /\ s.Act = level.Act
      /\ s.LastLevel = level.LastLevel /\ s.NextLevel = level.NextLevel
  BY <1>2, <1>3, IncreaseStep
<1>5. level' = Grown(t) /\ hp' = Advance(hp, t.range) /\ capped' = (capped \/ t.over)
  BY DEF LevelIncrease
<1> HIDE DEF e, s
<1>6. Bounds(e, s) /\ s.LastLevel <= s.Exp
  BY <1>2, <1>3, <1>4 DEF LevelOK, Bounds, e
<1>7. /\ t \in RiseRecord
      /\ ~t.over => /\ t.Act = s.Act + t.range /\ t.Exp = s.Exp /\ Bounds(e, t)
                    /\ t.LastLevel <= s.Exp /\ s.Exp < t.NextLevel
  BY <1>1, <1>4, <1>6, UpResult
<1> HIDE DEF t
<1>8. t.over \in BOOLEAN /\ t.range \in Nat /\ t.Act \in Nat  BY <1>7 DEF RiseRecord
<1>9. /\ level' \in SkillRecord /\ level'.Act = t.Act /\ level'.Exp = t.Exp
      /\ level'.LastLevel = t.LastLevel /\ level'.NextLevel = t.NextLevel
  BY <1>5, <1>7, GrownRise
<1>10. hp' \in [Act : Int, Max : Int] /\ hp'.Act <= hp'.Max
  <2>1. t.range \in Int  BY <1>8
  <2> QED  BY <1>2, <1>5, <2>1, AdvanceStep
<1>11. ASSUME ~capped' PROVE LevelOK(level', hp')
  <2>1. ~t.over  BY <1>5, <1>11
  <2>2. hp'.Max = MinHitPoints + AddLevel * ((level.Act + t.range) - 1)
    BY <1>2, <1>3, <1>5, <1>8, HitPointsFollow DEF LevelOK
  <2>3. level'.Act = level.Act + t.range  BY <1>4, <1>7, <1>9, <2>1
  <2>4. level'.Act >= 1 /\ level'.Exp >= 0 /\ level'.LastLevel <= level'.Exp /\ level'.Exp < level'.NextLevel
    BY <1>2, <1>3, <1>4, <1>7, <1>8, <1>9, <2>1, <2>3 DEF LevelOK
  <2>5. Bounds(GetExpForLevel, level')  BY <1>7, <1>9, <2>1 DEF Bounds, e
  <2> QED  BY <1>10, <2>2, <2>3, <2>4, <2>5 DEF LevelOK
<1>12. capped' \in BOOLEAN  BY <1>5, <1>8 DEF SkillInv, SkillTypeOK
<1> QED  BY <1>9, <1>10, <1>11, <1>12

\* What is left of n when m is taken from it.
LEMMA TakenFrom ==
    ASSUME NEW n \in Int, n >= 0, NEW m \in Int, m >= 0
    PROVE  LET k == IF m < n THEN n - m ELSE 0 IN k \in Int /\ k >= 0 /\ k <= n
  OBVIOUS

LEMMA LevelDecreaseInv ==
    ASSUME SkillAssumption, SkillInv, ~capped, NEW n \in Nat, LevelDecrease(n)
    PROVE  level' \in SkillRecord /\ hp' \in [Act : Int, Max : Int] /\ LevelOK(level', hp')
<1> DEFINE e == GetExpForLevel
           k == IF n < level.Exp THEN level.Exp - n ELSE 0
           s == [level EXCEPT !.Exp = k]
           t == LevelsDown(s, e, 0)
<1>1. Formula(e, MaxLevel) /\ e[1] = 0  BY Formulas
<1>2. level \in SkillRecord /\ hp \in [Act : Int, Max : Int] /\ LevelOK(level, hp)  BY DEF SkillInv, SkillTypeOK
<1>3. level.Act \in Nat /\ level.Exp \in Int /\ level.NextLevel \in Int /\ level.Exp >= 0 /\ level.Act >= 1
  BY <1>2 DEF SkillRecord, LevelOK
<1>4. k \in Int /\ k >= 0 /\ k <= level.Exp  BY <1>3, TakenFrom
<1>5. level' = Grown(t) /\ hp' = Advance(hp, t.range)
  BY DEF LevelDecrease
<1> HIDE DEF e, k
<1>6. /\ s \in SkillRecord /\ s.Exp = k /\ s.Act = level.Act
      /\ s.LastLevel = level.LastLevel /\ s.NextLevel = level.NextLevel
  BY <1>2, <1>4, IncreaseStep
<1> HIDE DEF s
<1>7. Bounds(e, s) /\ s.Exp < s.NextLevel /\ s.Exp >= 0 /\ s.Act >= 1
  BY <1>2, <1>3, <1>4, <1>6 DEF LevelOK, Bounds, e
<1>8. /\ t \in FallRecord /\ t.Act = s.Act + t.range /\ t.Exp = s.Exp /\ t.Act >= 1 /\ Bounds(e, t)
      /\ t.LastLevel <= s.Exp /\ s.Exp < t.NextLevel
  BY <1>1, <1>6, <1>7, DownResult
<1> HIDE DEF t
<1>9. t.range \in Int  BY <1>8 DEF FallRecord
<1>10. /\ level' \in SkillRecord /\ level'.Act = t.Act /\ level'.Exp = t.Exp
       /\ level'.LastLevel = t.LastLevel /\ level'.NextLevel = t.NextLevel
  BY <1>5, <1>8, GrownFall
<1>11. hp' \in [Act : Int, Max : Int] /\ hp'.Act <= hp'.Max
  BY <1>2, <1>5, <1>9, AdvanceStep
<1>12. hp'.Max = MinHitPoints + AddLevel * ((level.Act + t.range) - 1)
  BY <1>2, <1>3, <1>5, <1>9, HitPointsFollow DEF LevelOK
<1>13. Bounds(GetExpForLevel, level')  BY <1>8, <1>10 DEF Bounds, e
<1>14. LevelOK(level', hp')
  BY <1>6, <1>7, <1>8, <1>10, <1>11, <1>12, <1>13 DEF LevelOK
<1> QED  BY <1>10, <1>11, <1>14

LEMMA ProbeIncreaseInv ==
    ASSUME SkillAssumption, SkillInv, ~capped, ProbeIncrease(1)
    PROVE  probe' \in SkillRecord /\ capped' \in BOOLEAN /\ (~capped' => ProbeOK(probe'))
<1> DEFINE e == ProbeExpForLevel
           s == [probe EXCEPT !.Exp = @ + 1]
           t == LevelsUp(s, e, 1)
<1>1. Formula(e, LastSkill) /\ MinSkill \in Nat  BY Formulas DEF SkillAssumption
<1>2. probe \in SkillRecord /\ ProbeOK(probe)  BY DEF SkillInv, SkillTypeOK
<1>3. probe.Act \in Nat /\ probe.Exp \in Int /\ probe.LastLevel \in Int  BY <1>2 DEF SkillRecord
<1>4. /\ s \in SkillRecord /\ s.Exp = probe.Exp + 1 /\ s.Act = probe.Act
      /\ s.LastLevel = probe.LastLevel /\ s.NextLevel = probe.NextLevel
  BY <1>2, <1>3, IncreaseStep
<1>5. probe' = Grown(t) /\ capped' = (capped \/ t.over)
  BY DEF ProbeIncrease
<1> HIDE DEF e, s
<1>6. Bounds(e, s) /\ s.LastLevel <= s.Exp
  BY <1>2, <1>3, <1>4 DEF ProbeOK, Bounds, e
<1>7. /\ t \in RiseRecord
      /\ ~t.over => /\ t.Act = s.Act + t.range /\ t.Exp = s.Exp /\ Bounds(e, t)
                    /\ t.LastLevel <= s.Exp /\ s.Exp < t.NextLevel
  BY <1>1, <1>4, <1>6, UpResult
<1> HIDE DEF t
<1>8. t.over \in BOOLEAN /\ t.range \in Nat /\ t.Act \in Nat  BY <1>7 DEF RiseRecord
<1>9. /\ probe' \in SkillRecord /\ probe'.Act = t.Act /\ probe'.Exp = t.Exp
      /\ probe'.LastLevel = t.LastLevel /\ probe'.NextLevel = t.NextLevel
  BY <1>5, <1>7, GrownRise
<1>10. ASSUME ~capped' PROVE ProbeOK(probe')
  <2>1. ~t.over  BY <1>5, <1>10
  <2>2. Bounds(ProbeExpForLevel, probe')  BY <1>7, <1>9, <2>1 DEF Bounds, e
  <2>3. /\ probe'.Act >= MinSkill /\ probe'.Exp >= 0 /\ probe'.LastLevel <= probe'.Exp
        /\ probe'.Exp < probe'.NextLevel
    BY <1>1, <1>2, <1>3, <1>4, <1>7, <1>8, <1>9, <2>1 DEF ProbeOK
  <2> QED  BY <2>2, <2>3 DEF ProbeOK
<1>11. capped' \in BOOLEAN  BY <1>5, <1>8 DEF SkillInv, SkillTypeOK
<1> QED  BY <1>9, <1>10, <1>11

LEMMA ProbeDecreaseInv ==
    ASSUME SkillAssumption, SkillInv, ~capped, NEW n \in Nat, ProbeDecrease(n)
    PROVE  probe' \in SkillRecord /\ ProbeOK(probe')
<1> DEFINE e == ProbeExpForLevel
           k == IF n < probe.Exp THEN probe.Exp - n ELSE 0
           s == [probe EXCEPT !.Exp = k]
           t == LevelsDown(s, e, MinSkill)
<1>1. Formula(e, LastSkill) /\ e[MinSkill] = 0 /\ MinSkill \in Nat  BY Formulas DEF SkillAssumption
<1>2. probe \in SkillRecord /\ ProbeOK(probe)  BY DEF SkillInv, SkillTypeOK
<1>3. /\ probe.Act \in Nat /\ probe.Exp \in Int /\ probe.NextLevel \in Int /\ probe.Exp >= 0
      /\ probe.Act >= MinSkill
  BY <1>2 DEF SkillRecord, ProbeOK
<1>4. k \in Int /\ k >= 0 /\ k <= probe.Exp  BY <1>3, TakenFrom
<1>5. probe' = Grown(t)  BY DEF ProbeDecrease
<1> HIDE DEF e, k
<1>6. /\ s \in SkillRecord /\ s.Exp = k /\ s.Act = probe.Act
      /\ s.LastLevel = probe.LastLevel /\ s.NextLevel = probe.NextLevel
  BY <1>2, <1>4, IncreaseStep
<1> HIDE DEF s
<1>7. Bounds(e, s) /\ s.Exp < s.NextLevel /\ s.Exp >= 0 /\ s.Act >= MinSkill
  BY <1>2, <1>3, <1>4, <1>6 DEF ProbeOK, Bounds, e
<1>8. /\ t \in FallRecord /\ t.Exp = s.Exp /\ t.Act >= MinSkill /\ Bounds(e, t)
      /\ t.LastLevel <= s.Exp /\ s.Exp < t.NextLevel
  <2>1. MinSkill >= MinSkill  BY <1>1
  <2> QED  BY <1>1, <1>6, <1>7, <2>1, DownResult
<1> HIDE DEF t
<1>9. /\ probe' \in SkillRecord /\ probe'.Act = t.Act /\ probe'.Exp = t.Exp
      /\ probe'.LastLevel = t.LastLevel /\ probe'.NextLevel = t.NextLevel
  BY <1>5, <1>8, GrownFall
<1>10. Bounds(ProbeExpForLevel, probe')  BY <1>8, <1>9 DEF Bounds, e
<1>11. ProbeOK(probe')
  BY <1>6, <1>7, <1>8, <1>9, <1>10 DEF ProbeOK
<1> QED  BY <1>9, <1>11

-----------------------------------------------------------------------------
(* The steps.                                                              *)

\* The timers are the same.
LEMMA SameTimers ==
    ASSUME SkillInv, UNCHANGED timerVars
    PROVE  Effects' \in TimerRecord /\ TimersAgree'
<1>1. Effects' = Effects  BY DEF Effects, timerVars
<1>2. TimersAgree' <=> TimersAgree  BY DEF TimersAgree, timerVars
<1> QED  BY <1>1, <1>2 DEF SkillInv, SkillTypeOK

LEMMA GainInv == ASSUME SkillAssumption, SkillInv, ~capped, Gain PROVE SkillInv'
<1>1. PICK n \in Gains : LevelIncrease(n)  BY DEF Gain
<1>2. n \in Nat  BY DEF SkillAssumption
<1>3. UNCHANGED <<timerVars, index, IsDead, probe>>  BY <1>1 DEF Gain, LevelIncrease
<1>4. /\ level' \in SkillRecord /\ hp' \in [Act : Int, Max : Int] /\ capped' \in BOOLEAN
      /\ ~capped' => LevelOK(level', hp')
  BY <1>1, <1>2, LevelIncreaseInv
<1>5. Effects' \in TimerRecord /\ TimersAgree'  BY <1>3, SameTimers
<1>6. SkillTypeOK'  BY <1>3, <1>4, <1>5 DEF SkillInv, SkillTypeOK
<1>7. ~capped' => LevelOK(level, hp)' /\ ProbeOK(probe)'
  <2>1. ProbeOK(probe') <=> ProbeOK(probe)  BY <1>3
  <2> QED  BY <1>4, <2>1 DEF SkillInv, LevelOK, ProbeOK, Bounds
<1> QED  BY <1>5, <1>6, <1>7 DEF SkillInv

LEMMA TrainInv == ASSUME SkillAssumption, SkillInv, ~capped, Train PROVE SkillInv'
<1>1. ProbeIncrease(1)  BY DEF Train
<1>2. UNCHANGED <<timerVars, index, IsDead, level, hp>>  BY <1>1 DEF Train, ProbeIncrease
<1>3. probe' \in SkillRecord /\ capped' \in BOOLEAN /\ (~capped' => ProbeOK(probe'))
  BY <1>1, ProbeIncreaseInv
<1>4. Effects' \in TimerRecord /\ TimersAgree'  BY <1>2, SameTimers
<1>5. SkillTypeOK'  BY <1>2, <1>3, <1>4 DEF SkillInv, SkillTypeOK
<1>6. ~capped' => LevelOK(level, hp)' /\ ProbeOK(probe)'
  <2>1. LevelOK(level', hp') <=> LevelOK(level, hp)  BY <1>2
  <2> QED  BY <1>3, <2>1 DEF SkillInv, LevelOK, ProbeOK, Bounds
<1> QED  BY <1>4, <1>5, <1>6 DEF SkillInv

\* A share of the experience.
LEMMA Share == ASSUME NEW n \in Int, n >= 0 PROVE (n * 50) \div 100 \in Nat
  OBVIOUS

LEMMA LoseInv == ASSUME SkillAssumption, SkillInv, ~capped, Lose(50) PROVE SkillInv'
<1>1. UNCHANGED <<timerVars, index, IsDead>>  BY DEF Lose
<1>2. Effects' \in TimerRecord /\ TimersAgree'  BY <1>1, SameTimers
<1>3. LevelOK(level, hp) /\ ProbeOK(probe) /\ level.Exp \in Int /\ probe.Exp \in Int
  BY DEF SkillInv, SkillTypeOK, SkillRecord
<1>4. CASE LevelDecrease((level.Exp * 50) \div 100)
  <2>1. (level.Exp * 50) \div 100 \in Nat  BY <1>3, Share DEF LevelOK
  <2>2. level' \in SkillRecord /\ hp' \in [Act : Int, Max : Int] /\ LevelOK(level', hp')
    BY <1>4, <2>1, LevelDecreaseInv
  <2>3. UNCHANGED <<probe, capped>>  BY <1>4 DEF LevelDecrease
  <2>4. SkillTypeOK'  BY <1>1, <1>2, <2>2, <2>3 DEF SkillInv, SkillTypeOK
  <2>5. LevelOK(level, hp)' /\ ProbeOK(probe)'
    <3>1. ProbeOK(probe') <=> ProbeOK(probe)  BY <2>3
    <3> QED  BY <1>3, <2>2, <3>1 DEF LevelOK, ProbeOK, Bounds
  <2> QED  BY <1>2, <2>4, <2>5 DEF SkillInv
<1>5. CASE ProbeDecrease((probe.Exp * 50) \div 100)
  <2>1. (probe.Exp * 50) \div 100 \in Nat  BY <1>3, Share DEF ProbeOK
  <2>2. probe' \in SkillRecord /\ ProbeOK(probe')  BY <1>5, <2>1, ProbeDecreaseInv
  <2>3. UNCHANGED <<level, hp, capped>>  BY <1>5 DEF ProbeDecrease
  <2>4. SkillTypeOK'  BY <1>1, <1>2, <2>2, <2>3 DEF SkillInv, SkillTypeOK
  <2>5. LevelOK(level, hp)' /\ ProbeOK(probe)'
    <3>1. LevelOK(level', hp') <=> LevelOK(level, hp)  BY <2>3
    <3> QED  BY <1>3, <2>2, <3>1 DEF LevelOK, ProbeOK, Bounds
  <2> QED  BY <1>2, <2>4, <2>5 DEF SkillInv
<1> QED  BY <1>4, <1>5 DEF Lose

\* Load gives each effect that lasts one timer.
LEMMA RunningStep ==
    ASSUME Effects \in TimerRecord, NEW list \in Seq(Timed), Distinct(list), NEW s \in Timed, ~Listed(list, s)
    PROVE  LET new == list \o Running(s) IN
           /\ new \in Seq(Timed) /\ Distinct(new)
           /\ \A x : Listed(new, x) <=> Listed(list, x) \/ (x = s /\ cycle[s] # 0)
<1>1. CASE cycle[s] # 0
  <2>1. list \o Running(s) = Append(list, s)  BY <1>1 DEF Running
  <2> QED  BY <1>1, <2>1, AppendTimer
<1>2. CASE cycle[s] = 0
  <2>1. list \o Running(s) = list  BY <1>2 DEF Running
  <2> QED  BY <1>2, <2>1
<1> QED  BY <1>1, <1>2

LEMMA LoadTimers ==
    ASSUME SkillInv, Load
    PROVE  Effects' \in TimerRecord /\ TimersAgree'
<1> DEFINE l1 == <<>> \o Running("ILLUSION")
           l2 == l1 \o Running("FED")
           l3 == l2 \o Running("POISON")
           l4 == l3 \o Running("BURNING")
           t == [list |-> l4, cycle |-> cycle, outfit |-> outfit]
<1>1. Effects \in TimerRecord /\ Agreed(Effects)  BY AgreedIsAgree DEF SkillInv, SkillTypeOK
<1>2. cycle \in [Timed -> Nat] /\ outfit \in {"Org", "Illusion"} /\ (outfit = "Illusion" => cycle["ILLUSION"] # 0)
  BY <1>1 DEF Effects, TimerRecord, Agreed
<1>3. <<>> \in Seq(Timed) /\ Distinct(<<>>) /\ \A x : ~Listed(<<>>, x)  BY DEF Distinct, Listed
<1>4. /\ "ILLUSION" \in Timed /\ "FED" \in Timed /\ "POISON" \in Timed /\ "BURNING" \in Timed
      /\ \A x \in Timed : x \in {"ILLUSION", "FED", "POISON", "BURNING"}
  BY DEF Timed
<1>5. /\ l1 \in Seq(Timed) /\ Distinct(l1)
      /\ \A x : Listed(l1, x) <=> x = "ILLUSION" /\ cycle["ILLUSION"] # 0
  BY <1>1, <1>3, <1>4, RunningStep
<1>6. TimerList' = l4
  BY DEF Load, Running
<1> HIDE DEF l1
<1>7. /\ l2 \in Seq(Timed) /\ Distinct(l2)
      /\ \A x : Listed(l2, x) <=> Listed(l1, x) \/ (x = "FED" /\ cycle["FED"] # 0)
  BY <1>1, <1>4, <1>5, RunningStep
<1> HIDE DEF l2
<1>8. /\ l3 \in Seq(Timed) /\ Distinct(l3)
      /\ \A x : Listed(l3, x) <=> Listed(l2, x) \/ (x = "POISON" /\ cycle["POISON"] # 0)
  BY <1>1, <1>4, <1>5, <1>7, RunningStep
<1> HIDE DEF l3
<1>9. /\ l4 \in Seq(Timed) /\ Distinct(l4)
      /\ \A x : Listed(l4, x) <=> Listed(l3, x) \/ (x = "BURNING" /\ cycle["BURNING"] # 0)
  BY <1>1, <1>4, <1>5, <1>7, <1>8, RunningStep
<1> HIDE DEF l4
<1>10. \A x \in Timed : cycle[x] # 0 => Listed(l4, x)  BY <1>4, <1>5, <1>7, <1>8, <1>9
<1>11. t \in TimerRecord /\ t.list = l4 /\ t.cycle = cycle /\ t.outfit = outfit
  BY <1>2, <1>9 DEF TimerRecord
<1>12. NewTimers(t)  BY <1>6, <1>11 DEF NewTimers, Load
<1> HIDE DEF t
<1>13. Agreed(t)  BY <1>2, <1>9, <1>10, <1>11 DEF Agreed
<1> QED  BY <1>11, <1>12, <1>13, NewTimersAgree

LEMMA LoadInv == ASSUME SkillAssumption, SkillInv, Load PROVE SkillInv'
<1>1. Effects' \in TimerRecord /\ TimersAgree'  BY LoadTimers
<1>2. level \in SkillRecord /\ probe \in SkillRecord  BY DEF SkillInv, SkillTypeOK
<1>3. GetExpForLevel[level.Act] \in Int /\ ProbeExpForLevel[probe.Act] \in Int
  BY <1>2, Formulas DEF Formula, SkillRecord
<1>4. /\ level' = [level EXCEPT !.LastLevel = GetExpForLevel[level.Act]]
      /\ probe' = [probe EXCEPT !.LastLevel = ProbeExpForLevel[probe.Act]]
      /\ UNCHANGED <<hp, capped, index, IsDead>>
  BY DEF Load
<1>5. level' \in SkillRecord /\ probe' \in SkillRecord
  BY <1>2, <1>3, <1>4 DEF SkillRecord
<1>6. SkillTypeOK'  BY <1>1, <1>4, <1>5 DEF SkillInv, SkillTypeOK
<1>7. ASSUME ~capped' PROVE LevelOK(level, hp)' /\ ProbeOK(probe)'
  <2>1. LevelOK(level, hp) /\ ProbeOK(probe)  BY <1>4, <1>7 DEF SkillInv
  <2>2. level.LastLevel = GetExpForLevel[level.Act] /\ probe.LastLevel = ProbeExpForLevel[probe.Act]
    BY <2>1 DEF LevelOK, ProbeOK, Bounds
  <2>3. level' = level /\ probe' = probe
    BY <1>2, <1>4, <2>2 DEF SkillRecord
  <2>4. (LevelOK(level', hp') <=> LevelOK(level, hp)) /\ (ProbeOK(probe') <=> ProbeOK(probe))
    BY <1>4, <2>3
  <2> QED  BY <2>1, <2>4 DEF LevelOK, ProbeOK, Bounds
<1> QED  BY <1>1, <1>6, <1>7 DEF SkillInv

\* An effect changes the hitpoints within their bound.
LEMMA PointsStep ==
    ASSUME hp \in [Act : Int, Max : Int], NEW a \in Int
    PROVE  /\ Points(a) \in [Act : Int, Max : Int] /\ Points(a).Max = hp.Max
           /\ hp.Max >= 0 => Points(a).Act <= hp.Max
<1> DEFINE act == IF hp.Act + a > hp.Max THEN hp.Max ELSE hp.Act + a
<1>1. act \in Int /\ act <= hp.Max  OBVIOUS
<1>2. Points(a) = [hp EXCEPT !.Act = 0] \/ Points(a) = [hp EXCEPT !.Act = act]  BY DEF Points
<1> HIDE DEF act
<1> QED  BY <1>1, <1>2

LEMMA ProcessHitPoints ==
    ASSUME SkillInv, NEW s \in Timed, NEW field \in BOOLEAN, Process(s, field)
    PROVE  /\ hp' \in [Act : Int, Max : Int] /\ hp'.Max = hp.Max /\ IsDead' \in BOOLEAN
           /\ hp.Max >= 0 => hp'.Act <= hp.Max
<1> DEFINE range == IF s = "POISON" /\ cycle[s] \div 2 > 0 THEN cycle[s] \div 2 ELSE 1
           damage == IF s \in {"POISON", "BURNING"} THEN range ELSE 0
           a == IF s = "FED" THEN 1 ELSE -damage
<1>1. hp' = Points(a) /\ IsDead' = (hp'.Act = 0)  BY DEF Process
<1>2. cycle[s] \in Nat  BY DEF SkillInv, SkillTypeOK, Effects, TimerRecord
<1>3. a \in Int  BY <1>2
<1> HIDE DEF a
<1>4. hp \in [Act : Int, Max : Int]  BY DEF SkillInv, SkillTypeOK
<1> QED  BY <1>1, <1>3, <1>4, PointsStep

\* The levels stay as they are while the hitpoints change within their bound.
LEMMA LevelsStay ==
    ASSUME SkillAssumption, SkillInv, UNCHANGED <<level, probe, capped>>,
           ~capped /\ hp.Max >= 0 => hp'.Max = hp.Max /\ hp'.Act <= hp.Max
    PROVE  ~capped' => LevelOK(level, hp)' /\ ProbeOK(probe)'
<1> SUFFICES ASSUME ~capped' PROVE LevelOK(level, hp)' /\ ProbeOK(probe)'
  OBVIOUS
<1>1. LevelOK(level, hp) /\ ProbeOK(probe)  BY DEF SkillInv
<1>2. hp.Max >= 0
  <2>1. level.Act \in Nat /\ level.Act >= 1  BY <1>1 DEF LevelOK, SkillInv, SkillTypeOK, SkillRecord
  <2>2. level.Act - 1 \in Nat /\ AddLevel \in Nat /\ MinHitPoints \in Nat  BY <2>1 DEF SkillAssumption
  <2>3. AddLevel * (level.Act - 1) \in Nat  BY <2>2
  <2>4. hp.Max = MinHitPoints + AddLevel * (level.Act - 1)  BY <1>1 DEF LevelOK
  <2> QED  BY <2>2, <2>3, <2>4
<1>3. hp'.Max = hp.Max /\ hp'.Act <= hp'.Max  BY <1>2
<1>4. ProbeOK(probe') <=> ProbeOK(probe)  OBVIOUS
<1>5. ProbeOK(probe)'  BY <1>1, <1>4 DEF ProbeOK, Bounds
<1>6. LevelOK(level, hp)'  BY <1>1, <1>3 DEF LevelOK, Bounds
<1> QED  BY <1>5, <1>6

LEMMA ProcessSkillsInv ==
    ASSUME SkillAssumption, SkillInv, ProcessSkills, UNCHANGED <<level, probe, capped>>
    PROVE  SkillInv'
<1>1. Effects \in TimerRecord /\ Agreed(Effects) /\ index \in Nat
      /\ Effects.list = TimerList /\ Effects.cycle = cycle /\ Effects.outfit = outfit
  BY AgreedIsAgree DEF SkillInv, SkillTypeOK, Effects
<1>2. TimerList \in Seq(Timed) /\ Distinct(TimerList) /\ cycle \in [Timed -> Nat]
  BY <1>1 DEF TimerRecord, Agreed
<1>3. ASSUME Effects' \in TimerRecord, TimersAgree', hp' \in [Act : Int, Max : Int], IsDead' \in BOOLEAN,
             index' \in Nat, ~capped /\ hp.Max >= 0 => hp'.Max = hp.Max /\ hp'.Act <= hp.Max
      PROVE  SkillInv'
  <2>1. SkillTypeOK'  BY <1>3 DEF SkillInv, SkillTypeOK
  <2>2. ~capped' => LevelOK(level, hp)' /\ ProbeOK(probe)'  BY <1>3, LevelsStay
  <2> QED  BY <1>3, <2>1, <2>2 DEF SkillInv
<1>4. /\ hp \in [Act : Int, Max : Int] /\ IsDead \in BOOLEAN
      /\ ~capped => hp.Act <= hp.Max
  BY DEF SkillInv, SkillTypeOK, LevelOK
<1>5. CASE index > Len(TimerList)
  <2>1. UNCHANGED <<timerVars, hp, IsDead>> /\ index' = 0  BY <1>1, <1>2, <1>5 DEF ProcessSkills
  <2>2. Effects' \in TimerRecord /\ TimersAgree'  BY <2>1, SameTimers
  <2> QED  BY <1>3, <1>4, <2>1, <2>2
<1>6. CASE index > 0 /\ index <= Len(TimerList)
  <2> DEFINE s == TimerList[index]
  <2>1. index \in DOMAIN TimerList /\ s \in Timed /\ cycle[s] \in Nat  BY <1>1, <1>2, <1>6
  <2>2. \/ cycle[s] = 0 /\ TimerList' = SwapAndPop(TimerList, index) /\ UNCHANGED <<cycle, outfit, hp, IsDead, index>>
        \/ cycle[s] # 0 /\ (\E field \in BOOLEAN : Process(s, field)) /\ index' = index + 1
    BY <1>1, <1>2, <1>6 DEF ProcessSkills
  <2>3. Listed(TimerList, s)  BY <2>1 DEF Listed
  <2> HIDE DEF s
  <2>4. CASE cycle[s] = 0 /\ TimerList' = SwapAndPop(TimerList, index) /\ UNCHANGED <<cycle, outfit, hp, IsDead, index>>
    <3> DEFINE t == [list |-> SwapAndPop(TimerList, index), cycle |-> cycle, outfit |-> outfit]
    <3>1. /\ SwapAndPop(TimerList, index) \in Seq(Timed) /\ Distinct(SwapAndPop(TimerList, index))
          /\ \A x : Listed(SwapAndPop(TimerList, index), x) <=> Listed(TimerList, x) /\ x # s
      BY <1>2, <2>1, SwapAndPopStep DEF s
    <3>2. t \in TimerRecord  BY <1>1, <3>1 DEF TimerRecord
    <3>3. Agreed(t)  BY <1>1, <2>4, <3>1 DEF Agreed
    <3>4. NewTimers(t)  BY <2>4 DEF NewTimers
    <3>5. Effects' \in TimerRecord /\ TimersAgree'  BY <3>2, <3>3, <3>4, NewTimersAgree
    <3> QED  BY <1>1, <1>3, <1>4, <2>4, <3>5
  <2>5. CASE cycle[s] # 0 /\ (\E field \in BOOLEAN : Process(s, field)) /\ index' = index + 1
    <3>1. PICK field \in BOOLEAN : Process(s, field)  BY <2>5
    <3>2. Effects' \in TimerRecord /\ TimersAgree'  BY <1>1, <2>1, <2>3, <2>5, <3>1, ProcessTimers
    <3>3. /\ hp' \in [Act : Int, Max : Int] /\ hp'.Max = hp.Max /\ IsDead' \in BOOLEAN
          /\ hp.Max >= 0 => hp'.Act <= hp.Max
      BY <2>1, <3>1, ProcessHitPoints
    <3>4. index' \in Nat  BY <1>1, <2>5
    <3> QED  BY <1>3, <3>2, <3>3, <3>4
  <2> QED  BY <2>2, <2>4, <2>5
<1> QED  BY <1>5, <1>6 DEF ProcessSkills

\* Nothing but the index changes.
LEMMA NothingChanges ==
    ASSUME SkillInv, UNCHANGED <<levelVars, timerVars, IsDead>>, index' \in Nat
    PROVE  SkillInv'
<1>1. Effects' \in TimerRecord /\ TimersAgree'  BY SameTimers
<1>2. UNCHANGED <<level, hp, probe, capped, IsDead>>  BY DEF levelVars
<1>3. SkillTypeOK'  BY <1>1, <1>2 DEF SkillInv, SkillTypeOK
<1>4. (LevelOK(level, hp)' <=> LevelOK(level, hp)) /\ (ProbeOK(probe)' <=> ProbeOK(probe))
  BY <1>2 DEF LevelOK, ProbeOK, Bounds
<1> QED  BY <1>1, <1>2, <1>3, <1>4 DEF SkillInv

LEMMA StartTimerInv ==
    ASSUME SkillAssumption, SkillInv, NEW s \in Timed, StartTimer(s)
    PROVE  SkillInv'
<1>1. PICK c \in 1 .. MaxCycle :
          NewTimers([SetTimer(Effects, s, c) EXCEPT !.outfit = IF s = "ILLUSION" THEN "Illusion" ELSE @])
  BY DEF StartTimer
<1> DEFINE u == SetTimer(Effects, s, c)
           o == IF s = "ILLUSION" THEN "Illusion" ELSE u.outfit
           t == [u EXCEPT !.outfit = o]
<1>2. c \in Nat /\ c # 0  BY DEF SkillAssumption
<1>3. /\ Effects \in TimerRecord /\ Agreed(Effects) /\ Distinct(Effects.list) /\ Effects.outfit = outfit
  BY AgreedIsAgree DEF SkillInv, SkillTypeOK, Agreed, Effects
<1>4. /\ u \in TimerRecord /\ Distinct(u.list) /\ u.outfit = Effects.outfit
      /\ \A x : Listed(u.list, x) <=> Listed(Effects.list, x) \/ x = s
      /\ u.cycle[s] = c /\ \A x \in Timed \ {s} : u.cycle[x] = Effects.cycle[x]
  BY <1>2, <1>3, SetTimerStep
<1>5. NewTimers(t)  BY <1>1
<1> HIDE DEF u
<1>6. o \in {"Org", "Illusion"}  BY <1>4 DEF TimerRecord
<1>7. o = "Illusion" => s = "ILLUSION" \/ Effects.outfit = "Illusion"  BY <1>4
<1> HIDE DEF o
<1>8. t \in TimerRecord /\ t.list = u.list /\ t.cycle = u.cycle /\ t.outfit = o  BY <1>4, <1>6 DEF TimerRecord
<1> HIDE DEF t
<1>9. Agreed(t)
  <2>1. \A x \in Timed : t.cycle[x] # 0 => Listed(t.list, x)  BY <1>3, <1>4, <1>8 DEF Agreed
  <2>2. t.outfit = "Illusion" => t.cycle["ILLUSION"] # 0
    <3>1. "ILLUSION" \in Timed  BY DEF Timed
    <3> QED  BY <1>2, <1>3, <1>4, <1>7, <1>8, <3>1 DEF Agreed
  <2> QED  BY <1>4, <1>8, <2>1, <2>2 DEF Agreed
<1>10. Effects' \in TimerRecord /\ TimersAgree'  BY <1>5, <1>8, <1>9, NewTimersAgree
<1>11. UNCHANGED <<level, hp, probe, capped, index, IsDead>>  BY DEF StartTimer, levelVars
<1>12. SkillTypeOK'  BY <1>10, <1>11 DEF SkillInv, SkillTypeOK
<1>13. (LevelOK(level, hp)' <=> LevelOK(level, hp)) /\ (ProbeOK(probe)' <=> ProbeOK(probe))
  BY <1>11 DEF LevelOK, ProbeOK, Bounds
<1> QED  BY <1>10, <1>11, <1>12, <1>13 DEF SkillInv

LEMMA SkillNextInv == ASSUME SkillAssumption, SkillInv, [SkillNext]_skillVars PROVE SkillInv'
<1>1. CASE Between /\ Gain  BY <1>1, GainInv DEF Between
<1>2. CASE Between /\ Train  BY <1>2, TrainInv DEF Between
<1>3. CASE Between /\ Lose(50)  BY <1>3, LoseInv DEF Between
<1>4. CASE Load  BY <1>4, LoadInv
<1>5. CASE ProcessSkills /\ UNCHANGED <<level, probe, capped>>  BY <1>5, ProcessSkillsInv
<1>6. CASE Round
  <2>1. UNCHANGED <<levelVars, timerVars, IsDead>> /\ index' \in Nat  BY <1>6 DEF Round
  <2> QED  BY <2>1, NothingChanges
<1>7. CASE \E s \in Timed : StartTimer(s)  BY <1>7, StartTimerInv
<1>8. CASE UNCHANGED skillVars
  <2>1. UNCHANGED <<levelVars, timerVars, IsDead>> /\ index' \in Nat  BY <1>8 DEF skillVars, SkillInv, SkillTypeOK
  <2> QED  BY <2>1, NothingChanges
<1> QED  BY <1>1, <1>2, <1>3, <1>4, <1>5, <1>6, <1>7, <1>8 DEF SkillNext

\* However a creature gains and loses experience, by small steps or large, it
\* has the level, the bounds and the hitpoints that the formula gives its
\* experience; and whatever an effect does to the list of timers that
\* ProcessSkills works through, every effect that lasts keeps its one timer.
THEOREM SkillsKept == SkillAssumption /\ SkillSpec => []SkillsAgree
<1>1. ASSUME SkillAssumption, SkillInit PROVE SkillInv  BY <1>1, SkillInitInv
<1>2. ASSUME SkillAssumption, SkillInv, [SkillNext]_skillVars PROVE SkillInv'  BY <1>2, SkillNextInv
<1>3. SkillInv => SkillsAgree
  BY DEF SkillInv, SkillsAgree, LevelsAgree, LevelOK, ProbeOK, Bounds
<1>4. SkillAssumption => SkillAssumption'  BY DEF SkillAssumption
<1> QED  BY <1>1, <1>2, <1>3, <1>4, PTL DEF SkillSpec

-----------------------------------------------------------------------------
(***************************************************************************)
(* The cron system, for every set of objects, every size of the hash table *)
(* and every sequence of rounds.  CronMove keeps the chains mended and the *)
(* contents (Linked, Holds); an exchange of parent and child moves the one *)
(* place at which the heap is out of order (HeapBut) up or down, so that   *)
(* CronHeapify ends with a heap.  An object that is entered is the first   *)
(* of its chain: it gets a rank above all others, and ranks fall along a   *)
(* chain, which is why a search ends and finds every entry.                *)
(***************************************************************************)

\* The numbers that the model counts with.
LEMMA CronNumbers ==
    ASSUME CronAssumption
    PROVE  /\ CronSize \in Nat /\ Buckets \in Nat \ {0}
           /\ \A k \in 0..CronSize : k \in Link /\ k # -1
           /\ \A k \in Link : k # -1 => k \in 0..CronSize
           /\ \A o \in Decaying \cup {0} : Hash(o) \in 0..(Buckets - 1)
           /\ \A o \in Decaying : o \in Nat /\ o # 0
<1>1. CronSize \in Nat  BY FS_CardinalityType DEF CronAssumption, CronSize
<1>2. \A o \in Decaying \cup {0} : Hash(o) \in 0..(Buckets - 1)  BY DEF Hash, CronAssumption
<1> QED  BY <1>1, <1>2 DEF CronAssumption, Link

\* Assignments to one field of one entry, or to one bucket.
LEMMA SetEntry ==
    ASSUME NEW c \in CronState, NEW k \in 0..CronSize, NEW e \in CronEntry
    PROVE  LET d == [c EXCEPT !.entry[k] = e] IN
           /\ d \in CronState /\ d.entries = c.entries /\ d.table = c.table
           /\ d.entry[k] = e /\ \A j \in (0..CronSize) \ {k} : d.entry[j] = c.entry[j]
<1> DEFINE f == [c.entry EXCEPT ![k] = e]
           d == [c EXCEPT !.entry = f]
<1>1. c.entry \in [0..CronSize -> CronEntry]  BY DEF CronState
<1>2. f \in [0..CronSize -> CronEntry] /\ f[k] = e /\ \A j \in (0..CronSize) \ {k} : f[j] = c.entry[j]  BY <1>1
<1> HIDE DEF f
<1>3. d \in CronState /\ d.entries = c.entries /\ d.table = c.table /\ d.entry = f  BY <1>2 DEF CronState
<1> HIDE DEF d
<1> QED  BY <1>2, <1>3 DEF d, f

LEMMA SetPrev ==
    ASSUME NEW c \in CronState, NEW k \in 0..CronSize, NEW p \in Link
    PROVE  LET d == [c EXCEPT !.entry[k].prev = p] IN
           /\ d \in CronState /\ d.entries = c.entries /\ d.table = c.table
           /\ d.entry[k].prev = p /\ d.entry[k].next = c.entry[k].next
           /\ d.entry[k].obj = c.entry[k].obj /\ d.entry[k].round = c.entry[k].round
           /\ \A j \in (0..CronSize) \ {k} : d.entry[j] = c.entry[j]
<1> DEFINE e == [c.entry[k] EXCEPT !.prev = p]
           d == [c EXCEPT !.entry[k] = e]
<1>1. c.entry[k] \in CronEntry  BY DEF CronState
<1>2. /\ e \in CronEntry /\ e.prev = p /\ e.next = c.entry[k].next /\ e.obj = c.entry[k].obj
      /\ e.round = c.entry[k].round
  BY <1>1 DEF CronEntry
<1>3. [c EXCEPT !.entry[k].prev = p] = d  OBVIOUS
<1> HIDE DEF e
<1>4. /\ d \in CronState /\ d.entries = c.entries /\ d.table = c.table
      /\ d.entry[k] = e /\ \A j \in (0..CronSize) \ {k} : d.entry[j] = c.entry[j]
  BY <1>2, SetEntry
<1> HIDE DEF d
<1> QED  BY <1>2, <1>3, <1>4

LEMMA SetNext ==
    ASSUME NEW c \in CronState, NEW k \in 0..CronSize, NEW p \in Link
    PROVE  LET d == [c EXCEPT !.entry[k].next = p] IN
           /\ d \in CronState /\ d.entries = c.entries /\ d.table = c.table
           /\ d.entry[k].next = p /\ d.entry[k].prev = c.entry[k].prev
           /\ d.entry[k].obj = c.entry[k].obj /\ d.entry[k].round = c.entry[k].round
           /\ \A j \in (0..CronSize) \ {k} : d.entry[j] = c.entry[j]
<1> DEFINE e == [c.entry[k] EXCEPT !.next = p]
           d == [c EXCEPT !.entry[k] = e]
<1>1. c.entry[k] \in CronEntry  BY DEF CronState
<1>2. /\ e \in CronEntry /\ e.next = p /\ e.prev = c.entry[k].prev /\ e.obj = c.entry[k].obj
      /\ e.round = c.entry[k].round
  BY <1>1 DEF CronEntry
<1>3. [c EXCEPT !.entry[k].next = p] = d  OBVIOUS
<1> HIDE DEF e
<1>4. /\ d \in CronState /\ d.entries = c.entries /\ d.table = c.table
      /\ d.entry[k] = e /\ \A j \in (0..CronSize) \ {k} : d.entry[j] = c.entry[j]
  BY <1>2, SetEntry
<1> HIDE DEF d
<1> QED  BY <1>2, <1>3, <1>4

LEMMA SetTable ==
    ASSUME NEW c \in CronState, NEW b \in 0..(Buckets - 1), NEW p \in Link
    PROVE  LET d == [c EXCEPT !.table[b] = p] IN
           /\ d \in CronState /\ d.entries = c.entries /\ d.entry = c.entry
           /\ d.table[b] = p /\ \A a \in (0..(Buckets - 1)) \ {b} : d.table[a] = c.table[a]
<1> DEFINE f == [c.table EXCEPT ![b] = p]
           d == [c EXCEPT !.table = f]
<1>1. c.table \in [0..(Buckets - 1) -> Link]  BY DEF CronState
<1>2. f \in [0..(Buckets - 1) -> Link] /\ f[b] = p /\ \A a \in (0..(Buckets - 1)) \ {b} : f[a] = c.table[a]
  BY <1>1
<1> HIDE DEF f
<1>3. d \in CronState /\ d.entries = c.entries /\ d.entry = c.entry /\ d.table = f  BY <1>2 DEF CronState
<1> HIDE DEF d
<1> QED  BY <1>2, <1>3 DEF d, f

LEMMA SetEntries ==
    ASSUME NEW c \in CronState, NEW n \in 0..CronSize
    PROVE  LET d == [c EXCEPT !.entries = n] IN
           d \in CronState /\ d.entries = n /\ d.entry = c.entry /\ d.table = c.table
  BY DEF CronState

\* What Relink does to every entry and every bucket.
Relinked(c, d, e, prev, next) ==
    /\ d \in CronState /\ d.entries = c.entries
    /\ \A k \in 0..CronSize :
           /\ d.entry[k].obj = c.entry[k].obj /\ d.entry[k].round = c.entry[k].round
           /\ d.entry[k].prev = IF k = e.next THEN prev ELSE c.entry[k].prev
           /\ d.entry[k].next = IF k = e.prev THEN next ELSE c.entry[k].next
    /\ \A b \in 0..(Buckets - 1) :
           d.table[b] = IF e.prev = -1 /\ b = Hash(e.obj) THEN next ELSE c.table[b]

LEMMA RelinkStep ==
    ASSUME CronAssumption, NEW c \in CronState, NEW e \in CronEntry, NEW prev \in Link, NEW next \in Link
    PROVE  Relinked(c, Relink(c, e, prev, next), e, prev, next)
<1> DEFINE d == IF e.next # -1 THEN [c EXCEPT !.entry[e.next].prev = prev] ELSE c
           f == IF e.prev # -1 THEN [d EXCEPT !.entry[e.prev].next = next]
                ELSE [d EXCEPT !.table[Hash(e.obj)] = next]
<1>1. e.next \in Link /\ e.prev \in Link /\ Hash(e.obj) \in 0..(Buckets - 1)
  BY CronNumbers DEF CronEntry
<1>2. (e.next # -1 => e.next \in 0..CronSize) /\ (e.prev # -1 => e.prev \in 0..CronSize) /\ \A k \in 0..CronSize : k # -1
  BY <1>1, CronNumbers
<1>3. /\ d \in CronState /\ d.entries = c.entries /\ d.table = c.table
      /\ \A k \in 0..CronSize :
           /\ d.entry[k].obj = c.entry[k].obj /\ d.entry[k].round = c.entry[k].round
           /\ d.entry[k].prev = IF k = e.next THEN prev ELSE c.entry[k].prev
           /\ d.entry[k].next = c.entry[k].next
  <2>1. CASE e.next = -1  BY <1>2, <2>1
  <2>2. CASE e.next # -1
    <3> DEFINE g == [c EXCEPT !.entry[e.next].prev = prev]
    <3>1. d = g  BY <2>2
    <3>2. /\ g \in CronState /\ g.entries = c.entries /\ g.table = c.table
          /\ g.entry[e.next].prev = prev /\ g.entry[e.next].next = c.entry[e.next].next
          /\ g.entry[e.next].obj = c.entry[e.next].obj /\ g.entry[e.next].round = c.entry[e.next].round
          /\ \A j \in (0..CronSize) \ {e.next} : g.entry[j] = c.entry[j]
      BY <1>2, <2>2, SetPrev
    <3> HIDE DEF g, d
    <3> QED  BY <3>1, <3>2
  <2> QED  BY <2>1, <2>2
<1> HIDE DEF d
<1>4. Relinked(c, f, e, prev, next)
  <2>1. CASE e.prev = -1
    <3> DEFINE g == [d EXCEPT !.table[Hash(e.obj)] = next]
    <3>1. f = g  BY <2>1
    <3>2. /\ g \in CronState /\ g.entries = d.entries /\ g.entry = d.entry
          /\ g.table[Hash(e.obj)] = next /\ \A a \in (0..(Buckets - 1)) \ {Hash(e.obj)} : g.table[a] = d.table[a]
      BY <1>1, <1>3, SetTable
    <3> HIDE DEF g, f
    <3> QED  BY <1>2, <1>3, <2>1, <3>1, <3>2 DEF Relinked
  <2>2. CASE e.prev # -1
    <3> DEFINE g == [d EXCEPT !.entry[e.prev].next = next]
    <3>1. f = g  BY <2>2
    <3>2. /\ g \in CronState /\ g.entries = d.entries /\ g.table = d.table
          /\ g.entry[e.prev].next = next /\ g.entry[e.prev].prev = d.entry[e.prev].prev
          /\ g.entry[e.prev].obj = d.entry[e.prev].obj /\ g.entry[e.prev].round = d.entry[e.prev].round
          /\ \A j \in (0..CronSize) \ {e.prev} : g.entry[j] = d.entry[j]
      BY <1>2, <1>3, <2>2, SetNext
    <3> HIDE DEF g, f
    <3> QED  BY <1>3, <2>2, <3>1, <3>2 DEF Relinked
  <2> QED  BY <2>1, <2>2
<1>5. Relink(c, e, prev, next) = f  BY DEF Relink, d
<1> QED  BY <1>4, <1>5

\* The chains, through the positions P that are in use: both ways, from the
\* bucket to its last entry.  The rank r of an object falls along its chain.
Linked(c, P, r) ==
    /\ \A k \in P : c.entry[k].next # -1 =>
           LET j == c.entry[k].next
           IN /\ j \in P /\ c.entry[j].prev = k /\ Hash(c.entry[j].obj) = Hash(c.entry[k].obj)
              /\ r[c.entry[j].obj] < r[c.entry[k].obj]
    /\ \A k \in P : c.entry[k].prev # -1 => c.entry[k].prev \in P /\ c.entry[c.entry[k].prev].next = k
    /\ \A k \in P : c.entry[k].prev = -1 => c.table[Hash(c.entry[k].obj)] = k
    /\ \A b \in 0..(Buckets - 1) : c.table[b] # -1 =>
           c.table[b] \in P /\ c.entry[c.table[b]].prev = -1 /\ Hash(c.entry[c.table[b]].obj) = b

\* The entries at P are those of the objects that have to expire, each once.
Holds(c, P, E) ==
    /\ \A k \in P : /\ c.entry[k].obj \in Decaying /\ c.entry[k].round # 0
                    /\ E[c.entry[k].obj] = c.entry[k].round
    /\ \A o \in Decaying : E[o] # 0 => \E k \in P : c.entry[k].obj = o
    /\ \A j, k \in P : c.entry[j].obj = c.entry[k].obj => j = k

\* The entry is copied, then its neighbours are linked to the copy.
LEMMA CronMoveType ==
    ASSUME CronAssumption, NEW c \in CronState, NEW dest \in 0..CronSize, NEW source \in 0..CronSize
    PROVE  LET e == c.entry[source]
               d == [c EXCEPT !.entry[dest] = e]
           IN /\ CronMove(c, dest, source) \in CronState /\ CronMove(c, dest, source).entries = c.entries
              /\ e \in CronEntry /\ d \in CronState /\ d.entries = c.entries /\ d.table = c.table
              /\ d.entry[dest] = e /\ \A j \in (0..CronSize) \ {dest} : d.entry[j] = c.entry[j]
              /\ Relinked(d, CronMove(c, dest, source), e, dest, dest)
<1> DEFINE e == c.entry[source]
           d == [c EXCEPT !.entry[dest] = e]
<1>1. e \in CronEntry  BY DEF CronState
<1>2. dest \in Link  BY CronNumbers
<1>3. CronMove(c, dest, source) = Relink(d, e, dest, dest)  BY DEF CronMove
<1> HIDE DEF e
<1>4. /\ d \in CronState /\ d.entries = c.entries /\ d.table = c.table
      /\ d.entry[dest] = e /\ \A j \in (0..CronSize) \ {dest} : d.entry[j] = c.entry[j]
  BY <1>1, SetEntry
<1> HIDE DEF d
<1>5. Relinked(d, Relink(d, e, dest, dest), e, dest, dest)  BY <1>1, <1>2, <1>4, RelinkStep
<1>6. Relink(d, e, dest, dest) \in CronState /\ Relink(d, e, dest, dest).entries = c.entries  BY <1>4, <1>5 DEF Relinked
<1>7. /\ CronMove(c, dest, source) \in CronState /\ CronMove(c, dest, source).entries = c.entries
      /\ Relinked(d, CronMove(c, dest, source), e, dest, dest)
  BY <1>3, <1>5, <1>6, Zenon
<1> QED  BY <1>1, <1>4, <1>7, Zenon DEF d, e

\* d is c with the entry at source moved to dest.
Moved(c, d, dest, source, P, Q, r, E) ==
    /\ d \in CronState /\ d.entries = c.entries
    /\ Linked(d, Q, r) /\ Holds(d, Q, E)
    /\ d.entry[dest].round = c.entry[source].round
    /\ \A k \in P \ {source} : d.entry[k].round = c.entry[k].round

\* CronMove leaves chains and contents in order.
LEMMA CronMoveStep ==
    ASSUME CronAssumption, NEW c \in CronState, NEW P \in SUBSET (0..CronSize), NEW r \in [Decaying -> Nat], NEW E,
           Linked(c, P, r), Holds(c, P, E), NEW source \in P, NEW dest \in (0..CronSize) \ P
    PROVE  Moved(c, CronMove(c, dest, source), dest, source, P, (P \ {source}) \cup {dest}, r, E)
<1> DEFINE e == c.entry[source]
           d == CronMove(c, dest, source)
           Q == (P \ {source}) \cup {dest}
<1>1. source \in 0..CronSize /\ dest \in 0..CronSize /\ dest \notin P /\ \A k \in 0..CronSize : k # -1  BY CronNumbers
<1>2. /\ d \in CronState /\ d.entries = c.entries /\ e \in CronEntry
      /\ \A k \in 0..CronSize : k # dest =>
           /\ d.entry[k].obj = c.entry[k].obj /\ d.entry[k].round = c.entry[k].round
           /\ d.entry[k].prev = IF k = e.next THEN dest ELSE c.entry[k].prev
           /\ d.entry[k].next = IF k = e.prev THEN dest ELSE c.entry[k].next
      /\ d.entry[dest].obj = e.obj /\ d.entry[dest].round = e.round
      /\ d.entry[dest].prev = IF dest = e.next THEN dest ELSE e.prev
      /\ d.entry[dest].next = IF dest = e.prev THEN dest ELSE e.next
      /\ \A b \in 0..(Buckets - 1) : d.table[b] = IF e.prev = -1 /\ b = Hash(e.obj) THEN dest ELSE c.table[b]
  <2> DEFINE g == [c EXCEPT !.entry[dest] = e]
  <2>1. /\ d \in CronState /\ d.entries = c.entries
        /\ e \in CronEntry /\ g \in CronState /\ g.entries = c.entries /\ g.table = c.table
        /\ g.entry[dest] = e /\ \A j \in (0..CronSize) \ {dest} : g.entry[j] = c.entry[j]
        /\ Relinked(g, d, e, dest, dest)
    BY <1>1, CronMoveType
  <2> HIDE DEF g, d, e
  <2>2. /\ \A k \in 0..CronSize :
           /\ d.entry[k].obj = g.entry[k].obj /\ d.entry[k].round = g.entry[k].round
           /\ d.entry[k].prev = IF k = e.next THEN dest ELSE g.entry[k].prev
           /\ d.entry[k].next = IF k = e.prev THEN dest ELSE g.entry[k].next
        /\ \A b \in 0..(Buckets - 1) : d.table[b] = IF e.prev = -1 /\ b = Hash(e.obj) THEN dest ELSE g.table[b]
    BY <2>1 DEF Relinked
  <2>3. ASSUME NEW k \in 0..CronSize, k # dest
        PROVE  /\ d.entry[k].obj = c.entry[k].obj /\ d.entry[k].round = c.entry[k].round
               /\ d.entry[k].prev = IF k = e.next THEN dest ELSE c.entry[k].prev
               /\ d.entry[k].next = IF k = e.prev THEN dest ELSE c.entry[k].next
    <3>1. g.entry[k] = c.entry[k]  BY <2>1, <2>3
    <3> QED  BY <2>2, <3>1
  <2>4. /\ d.entry[dest].obj = e.obj /\ d.entry[dest].round = e.round
        /\ d.entry[dest].prev = IF dest = e.next THEN dest ELSE e.prev
        /\ d.entry[dest].next = IF dest = e.prev THEN dest ELSE e.next
    BY <1>1, <2>1, <2>2
  <2>5. \A b \in 0..(Buckets - 1) : d.table[b] = IF e.prev = -1 /\ b = Hash(e.obj) THEN dest ELSE c.table[b]
    BY <2>1, <2>2
  <2> QED  BY <2>1, <2>3, <2>4, <2>5
<1> HIDE DEF d
<1>3. /\ e.next # -1 => /\ e.next \in P /\ e.next # source /\ e.next # dest /\ c.entry[e.next].prev = source
                        /\ Hash(c.entry[e.next].obj) = Hash(e.obj) /\ r[c.entry[e.next].obj] < r[e.obj]
      /\ e.prev # -1 => /\ e.prev \in P /\ e.prev # source /\ e.prev # dest /\ c.entry[e.prev].next = source
                        /\ Hash(c.entry[e.prev].obj) = Hash(e.obj) /\ r[e.obj] < r[c.entry[e.prev].obj]
      /\ e.prev = -1 => c.table[Hash(e.obj)] = source
      /\ e.obj \in Decaying
  <2>1. \A k \in P : c.entry[k].obj \in Decaying /\ r[c.entry[k].obj] \in Nat  BY DEF Holds
  <2>2. /\ e.next # -1 => /\ e.next \in P /\ c.entry[e.next].prev = source
                          /\ Hash(c.entry[e.next].obj) = Hash(e.obj) /\ r[c.entry[e.next].obj] < r[e.obj]
        /\ e.prev # -1 => /\ e.prev \in P /\ c.entry[e.prev].next = source
        /\ e.prev = -1 => c.table[Hash(e.obj)] = source
    BY DEF Linked
  <2>3. e.prev # -1 => Hash(c.entry[e.prev].obj) = Hash(e.obj) /\ r[e.obj] < r[c.entry[e.prev].obj]
    <3> SUFFICES ASSUME e.prev # -1 PROVE Hash(c.entry[e.prev].obj) = Hash(e.obj) /\ r[e.obj] < r[c.entry[e.prev].obj]
      OBVIOUS
    <3>1. e.prev \in P /\ c.entry[e.prev].next = source /\ source # -1  BY <1>1, <2>2
    <3>2. /\ Hash(c.entry[source].obj) = Hash(c.entry[e.prev].obj)
          /\ r[c.entry[source].obj] < r[c.entry[e.prev].obj]
      BY <3>1 DEF Linked
    <3> QED  BY <3>2
  <2>4. e.obj \in Decaying /\ source \in P /\ dest \notin P  BY <1>1, <2>1
  <2>5. e.next # -1 => e.next # source /\ e.next # dest
    <3> SUFFICES ASSUME e.next # -1 PROVE e.next # source /\ e.next # dest
      OBVIOUS
    <3>1. e.next \in P /\ r[c.entry[e.next].obj] < r[e.obj]  BY <2>2
    <3>2. r[e.obj] \in Nat  BY <2>1
    <3> QED  BY <2>4, <3>1, <3>2
  <2>6. e.prev # -1 => e.prev # source /\ e.prev # dest
    <3> SUFFICES ASSUME e.prev # -1 PROVE e.prev # source /\ e.prev # dest
      OBVIOUS
    <3>1. e.prev \in P /\ r[e.obj] < r[c.entry[e.prev].obj]  BY <2>2, <2>3
    <3>2. r[e.obj] \in Nat  BY <2>1
    <3> QED  BY <2>4, <3>1, <3>2
  <2> HIDE DEF e
  <2> QED  BY <2>2, <2>3, <2>4, <2>5, <2>6
<1>4. ASSUME NEW k \in P, k # source
      PROVE  /\ k \in 0..CronSize /\ k # dest /\ k \in Q
             /\ d.entry[k].obj = c.entry[k].obj /\ d.entry[k].round = c.entry[k].round
             /\ (k = e.next => d.entry[k].prev = dest) /\ (k # e.next => d.entry[k].prev = c.entry[k].prev)
             /\ (k = e.prev => d.entry[k].next = dest) /\ (k # e.prev => d.entry[k].next = c.entry[k].next)
  BY <1>1, <1>2, <1>4
<1>5. d.entry[dest].obj = e.obj /\ d.entry[dest].round = e.round /\ d.entry[dest].prev = e.prev /\ d.entry[dest].next = e.next
  BY <1>1, <1>2, <1>3
<1>6. ASSUME NEW k \in P, k # source PROVE (c.entry[k].next = source <=> k = e.prev) /\ (c.entry[k].prev = source <=> k = e.next)
  <2>1. c.entry[k].next = source => e.prev = k  BY <1>1, <1>6 DEF Linked
  <2>2. c.entry[k].prev = source => e.next = k  BY <1>1, <1>6 DEF Linked
  <2>3. k # -1  BY <1>1
  <2> QED  BY <1>3, <2>1, <2>2, <2>3
<1>7. Holds(d, Q, E)
  <2>1. ASSUME NEW k \in Q
        PROVE  d.entry[k].obj \in Decaying /\ d.entry[k].round # 0 /\ E[d.entry[k].obj] = d.entry[k].round
    <3>1. \A i \in P : /\ c.entry[i].obj \in Decaying /\ c.entry[i].round # 0
                       /\ E[c.entry[i].obj] = c.entry[i].round
      BY DEF Holds
    <3>2. CASE k = dest  BY <1>5, <3>1, <3>2
    <3>3. CASE k \in P /\ k # source  BY <1>4, <3>1, <3>3
    <3> QED  BY <3>2, <3>3
  <2>2. ASSUME NEW o \in Decaying, E[o] # 0 PROVE \E k \in Q : d.entry[k].obj = o
    <3>1. PICK k \in P : c.entry[k].obj = o  BY <2>2 DEF Holds
    <3> QED  BY <1>4, <1>5, <3>1
  <2>3. ASSUME NEW j \in Q, NEW k \in Q, d.entry[j].obj = d.entry[k].obj PROVE j = k
    <3>1. \A i \in P : c.entry[i].obj = e.obj => i = source  BY DEF Holds
    <3>2. CASE j = dest \/ k = dest  BY <1>4, <1>5, <2>3, <3>1, <3>2
    <3>3. CASE j # dest /\ k # dest
      <4>1. j \in P /\ k \in P /\ j # source /\ k # source  BY <3>3
      <4>2. c.entry[j].obj = c.entry[k].obj  BY <1>4, <2>3, <4>1
      <4> QED  BY <4>1, <4>2 DEF Holds
    <3> QED  BY <3>2, <3>3
  <2> QED  BY <2>1, <2>2, <2>3 DEF Holds
<1>8. ASSUME NEW k \in Q, d.entry[k].next # -1
      PROVE  LET j == d.entry[k].next
             IN /\ j \in Q /\ d.entry[j].prev = k /\ Hash(d.entry[j].obj) = Hash(d.entry[k].obj)
                /\ r[d.entry[j].obj] < r[d.entry[k].obj]
  <2> DEFINE j == d.entry[k].next
  <2>1. CASE k = dest
    <3>1. j = e.next /\ j # -1 /\ j \in P /\ j # source  BY <1>3, <1>5, <1>8, <2>1
    <3> QED  BY <1>3, <1>4, <1>5, <2>1, <3>1
  <2>2. CASE k # dest /\ k = e.prev
    <3>1. k \in P /\ k # source  BY <2>2
    <3>2. j = dest /\ e.prev # -1  BY <1>1, <1>4, <2>2, <3>1
    <3> QED  BY <1>3, <1>4, <1>5, <2>2, <3>1, <3>2
  <2>3. CASE k # dest /\ k # e.prev
    <3>1. k \in P /\ k # source  BY <2>3
    <3>2. j = c.entry[k].next /\ j # source  BY <1>4, <1>6, <2>3, <3>1
    <3>3. j \in P /\ c.entry[j].prev = k /\ Hash(c.entry[j].obj) = Hash(c.entry[k].obj)
          /\ r[c.entry[j].obj] < r[c.entry[k].obj]
      BY <1>8, <3>1, <3>2 DEF Linked
    <3>4. j # e.next  BY <1>3, <1>1, <3>1, <3>3
    <3> QED  BY <1>4, <3>1, <3>2, <3>3, <3>4
  <2> QED  BY <2>1, <2>2, <2>3
<1>9. ASSUME NEW k \in Q, d.entry[k].prev # -1
      PROVE  d.entry[k].prev \in Q /\ d.entry[d.entry[k].prev].next = k
  <2> DEFINE j == d.entry[k].prev
  <2>1. CASE k = dest
    <3>1. j = e.prev /\ j # -1 /\ j \in P /\ j # source  BY <1>3, <1>5, <1>9, <2>1
    <3> QED  BY <1>3, <1>4, <1>5, <2>1, <3>1
  <2>2. CASE k # dest /\ k = e.next
    <3>1. k \in P /\ k # source  BY <2>2
    <3>2. j = dest /\ e.next # -1  BY <1>1, <1>4, <2>2, <3>1
    <3> QED  BY <1>3, <1>4, <1>5, <2>2, <3>1, <3>2
  <2>3. CASE k # dest /\ k # e.next
    <3>1. k \in P /\ k # source  BY <2>3
    <3>2. j = c.entry[k].prev /\ j # source  BY <1>4, <1>6, <2>3, <3>1
    <3>3. j \in P /\ c.entry[j].next = k  BY <1>9, <3>1, <3>2 DEF Linked
    <3>4. j # e.prev  BY <1>3, <1>1, <3>1, <3>3
    <3> QED  BY <1>4, <3>1, <3>2, <3>3, <3>4
  <2> QED  BY <2>1, <2>2, <2>3
<1>10. \A k \in P : Hash(c.entry[k].obj) \in 0..(Buckets - 1)  BY CronNumbers DEF Holds
<1>11. ASSUME NEW k \in Q, d.entry[k].prev = -1 PROVE d.table[Hash(d.entry[k].obj)] = k
  <2>1. CASE k = dest
    BY <1>2, <1>5, <1>10, <1>11, <2>1
  <2>2. CASE k # dest
    <3>1. k \in P /\ k # source  BY <2>2
    <3>2. c.entry[k].prev = -1 /\ k # e.next  BY <1>1, <1>4, <1>11, <3>1
    <3>3. c.table[Hash(c.entry[k].obj)] = k  BY <3>1, <3>2 DEF Linked
    <3>4. ~(e.prev = -1 /\ Hash(c.entry[k].obj) = Hash(e.obj))  BY <1>3, <3>1, <3>3
    <3> QED  BY <1>2, <1>4, <1>10, <3>1, <3>3, <3>4
  <2> QED  BY <2>1, <2>2
<1>12. ASSUME NEW b \in 0..(Buckets - 1), d.table[b] # -1
       PROVE  d.table[b] \in Q /\ d.entry[d.table[b]].prev = -1 /\ Hash(d.entry[d.table[b]].obj) = b
  <2>1. CASE e.prev = -1 /\ b = Hash(e.obj)
    BY <1>2, <1>5, <2>1
  <2>2. CASE ~(e.prev = -1 /\ b = Hash(e.obj))
    <3> DEFINE k == c.table[b]
    <3>1. d.table[b] = k  BY <1>2, <2>2
    <3>2. k \in P /\ c.entry[k].prev = -1 /\ Hash(c.entry[k].obj) = b  BY <1>12, <3>1 DEF Linked
    <3>3. k # source  BY <2>2, <3>2
    <3>4. k # e.next  BY <1>1, <1>3, <3>2
    <3> QED  BY <1>4, <3>1, <3>2, <3>3, <3>4
  <2> QED  BY <2>1, <2>2
<1>13. Linked(d, Q, r)  BY <1>8, <1>9, <1>11, <1>12 DEF Linked
<1> QED  BY <1>2, <1>4, <1>5, <1>7, <1>13 DEF d, Moved

\* CronMove counts no entry.
LEMMA CronMoveState ==
    ASSUME CronAssumption, NEW c \in CronState, NEW dest \in 0..CronSize, NEW source \in 0..CronSize
    PROVE  CronMove(c, dest, source) \in CronState /\ CronMove(c, dest, source).entries = c.entries
  BY CronMoveType, Zenon

\* An exchange through position 0.
LEMMA ExchangeType ==
    ASSUME CronAssumption, NEW c \in CronState, NEW i \in 1..CronSize, NEW j \in 1..CronSize
    PROVE  Exchange(c, i, j) \in CronState /\ Exchange(c, i, j).entries = c.entries
<1> DEFINE c1 == CronMove(c, 0, i)
           c2 == CronMove(c1, i, j)
           c3 == CronMove(c2, j, 0)
<1>1. 0 \in 0..CronSize /\ i \in 0..CronSize /\ j \in 0..CronSize  BY CronNumbers
<1>2. c1 \in CronState /\ c1.entries = c.entries  BY <1>1, CronMoveState, Zenon
<1> HIDE DEF c1
<1>3. c2 \in CronState /\ c2.entries = c.entries
  <2>1. c2 \in CronState /\ c2.entries = c1.entries  BY <1>1, <1>2, CronMoveState, Zenon
  <2> QED  BY <1>2, <2>1
<1> HIDE DEF c2
<1>4. c3 \in CronState /\ c3.entries = c.entries
  <2>1. c3 \in CronState /\ c3.entries = c2.entries  BY <1>1, <1>3, CronMoveState, Zenon
  <2> QED  BY <1>3, <2>1
<1>5. Exchange(c, i, j) = c3  BY DEF Exchange, c1, c2
<1> QED  BY <1>4, <1>5

LEMMA ExchangeStep ==
    ASSUME CronAssumption, NEW c \in CronState, NEW r \in [Decaying -> Nat], NEW E,
           NEW n \in 0..CronSize, Linked(c, 1..n, r), Holds(c, 1..n, E), NEW i \in 1..n, NEW j \in 1..n, i # j
    PROVE  LET d == Exchange(c, i, j)
           IN /\ Linked(d, 1..n, r) /\ Holds(d, 1..n, E)
              /\ d.entry[i].round = c.entry[j].round /\ d.entry[j].round = c.entry[i].round
              /\ \A k \in 1..n : k # i /\ k # j => d.entry[k].round = c.entry[k].round
<1> DEFINE c1 == CronMove(c, 0, i)
           c2 == CronMove(c1, i, j)
           c3 == CronMove(c2, j, 0)
           P1 == ((1..n) \ {i}) \cup {0}
           P2 == (P1 \ {j}) \cup {i}
           P3 == (P2 \ {0}) \cup {j}
<1>1. 1..n \in SUBSET (0..CronSize) /\ 0 \in (0..CronSize) \ (1..n)  BY CronNumbers
<1>2. i \in (0..CronSize) \ P1 /\ j \in P1 /\ P1 \in SUBSET (0..CronSize) /\ j # 0 /\ i # 0  BY <1>1
<1>3. j \in (0..CronSize) \ P2 /\ 0 \in P2 /\ P2 \in SUBSET (0..CronSize)  BY <1>1, <1>2
<1>4. P3 = 1..n  BY <1>1, <1>2
<1>5. /\ c1 \in CronState /\ Linked(c1, P1, r) /\ Holds(c1, P1, E)
      /\ c1.entry[0].round = c.entry[i].round
      /\ \A k \in (1..n) \ {i} : c1.entry[k].round = c.entry[k].round
  <2>1. Moved(c, c1, 0, i, 1..n, P1, r, E)  BY <1>1, CronMoveStep, Zenon
  <2> QED  BY <2>1 DEF Moved
<1> HIDE DEF c1, P1
<1>6. /\ c2 \in CronState /\ Linked(c2, P2, r) /\ Holds(c2, P2, E)
      /\ c2.entry[i].round = c1.entry[j].round
      /\ \A k \in P1 \ {j} : c2.entry[k].round = c1.entry[k].round
  <2>1. Moved(c1, c2, i, j, P1, P2, r, E)  BY <1>2, <1>5, CronMoveStep, Zenon
  <2> QED  BY <2>1 DEF Moved
<1> HIDE DEF c2, P2
<1>7. /\ Linked(c3, P3, r) /\ Holds(c3, P3, E)
      /\ c3.entry[j].round = c2.entry[0].round
      /\ \A k \in P2 \ {0} : c3.entry[k].round = c2.entry[k].round
  <2>1. Moved(c2, c3, j, 0, P2, P3, r, E)  BY <1>3, <1>6, CronMoveStep, Zenon
  <2> QED  BY <2>1 DEF Moved
<1> HIDE DEF c3, P3
<1>8. c3.entry[j].round = c.entry[i].round
  <2>1. 0 \in P1 \ {j}  BY <1>2 DEF P1
  <2> QED  BY <1>5, <1>6, <1>7, <2>1
<1>9. c3.entry[i].round = c.entry[j].round
  <2>1. i \in P2 \ {0} /\ j \in (1..n) \ {i}  BY <1>2 DEF P2
  <2> QED  BY <1>5, <1>6, <1>7, <2>1
<1>10. ASSUME NEW k \in 1..n, k # i, k # j PROVE c3.entry[k].round = c.entry[k].round
  <2>1. k \in (1..n) \ {i} /\ k \in P1 \ {j}  BY <1>10 DEF P1
  <2>2. k \in P2 \ {0}  BY <1>10, <2>1 DEF P2
  <2> QED  BY <1>5, <1>6, <1>7, <2>1, <2>2
<1>11. Exchange(c, i, j) = c3  BY DEF Exchange, c1, c2, c3
<1> QED  BY <1>4, <1>7, <1>8, <1>9, <1>10, <1>11

\* The heap is in order, but for the entry at i: it may be too late for its
\* children or too early for its parent.
HeapBut(c, i) ==
    /\ \A k \in 2..c.entries : k # i /\ k \div 2 # i => c.entry[k \div 2].round <= c.entry[k].round
    /\ \A k \in 2..c.entries : k \div 2 = i /\ i > 1 => c.entry[i \div 2].round <= c.entry[k].round
NotEarly(c, i) == i > 1 => c.entry[i \div 2].round <= c.entry[i].round
Heap(c) == \A k \in 2..c.entries : c.entry[k \div 2].round <= c.entry[k].round

\* Chains, contents and heap, as CronHeapify finds them at i.
Heaping(c, i, n, r, E) ==
    /\ c \in CronState /\ c.entries = n /\ i \in 1..n
    /\ Linked(c, 1..n, r) /\ Holds(c, 1..n, E) /\ HeapBut(c, i)

\* Parent and children in the heap.
LEMMA Halves ==
    ASSUME NEW k \in Nat, k >= 2
    PROVE  /\ k \div 2 \in Nat /\ k \div 2 >= 1 /\ k \div 2 < k
           /\ (2 * (k \div 2) = k \/ 2 * (k \div 2) + 1 = k)
  OBVIOUS

LEMMA Children ==
    ASSUME NEW i \in Nat, i >= 1
    PROVE  /\ (2 * i) \div 2 = i /\ (2 * i + 1) \div 2 = i /\ 2 * i > i /\ 2 * i + 1 > i
           /\ 2 * i \in Nat /\ 2 * i + 1 \in Nat
  OBVIOUS

\* One turn of the first loop.
LEMMA SiftUpStep ==
    ASSUME CronAssumption, NEW c, NEW i, NEW n \in 0..CronSize, NEW r \in [Decaying -> Nat], NEW E,
           Heaping(c, i, n, r, E), i > 1, c.entry[i \div 2].round > c.entry[i].round
    PROVE  Heaping(Exchange(c, i, i \div 2), i \div 2, n, r, E)
<1> DEFINE p == i \div 2
           d == Exchange(c, i, p)
<1>1. /\ c \in CronState /\ c.entries = n /\ i \in 1..n
      /\ Linked(c, 1..n, r) /\ Holds(c, 1..n, E) /\ HeapBut(c, i)
  BY DEF Heaping
<1>2. n \in Nat /\ n <= CronSize /\ CronSize \in Nat  BY CronNumbers
<1>3. p \in 1..n /\ p # i /\ p < i /\ i \in Nat /\ i \in 2..n  BY <1>1, <1>2, Halves
<1>4. i \in 1..CronSize /\ p \in 1..CronSize  BY <1>1, <1>2, <1>3
<1>5. \A k \in 1..n : c.entry[k].round \in Nat
  <2>1. \A k \in 1..n : c.entry[k] \in CronEntry  BY <1>1, <1>2 DEF CronState
  <2> QED  BY <2>1 DEF CronEntry
<1> HIDE DEF p
<1>6. d \in CronState /\ d.entries = n  BY <1>1, <1>4, ExchangeType
<1>7. /\ Linked(d, 1..n, r) /\ Holds(d, 1..n, E)
      /\ d.entry[i].round = c.entry[p].round /\ d.entry[p].round = c.entry[i].round
      /\ \A k \in 1..n : k # i /\ k # p => d.entry[k].round = c.entry[k].round
  BY <1>1, <1>3, ExchangeStep
<1> HIDE DEF d
<1>8. c.entry[p].round > c.entry[i].round  BY DEF p
<1>9. \A k \in 2..n : k \in 1..n /\ k \div 2 \in 1..n /\ k \div 2 # k
  <2> SUFFICES ASSUME NEW k \in 2..n PROVE k \in 1..n /\ k \div 2 \in 1..n /\ k \div 2 # k
    OBVIOUS
  <2>1. k \in Nat /\ k >= 2 /\ k <= n  BY <1>2
  <2>2. k \div 2 \in Nat /\ k \div 2 >= 1 /\ k \div 2 < k  BY <2>1, Halves
  <2> QED  BY <1>2, <2>1, <2>2
<1>10. ASSUME NEW k \in 2..n, k # p, k \div 2 # p PROVE d.entry[k \div 2].round <= d.entry[k].round
  <2>1. k # i  BY <1>10 DEF p
  <2>2. CASE k \div 2 = i
    <3>1. c.entry[p].round <= c.entry[k].round  BY <1>1, <2>2 DEF HeapBut, p
    <3> QED  BY <1>7, <1>9, <1>10, <2>1, <2>2, <3>1
  <2>3. CASE k \div 2 # i
    <3>1. c.entry[k \div 2].round <= c.entry[k].round  BY <1>1, <2>1, <2>3 DEF HeapBut
    <3> QED  BY <1>7, <1>9, <1>10, <2>1, <2>3, <3>1
  <2> QED  BY <2>2, <2>3
<1>11. ASSUME NEW k \in 2..n, k \div 2 = p, p > 1 PROVE d.entry[p \div 2].round <= d.entry[k].round
  <2>1. p \in 2..n  BY <1>3, <1>11
  <2>2. p \div 2 \in 1..n /\ p \div 2 # p /\ p \div 2 # i
    <3>1. p \in Nat /\ p >= 2 /\ p <= n  BY <1>2, <1>3, <2>1
    <3>2. p \div 2 \in Nat /\ p \div 2 >= 1 /\ p \div 2 < p  BY <3>1, Halves
    <3> QED  BY <1>2, <1>3, <3>1, <3>2
  <2>3. c.entry[p \div 2].round <= c.entry[p].round  BY <1>1, <1>3, <2>1, <2>2 DEF HeapBut
  <2>4. d.entry[p \div 2].round = c.entry[p \div 2].round  BY <1>7, <2>2
  <2>5. CASE k = i  BY <1>7, <2>3, <2>4, <2>5
  <2>6. CASE k # i
    <3>1. c.entry[p].round <= c.entry[k].round
      <4>1. k \div 2 # i  BY <1>3, <1>11
      <4> QED  BY <1>1, <1>11, <2>6, <4>1 DEF HeapBut
    <3>2. d.entry[k].round = c.entry[k].round  BY <1>7, <1>9, <1>11, <2>6
    <3>3. c.entry[p \div 2].round \in Nat /\ c.entry[p].round \in Nat /\ c.entry[k].round \in Nat
      BY <1>3, <1>5, <1>9, <2>2
    <3> QED  BY <2>3, <2>4, <3>1, <3>2, <3>3
  <2> QED  BY <2>5, <2>6
<1>12. HeapBut(d, p)  BY <1>6, <1>10, <1>11 DEF HeapBut
<1>13. Heaping(d, p, n, r, E)  BY <1>3, <1>6, <1>7, <1>12 DEF Heaping
<1> QED  BY <1>13 DEF d, p

\* One turn of the second loop.
Smaller(c, i) == IF 2 * i < c.entries /\ c.entry[2 * i + 1].round < c.entry[2 * i].round THEN 2 * i + 1 ELSE 2 * i

\* The child that CronHeapify compares with.
LEMMA SmallerType ==
    ASSUME CronAssumption, NEW c \in CronState, NEW i \in 1..CronSize, 2 * i <= c.entries
    PROVE  /\ Smaller(c, i) \in 1..c.entries /\ Smaller(c, i) \in 1..CronSize /\ Smaller(c, i) > i
           /\ Smaller(c, i) \div 2 = i
           /\ \A k \in 2..c.entries : k \div 2 = i => c.entry[Smaller(c, i)].round <= c.entry[k].round
<1>1. c.entries \in Nat /\ c.entries <= CronSize /\ CronSize \in Nat /\ i \in Nat /\ i >= 1  BY CronNumbers DEF CronState
<1>2. \A k \in 1..c.entries : c.entry[k].round \in Nat
  <2>1. \A k \in 1..c.entries : c.entry[k] \in CronEntry  BY <1>1 DEF CronState
  <2> QED  BY <2>1 DEF CronEntry
<1>3. /\ (2 * i) \div 2 = i /\ (2 * i + 1) \div 2 = i /\ 2 * i > i /\ 2 * i + 1 > i
      /\ 2 * i \in Nat /\ 2 * i + 1 \in Nat
  BY <1>1, Children
<1>4. ASSUME NEW k \in 2..c.entries, k \div 2 = i PROVE k = 2 * i \/ k = 2 * i + 1
  <2>1. k \in Nat /\ k >= 2  BY <1>1
  <2> QED  BY <1>4, <2>1, Halves
<1>5. CASE 2 * i < c.entries /\ c.entry[2 * i + 1].round < c.entry[2 * i].round
  <2>1. Smaller(c, i) = 2 * i + 1  BY <1>5 DEF Smaller
  <2>2. 2 * i + 1 \in 1..c.entries /\ 2 * i \in 1..c.entries /\ 2 * i + 1 \in 1..CronSize  BY <1>1, <1>3, <1>5
  <2> QED  BY <1>2, <1>3, <1>4, <1>5, <2>1, <2>2
<1>6. CASE ~(2 * i < c.entries /\ c.entry[2 * i + 1].round < c.entry[2 * i].round)
  <2>1. Smaller(c, i) = 2 * i  BY <1>6 DEF Smaller
  <2>2. 2 * i \in 1..c.entries /\ 2 * i \in 1..CronSize  BY <1>1, <1>3
  <2>3. ASSUME NEW k \in 2..c.entries, k \div 2 = i PROVE c.entry[2 * i].round <= c.entry[k].round
    <3>1. CASE k = 2 * i  BY <1>2, <2>2, <3>1
    <3>2. CASE k = 2 * i + 1
      <4>1. 2 * i < c.entries /\ k \in 1..c.entries  BY <1>1, <1>3, <3>2
      <4> QED  BY <1>2, <1>6, <2>2, <3>2, <4>1
    <3> QED  BY <1>4, <2>3, <3>1, <3>2
  <2> QED  BY <1>3, <2>1, <2>2, <2>3
<1> QED  BY <1>5, <1>6

LEMMA SiftDownStep ==
    ASSUME CronAssumption, NEW c, NEW i, NEW n \in 0..CronSize, NEW r \in [Decaying -> Nat], NEW E,
           Heaping(c, i, n, r, E), NotEarly(c, i), 2 * i <= n, c.entry[i].round > c.entry[Smaller(c, i)].round
    PROVE  /\ Heaping(Exchange(c, i, Smaller(c, i)), Smaller(c, i), n, r, E)
           /\ NotEarly(Exchange(c, i, Smaller(c, i)), Smaller(c, i))
<1> DEFINE s == Smaller(c, i)
           d == Exchange(c, i, s)
<1>1. /\ c \in CronState /\ c.entries = n /\ i \in 1..n
      /\ Linked(c, 1..n, r) /\ Holds(c, 1..n, E) /\ HeapBut(c, i)
  BY DEF Heaping
<1>2. n \in Nat /\ n <= CronSize /\ CronSize \in Nat  BY CronNumbers
<1>3. i \in 1..CronSize /\ i \in Nat  BY <1>1, <1>2
<1>4. /\ s \in 1..n /\ s \in 1..CronSize /\ s > i /\ s \div 2 = i
      /\ \A k \in 2..n : k \div 2 = i => c.entry[s].round <= c.entry[k].round
  BY <1>1, <1>3, SmallerType
<1>5. \A k \in 1..n : c.entry[k].round \in Nat
  <2>1. \A k \in 1..n : c.entry[k] \in CronEntry  BY <1>1, <1>2 DEF CronState
  <2> QED  BY <2>1 DEF CronEntry
<1>6. c.entry[i].round > c.entry[s].round  OBVIOUS
<1> HIDE DEF s
<1>7. s \in Nat /\ s # i /\ s \in 2..n  BY <1>2, <1>3, <1>1, <1>4
<1>8. d \in CronState /\ d.entries = n  BY <1>1, <1>3, <1>4, ExchangeType
<1>9. /\ Linked(d, 1..n, r) /\ Holds(d, 1..n, E)
      /\ d.entry[i].round = c.entry[s].round /\ d.entry[s].round = c.entry[i].round
      /\ \A k \in 1..n : k # i /\ k # s => d.entry[k].round = c.entry[k].round
  BY <1>1, <1>4, <1>7, ExchangeStep
<1> HIDE DEF d
<1>10. \A k \in 2..n : k \in 1..n /\ k \div 2 \in 1..n /\ k \div 2 # k
  <2> SUFFICES ASSUME NEW k \in 2..n PROVE k \in 1..n /\ k \div 2 \in 1..n /\ k \div 2 # k
    OBVIOUS
  <2>1. k \in Nat /\ k >= 2 /\ k <= n  BY <1>2
  <2>2. k \div 2 \in Nat /\ k \div 2 >= 1 /\ k \div 2 < k  BY <2>1, Halves
  <2> QED  BY <1>2, <2>1, <2>2
<1>11. ASSUME NEW k \in 2..n, k # s, k \div 2 # s PROVE d.entry[k \div 2].round <= d.entry[k].round
  <2>1. CASE k = i
    <3>1. i > 1  BY <1>3, <2>1
    <3>2. c.entry[i \div 2].round <= c.entry[s].round  BY <1>1, <1>4, <1>7, <3>1 DEF HeapBut
    <3> QED  BY <1>9, <1>10, <1>11, <2>1, <3>2
  <2>2. CASE k \div 2 = i
    <3>1. c.entry[s].round <= c.entry[k].round  BY <1>4, <2>2
    <3> QED  BY <1>9, <1>10, <1>11, <2>2, <3>1
  <2>3. CASE k # i /\ k \div 2 # i
    <3>1. c.entry[k \div 2].round <= c.entry[k].round  BY <1>1, <2>3 DEF HeapBut
    <3> QED  BY <1>9, <1>10, <1>11, <2>3, <3>1
  <2> QED  BY <2>1, <2>2, <2>3
<1>12. ASSUME NEW k \in 2..n, k \div 2 = s PROVE d.entry[s \div 2].round <= d.entry[k].round
  <2>1. k # i /\ k # s  BY <1>4, <1>7, <1>10, <1>12, <1>3, Halves
  <2>2. c.entry[s].round <= c.entry[k].round  BY <1>1, <1>7, <1>12, <2>1 DEF HeapBut
  <2> QED  BY <1>4, <1>9, <1>10, <2>1, <2>2
<1>13. HeapBut(d, s)  BY <1>8, <1>11, <1>12 DEF HeapBut
<1>14. Heaping(d, s, n, r, E)  BY <1>4, <1>8, <1>9, <1>13 DEF Heaping
<1>15. NotEarly(d, s)
  <2>1. d.entry[s \div 2].round = c.entry[s].round /\ d.entry[s].round = c.entry[i].round  BY <1>4, <1>9
  <2> QED  BY <1>1, <1>4, <1>5, <1>6, <2>1 DEF NotEarly
<1> QED  BY <1>14, <1>15 DEF d, s

\* The first loop ends, with an entry that is not too early for its parent.
LEMMA SiftUpResult ==
    ASSUME CronAssumption, NEW c, NEW i, NEW n \in 0..CronSize, NEW r \in [Decaying -> Nat], NEW E,
           Heaping(c, i, n, r, E)
    PROVE  \E d \in CronState, k \in 1..CronSize : SiftUp(c, i) = <<d, k>> /\ Heaping(d, k, n, r, E) /\ NotEarly(d, k)
<1> DEFINE D == CronState \X (1..CronSize)
           Stops(d, k) == ~(k > 1 /\ d.entry[k \div 2].round > d.entry[k].round)
           Body(f, t) == IF t[2] > 1 /\ t[1].entry[t[2] \div 2].round > t[1].entry[t[2]].round
                         THEN f[<<Exchange(t[1], t[2], t[2] \div 2), t[2] \div 2>>] ELSE t
           X == {t \in D : Stops(t[1], t[2])}
           next == [t \in D \ X |-> <<Exchange(t[1], t[2], t[2] \div 2), t[2] \div 2>>]
           m == [t \in D |-> t[2]]
           out == [t \in X |-> t]
<1>0. CronSize \in Nat  BY CronNumbers
<1>1. ASSUME NEW t \in D PROVE t[1] \in CronState /\ t[2] \in 1..CronSize /\ t[2] \in Nat /\ t = <<t[1], t[2]>>
  BY <1>0
<1>2. ASSUME NEW t \in D \ X
      PROVE  /\ next[t] \in D /\ next[t][1] = Exchange(t[1], t[2], t[2] \div 2) /\ next[t][2] = t[2] \div 2
             /\ t[2] > 1 /\ t[1].entry[t[2] \div 2].round > t[1].entry[t[2]].round /\ t[2] \div 2 < t[2]
  <2>1. t \in D /\ t[1] \in CronState /\ t[2] \in 1..CronSize /\ t[2] \in Nat  BY <1>1
  <2>2. t[2] > 1 /\ t[1].entry[t[2] \div 2].round > t[1].entry[t[2]].round  OBVIOUS
  <2>3. t[2] \div 2 \in 1..CronSize /\ t[2] \div 2 < t[2]  BY <1>0, <2>1, <2>2, Halves
  <2>4. Exchange(t[1], t[2], t[2] \div 2) \in CronState  BY <2>1, <2>3, ExchangeType
  <2>5. next[t] = <<Exchange(t[1], t[2], t[2] \div 2), t[2] \div 2>>  OBVIOUS
  <2> HIDE DEF next, X
  <2> QED  BY <2>2, <2>3, <2>4, <2>5
<1>3. Loop(D, m, X, next)
  <2>1. m \in [D -> Nat]  BY <1>1
  <2>2. next \in [D \ X -> D]
    <3>1. \A t \in D \ X : next[t] \in D  BY <1>2
    <3>2. next = [t \in D \ X |-> next[t]]  OBVIOUS
    <3> HIDE DEF next, D, X
    <3> QED  BY <3>1, <3>2
  <2>3. ASSUME NEW t \in D \ X PROVE m[next[t]] < m[t]
    <3>1. next[t] \in D /\ next[t][2] < t[2]  BY <1>2
    <3> HIDE DEF next, X
    <3> QED  BY <3>1
  <2> HIDE DEF m, next, D
  <2> QED  BY <2>1, <2>2, <2>3 DEF Loop
<1>4. out \in [X -> D]
  OBVIOUS
<1>5. PICK f \in [D -> D] : \A t \in D : f[t] = IF t \in X THEN out[t] ELSE f[next[t]]
  <2> HIDE DEF D, X, m, next, out
  <2> QED  BY <1>3, <1>4, LoopEnds
<1>6. f = [t \in D |-> Body(f, t)]
  <2>1. ASSUME NEW t \in D PROVE f[t] = Body(f, t)
    <3>1. CASE t \in X
      <4>1. f[t] = out[t]  BY <1>5, <3>1
      <4> QED  BY <3>1, <4>1
    <3>2. CASE t \notin X
      <4>1. f[t] = f[next[t]] /\ next[t] = <<Exchange(t[1], t[2], t[2] \div 2), t[2] \div 2>>  BY <1>5, <3>2
      <4> QED  BY <3>2, <4>1
    <3> QED  BY <3>1, <3>2
  <2> HIDE DEF Body, D
  <2> QED  BY <1>5, <2>1
<1>7. \E g : g = [t \in D |-> Body(g, t)] /\ SiftUp(c, i) = g[<<c, i>>]
  BY <1>6, Zenon DEF SiftUp
<1>8. PICK g : g = [t \in D |-> Body(g, t)] /\ SiftUp(c, i) = g[<<c, i>>]
  BY <1>7
<1>9. \A t \in D \ X : g[t] = g[next[t]]
  <2> SUFFICES ASSUME NEW t \in D \ X PROVE g[t] = g[next[t]]
    OBVIOUS
  <2>1. g[t] = Body(g, t)  BY <1>8
  <2> QED  BY <2>1
<1>10. \A t \in X : g[t] = t
  <2> SUFFICES ASSUME NEW t \in X PROVE g[t] = t
    OBVIOUS
  <2>1. g[t] = Body(g, t)  BY <1>8
  <2> QED  BY <2>1
<1> DEFINE I == {t \in D : Heaping(t[1], t[2], n, r, E)}
           J == {t \in I : NotEarly(t[1], t[2])}
<1>11. <<c, i>> \in I
  <2>1. c \in CronState /\ i \in 1..n  BY DEF Heaping
  <2>2. i \in 1..CronSize  BY <1>0, <2>1
  <2> QED  BY <2>1, <2>2
<1>12. ASSUME NEW t \in I \ X PROVE next[t] \in I
  <2>1. t \in D \ X  OBVIOUS
  <2>2. /\ next[t] \in D /\ next[t][1] = Exchange(t[1], t[2], t[2] \div 2) /\ next[t][2] = t[2] \div 2
        /\ t[2] > 1 /\ t[1].entry[t[2] \div 2].round > t[1].entry[t[2]].round
    BY <1>2, <2>1
  <2>3. Heaping(t[1], t[2], n, r, E)  OBVIOUS
  <2> HIDE DEF next, D, X
  <2>4. Heaping(Exchange(t[1], t[2], t[2] \div 2), t[2] \div 2, n, r, E)
    BY <2>2, <2>3, SiftUpStep
  <2> QED  BY <2>2, <2>4
<1>13. ASSUME NEW t \in I \cap X PROVE g[t] \in J
  <2>1. g[t] = t  BY <1>10
  <2>2. t[1] \in CronState /\ t[1].entries = n /\ t[2] \in 1..n /\ n \in Nat  BY <1>0 DEF Heaping
  <2>3. NotEarly(t[1], t[2])
    <3> SUFFICES ASSUME t[2] > 1 PROVE t[1].entry[t[2] \div 2].round <= t[1].entry[t[2]].round
      BY DEF NotEarly
    <3>1. ~(t[1].entry[t[2] \div 2].round > t[1].entry[t[2]].round)  OBVIOUS
    <3>2. t[2] \div 2 \in 0..CronSize /\ t[2] \in 0..CronSize  BY <1>0, <2>2, Halves
    <3>3. t[1].entry[t[2] \div 2].round \in Nat /\ t[1].entry[t[2]].round \in Nat
      BY <2>2, <3>2 DEF CronState, CronEntry
    <3> QED  BY <3>1, <3>3
  <2> QED  BY <2>1, <2>3
<1>14. g[<<c, i>>] \in J
  <2>1. I \subseteq D  OBVIOUS
  <2> HIDE DEF J, X, D, next, m, out, I
  <2> QED  BY <1>3, <1>9, <1>11, <1>12, <1>13, <2>1, LoopKeeps
<1>15. PICK u \in J : SiftUp(c, i) = u  BY <1>8, <1>14
<1>16. /\ u = <<u[1], u[2]>> /\ u[1] \in CronState /\ u[2] \in 1..CronSize
       /\ Heaping(u[1], u[2], n, r, E) /\ NotEarly(u[1], u[2])
  BY <1>1
<1> QED  BY <1>15, <1>16

\* The second loop ends, with a heap.
LEMMA SiftDownResult ==
    ASSUME CronAssumption, NEW c, NEW i, NEW n \in 0..CronSize, NEW r \in [Decaying -> Nat], NEW E,
           Heaping(c, i, n, r, E), NotEarly(c, i)
    PROVE  /\ SiftDown(c, i) \in CronState /\ SiftDown(c, i).entries = n
           /\ Linked(SiftDown(c, i), 1..n, r) /\ Holds(SiftDown(c, i), 1..n, E) /\ Heap(SiftDown(c, i))
<1> DEFINE D == CronState \X (1..CronSize)
           Goes(d, k) == 2 * k <= d.entries /\ d.entry[k].round > d.entry[Smaller(d, k)].round
           Body(f, t) == IF Goes(t[1], t[2])
                         THEN f[<<Exchange(t[1], t[2], Smaller(t[1], t[2])), Smaller(t[1], t[2])>>] ELSE t[1]
           X == {t \in D : ~Goes(t[1], t[2])}
           next == [t \in D \ X |-> <<Exchange(t[1], t[2], Smaller(t[1], t[2])), Smaller(t[1], t[2])>>]
           m == [t \in D |-> CronSize - t[2]]
           out == [t \in X |-> t[1]]
<1>0. CronSize \in Nat  BY CronNumbers
<1>1. ASSUME NEW t \in D PROVE t[1] \in CronState /\ t[2] \in 1..CronSize /\ t[2] \in Nat /\ t = <<t[1], t[2]>>
  BY <1>0
<1>2. ASSUME NEW t \in D \ X
      PROVE  /\ next[t] \in D /\ next[t][1] = Exchange(t[1], t[2], Smaller(t[1], t[2])) /\ next[t][2] = Smaller(t[1], t[2])
             /\ 2 * t[2] <= t[1].entries /\ t[1].entry[t[2]].round > t[1].entry[Smaller(t[1], t[2])].round
             /\ Smaller(t[1], t[2]) > t[2] /\ Smaller(t[1], t[2]) \in 1..CronSize
  <2>1. t \in D /\ t[1] \in CronState /\ t[2] \in 1..CronSize /\ t[2] \in Nat  BY <1>1
  <2>2. 2 * t[2] <= t[1].entries /\ t[1].entry[t[2]].round > t[1].entry[Smaller(t[1], t[2])].round  OBVIOUS
  <2>3. Smaller(t[1], t[2]) \in 1..CronSize /\ Smaller(t[1], t[2]) > t[2]  BY <2>1, <2>2, SmallerType
  <2>4. Exchange(t[1], t[2], Smaller(t[1], t[2])) \in CronState  BY <2>1, <2>3, ExchangeType
  <2>5. next[t] = <<Exchange(t[1], t[2], Smaller(t[1], t[2])), Smaller(t[1], t[2])>>  OBVIOUS
  <2> HIDE DEF next, X
  <2> QED  BY <2>2, <2>3, <2>4, <2>5
<1>3. Loop(D, m, X, next)
  <2>1. m \in [D -> Nat]
    <3>1. ASSUME NEW t \in D PROVE CronSize - t[2] \in Nat  BY <1>0, <1>1
    <3> QED  BY <3>1
  <2>2. next \in [D \ X -> D]
    <3>1. \A t \in D \ X : next[t] \in D  BY <1>2
    <3>2. next = [t \in D \ X |-> next[t]]  OBVIOUS
    <3> HIDE DEF next, D, X
    <3> QED  BY <3>1, <3>2
  <2>3. ASSUME NEW t \in D \ X PROVE m[next[t]] < m[t]
    <3>1. next[t] \in D /\ next[t][2] > t[2] /\ t \in D  BY <1>2
    <3>2. m[next[t]] = CronSize - next[t][2] /\ m[t] = CronSize - t[2]
      <4> HIDE DEF next, X, D
      <4> QED  BY <3>1
    <3>3. next[t][2] \in 1..CronSize /\ t[2] \in 1..CronSize  BY <1>1, <3>1
    <3> HIDE DEF next, X, m
    <3> QED  BY <1>0, <3>1, <3>2, <3>3
  <2> HIDE DEF m, next, D
  <2> QED  BY <2>1, <2>2, <2>3 DEF Loop
<1>4. out \in [X -> CronState]
  BY <1>1
<1>5. PICK f \in [D -> CronState] : \A t \in D : f[t] = IF t \in X THEN out[t] ELSE f[next[t]]
  <2> HIDE DEF D, X, m, next, out
  <2> QED  BY <1>3, <1>4, LoopEnds
<1>6. f = [t \in D |-> Body(f, t)]
  <2>1. ASSUME NEW t \in D PROVE f[t] = Body(f, t)
    <3>1. CASE t \in X
      <4>1. f[t] = out[t]  BY <1>5, <3>1
      <4> QED  BY <3>1, <4>1
    <3>2. CASE t \notin X
      <4>1. f[t] = f[next[t]] /\ next[t] = <<Exchange(t[1], t[2], Smaller(t[1], t[2])), Smaller(t[1], t[2])>>
        BY <1>5, <3>2
      <4> QED  BY <3>2, <4>1
    <3> QED  BY <3>1, <3>2
  <2> HIDE DEF Body, D
  <2> QED  BY <1>5, <2>1
<1>7. \E g : g = [t \in D |-> Body(g, t)] /\ SiftDown(c, i) = g[<<c, i>>]
  BY <1>6, Zenon DEF SiftDown, Smaller
<1>8. PICK g : g = [t \in D |-> Body(g, t)] /\ SiftDown(c, i) = g[<<c, i>>]
  BY <1>7
<1>9. \A t \in D \ X : g[t] = g[next[t]]
  <2> SUFFICES ASSUME NEW t \in D \ X PROVE g[t] = g[next[t]]
    OBVIOUS
  <2>1. g[t] = Body(g, t)  BY <1>8
  <2> QED  BY <2>1
<1>10. \A t \in X : g[t] = t[1]
  <2> SUFFICES ASSUME NEW t \in X PROVE g[t] = t[1]
    OBVIOUS
  <2>1. g[t] = Body(g, t)  BY <1>8
  <2> QED  BY <2>1
<1> DEFINE I == {t \in D : Heaping(t[1], t[2], n, r, E) /\ NotEarly(t[1], t[2])}
           J == {d \in CronState : d.entries = n /\ Linked(d, 1..n, r) /\ Holds(d, 1..n, E) /\ Heap(d)}
<1>11. <<c, i>> \in I
  <2>1. c \in CronState /\ i \in 1..n  BY DEF Heaping
  <2>2. i \in 1..CronSize  BY <1>0, <2>1
  <2> QED  BY <2>1, <2>2
<1>12. ASSUME NEW t \in I \ X PROVE next[t] \in I
  <2>1. t \in D \ X  OBVIOUS
  <2>2. /\ next[t] \in D /\ next[t][1] = Exchange(t[1], t[2], Smaller(t[1], t[2])) /\ next[t][2] = Smaller(t[1], t[2])
        /\ 2 * t[2] <= t[1].entries /\ t[1].entry[t[2]].round > t[1].entry[Smaller(t[1], t[2])].round
    BY <1>2, <2>1
  <2>3. Heaping(t[1], t[2], n, r, E) /\ NotEarly(t[1], t[2])  OBVIOUS
  <2>4. t[1].entries = n  BY <2>3 DEF Heaping
  <2> HIDE DEF next, D, X
  <2>5. /\ Heaping(Exchange(t[1], t[2], Smaller(t[1], t[2])), Smaller(t[1], t[2]), n, r, E)
        /\ NotEarly(Exchange(t[1], t[2], Smaller(t[1], t[2])), Smaller(t[1], t[2]))
    BY <2>2, <2>3, <2>4, SiftDownStep
  <2> QED  BY <2>2, <2>5
<1>13. ASSUME NEW t \in I \cap X PROVE g[t] \in J
  <2> DEFINE d == t[1]
             k == t[2]
  <2>1. g[t] = d  BY <1>10
  <2>2. /\ d \in CronState /\ d.entries = n /\ k \in 1..n /\ n \in Nat /\ HeapBut(d, k) /\ NotEarly(d, k)
        /\ Linked(d, 1..n, r) /\ Holds(d, 1..n, E)
    BY <1>0 DEF Heaping
  <2>3. ~Goes(d, k)  OBVIOUS
  <2> HIDE DEF d, k
  <2>4. ASSUME NEW j \in 2..n PROVE d.entry[j \div 2].round <= d.entry[j].round
    <3>1. CASE j = k  BY <2>2, <3>1, <2>4 DEF NotEarly
    <3>2. CASE j # k /\ j \div 2 # k  BY <2>2, <3>2 DEF HeapBut
    <3>3. CASE j \div 2 = k
      <4>1. j \in Nat /\ j >= 2 /\ j <= n  BY <2>2
      <4>2. 2 * k <= n  BY <2>2, <3>3, <4>1, Halves
      <4>3. k \in 1..CronSize  BY <1>0, <2>2
      <4>4. Smaller(d, k) \in 1..n /\ d.entry[Smaller(d, k)].round <= d.entry[j].round
        BY <2>2, <3>3, <4>2, <4>3, SmallerType
      <4>5. ~(d.entry[k].round > d.entry[Smaller(d, k)].round)  BY <2>2, <2>3, <4>2
      <4>6. d.entry[k].round \in Nat /\ d.entry[Smaller(d, k)].round \in Nat /\ d.entry[j].round \in Nat
        <5>1. k \in 0..CronSize /\ Smaller(d, k) \in 0..CronSize /\ j \in 0..CronSize  BY <1>0, <2>2, <4>1, <4>4
        <5> QED  BY <2>2, <5>1 DEF CronState, CronEntry
      <4> QED  BY <3>3, <4>4, <4>5, <4>6
    <3> QED  BY <3>1, <3>2, <3>3
  <2>5. Heap(d)  BY <2>2, <2>4 DEF Heap
  <2> QED  BY <2>1, <2>2, <2>5
<1>14. g[<<c, i>>] \in J
  <2>1. I \subseteq D  OBVIOUS
  <2> HIDE DEF J, X, D, next, m, out, I
  <2> QED  BY <1>3, <1>9, <1>11, <1>12, <1>13, <2>1, LoopKeeps
<1> QED  BY <1>8, <1>14

\* All is in order.
Ordered(c, n, r, E) ==
    c \in CronState /\ c.entries = n /\ Linked(c, 1..n, r) /\ Holds(c, 1..n, E) /\ Heap(c)

\* CronHeapify.
LEMMA HeapifyResult ==
    ASSUME CronAssumption, NEW c, NEW i, NEW n \in 0..CronSize, NEW r \in [Decaying -> Nat], NEW E,
           Heaping(c, i, n, r, E)
    PROVE  Ordered(CronHeapify(c, i), n, r, E)
<1>1. PICK d \in CronState, k \in 1..CronSize : SiftUp(c, i) = <<d, k>> /\ Heaping(d, k, n, r, E) /\ NotEarly(d, k)
  BY SiftUpResult
<1>2. CronHeapify(c, i) = SiftDown(d, k)  BY <1>1 DEF CronHeapify
<1>3. /\ SiftDown(d, k) \in CronState /\ SiftDown(d, k).entries = n
      /\ Linked(SiftDown(d, k), 1..n, r) /\ Holds(SiftDown(d, k), 1..n, E) /\ Heap(SiftDown(d, k))
  BY <1>1, SiftDownResult
<1> QED  BY <1>2, <1>3 DEF Ordered

\* What is not read does not matter.
LEMMA SameEntries ==
    ASSUME NEW c, NEW d, NEW P, NEW r, NEW E, Linked(c, P, r), Holds(c, P, E),
           d.table = c.table, \A k \in P : d.entry[k] = c.entry[k]
    PROVE  Linked(d, P, r) /\ Holds(d, P, E)
<1>1. Holds(d, P, E)  BY DEF Holds
<1>2. ASSUME NEW k \in P, d.entry[k].next # -1
      PROVE  LET j == d.entry[k].next
             IN /\ j \in P /\ d.entry[j].prev = k /\ Hash(d.entry[j].obj) = Hash(d.entry[k].obj)
                /\ r[d.entry[j].obj] < r[d.entry[k].obj]
  BY <1>2 DEF Linked
<1>3. \A k \in P : d.entry[k].prev # -1 => d.entry[k].prev \in P /\ d.entry[d.entry[k].prev].next = k
  BY DEF Linked
<1>4. \A k \in P : d.entry[k].prev = -1 => d.table[Hash(d.entry[k].obj)] = k
  BY DEF Linked
<1>5. \A b \in 0..(Buckets - 1) : d.table[b] # -1 =>
           d.table[b] \in P /\ d.entry[d.table[b]].prev = -1 /\ Hash(d.entry[d.table[b]].obj) = b
  BY DEF Linked
<1> QED  BY <1>1, <1>2, <1>3, <1>4, <1>5 DEF Linked

Tidied(c) == \A k \in (0..CronSize) \ (1..c.entries) : c.entry[k] = NoEntry

\* What Tidy clears is not in use.
LEMMA TidyStep ==
    ASSUME CronAssumption, NEW c, NEW n \in 0..CronSize, NEW r, NEW E, Ordered(c, n, r, E)
    PROVE  Ordered(Tidy(c), n, r, E) /\ Tidied(Tidy(c))
<1> DEFINE f == [i \in 0..CronSize |-> IF i \in 1..n THEN c.entry[i] ELSE NoEntry]
           d == [c EXCEPT !.entry = f]
<1>1. c \in CronState /\ c.entries = n /\ Linked(c, 1..n, r) /\ Holds(c, 1..n, E) /\ Heap(c)  BY DEF Ordered
<1>2. n \in Nat /\ n <= CronSize /\ CronSize \in Nat /\ 1..n \subseteq 0..CronSize  BY CronNumbers
<1>3. c.entry \in [0..CronSize -> CronEntry] /\ DOMAIN c.entry = 0..CronSize  BY <1>1 DEF CronState
<1>4. Tidy(c) = d  BY <1>1, <1>3 DEF Tidy
<1>5. NoEntry \in CronEntry
  <2>1. -1 \in Link  BY <1>2 DEF Link
  <2> QED  BY <2>1 DEF NoEntry, CronEntry
<1>6. f \in [0..CronSize -> CronEntry] /\ \A k \in 1..n : f[k] = c.entry[k]  BY <1>2, <1>3, <1>5
<1>7. \A k \in (0..CronSize) \ (1..n) : f[k] = NoEntry  OBVIOUS
<1> HIDE DEF f
<1>8. d \in CronState /\ d.entries = n /\ d.table = c.table /\ d.entry = f  BY <1>1, <1>6 DEF CronState
<1> HIDE DEF d
<1>9. \A k \in 1..n : d.entry[k] = c.entry[k]  BY <1>6, <1>8
<1>10. Linked(d, 1..n, r) /\ Holds(d, 1..n, E)  BY <1>1, <1>8, <1>9, SameEntries
<1>11. Heap(d)
  <2> SUFFICES ASSUME NEW k \in 2..n PROVE d.entry[k \div 2].round <= d.entry[k].round
    BY <1>8 DEF Heap
  <2>1. k \in Nat /\ k >= 2 /\ k <= n  BY <1>2
  <2>2. k \in 1..n /\ k \div 2 \in 1..n  BY <1>2, <2>1, Halves
  <2>3. c.entry[k \div 2].round <= c.entry[k].round  BY <1>1 DEF Heap
  <2> QED  BY <1>9, <2>2, <2>3
<1> QED  BY <1>4, <1>7, <1>8, <1>10, <1>11 DEF Ordered, Tidied

\* The parent of the others is the same: a heap in which one entry has changed.
LEMMA HeapChanged ==
    ASSUME NEW n \in Nat, NEW c, NEW d, NEW i \in 1..n, Heap(c), d.entries = n, n <= c.entries, c.entries \in Nat,
           \A k \in 1..c.entries : c.entry[k].round \in Nat,
           \A k \in 1..n : k # i => d.entry[k].round = c.entry[k].round
    PROVE  HeapBut(d, i)
<1>1. ASSUME NEW k \in 2..n PROVE k \in 1..n /\ k \in 2..c.entries /\ k \div 2 \in 1..n /\ k \div 2 # k /\ k \in Nat
  <2>1. k \in Nat /\ k >= 2 /\ k <= n  OBVIOUS
  <2> QED  BY <2>1, Halves
<1>2. ASSUME NEW k \in 2..n, k # i, k \div 2 # i PROVE d.entry[k \div 2].round <= d.entry[k].round
  BY <1>1, <1>2 DEF Heap
<1>3. ASSUME NEW k \in 2..n, k \div 2 = i, i > 1 PROVE d.entry[i \div 2].round <= d.entry[k].round
  <2>1. i \in 2..n /\ k # i  BY <1>1, <1>3
  <2>2. c.entry[i \div 2].round <= c.entry[i].round /\ c.entry[i].round <= c.entry[k].round
    BY <1>1, <1>3, <2>1 DEF Heap
  <2>3. i \div 2 \in 1..n /\ i \div 2 # i  BY <1>1, <2>1
  <2>4. i \div 2 \in 1..c.entries /\ i \in 1..c.entries /\ k \in 1..c.entries  BY <1>1, <2>3
  <2> QED  BY <1>1, <2>1, <2>2, <2>3, <2>4
<1> QED  BY <1>2, <1>3 DEF HeapBut

\* The entries in use.
LEMMA RoundsType ==
    ASSUME CronAssumption, NEW c \in CronState
    PROVE  /\ c.entries \in Nat /\ c.entries <= CronSize
           /\ \A k \in 1..c.entries : k \in 0..CronSize /\ c.entry[k] \in CronEntry /\ c.entry[k].round \in Nat
<1>1. CronSize \in Nat /\ c.entries \in Nat /\ c.entries <= CronSize  BY CronNumbers DEF CronState
<1>2. \A k \in 1..c.entries : k \in 0..CronSize  BY <1>1
<1>3. \A k \in 1..c.entries : c.entry[k] \in CronEntry  BY <1>2 DEF CronState
<1> QED  BY <1>1, <1>2, <1>3 DEF CronEntry

\* The chains do not depend on the rounds.
LEMMA SameLinks ==
    ASSUME NEW c, NEW d, NEW P, NEW r, Linked(c, P, r), d.table = c.table,
           \A k \in P : /\ d.entry[k].obj = c.entry[k].obj /\ d.entry[k].prev = c.entry[k].prev
                        /\ d.entry[k].next = c.entry[k].next
    PROVE  Linked(d, P, r)
<1>1. ASSUME NEW k \in P, d.entry[k].next # -1
      PROVE  LET j == d.entry[k].next
             IN /\ j \in P /\ d.entry[j].prev = k /\ Hash(d.entry[j].obj) = Hash(d.entry[k].obj)
                /\ r[d.entry[j].obj] < r[d.entry[k].obj]
  BY <1>1 DEF Linked
<1>2. \A k \in P : d.entry[k].prev # -1 => d.entry[k].prev \in P /\ d.entry[d.entry[k].prev].next = k
  BY DEF Linked
<1>3. \A k \in P : d.entry[k].prev = -1 => d.table[Hash(d.entry[k].obj)] = k
  BY DEF Linked
<1>4. \A b \in 0..(Buckets - 1) : d.table[b] # -1 =>
           d.table[b] \in P /\ d.entry[d.table[b]].prev = -1 /\ Hash(d.entry[d.table[b]].obj) = b
  BY DEF Linked
<1> QED  BY <1>1, <1>2, <1>3, <1>4 DEF Linked

\* The round of one entry is changed.
LEMMA ChangeResult ==
    ASSUME CronAssumption, NEW c, NEW n \in 0..CronSize, NEW r \in [Decaying -> Nat], NEW E \in [Decaying -> Nat],
           Ordered(c, n, r, E), NEW i \in 1..n, NEW x \in Nat \ {0}
    PROVE  Ordered(CronHeapify([c EXCEPT !.entry[i].round = x], i), n, r, [E EXCEPT ![c.entry[i].obj] = x])
<1> DEFINE e == [c.entry[i] EXCEPT !.round = x]
           d == [c EXCEPT !.entry[i] = e]
           o == c.entry[i].obj
           F == [E EXCEPT ![o] = x]
<1>1. c \in CronState /\ c.entries = n /\ Linked(c, 1..n, r) /\ Holds(c, 1..n, E) /\ Heap(c)  BY DEF Ordered
<1>2. /\ n \in Nat /\ n <= CronSize
      /\ \A k \in 1..n : k \in 0..CronSize /\ c.entry[k] \in CronEntry /\ c.entry[k].round \in Nat
  BY <1>1, RoundsType
<1>3. e \in CronEntry /\ e.round = x /\ e.obj = o /\ e.prev = c.entry[i].prev /\ e.next = c.entry[i].next
  BY <1>2 DEF CronEntry
<1>4. [c EXCEPT !.entry[i].round = x] = d  OBVIOUS
<1> HIDE DEF e
<1>5. /\ d \in CronState /\ d.entries = c.entries /\ d.table = c.table
      /\ d.entry[i] = e /\ \A j \in (0..CronSize) \ {i} : d.entry[j] = c.entry[j]
  <2>1. i \in 0..CronSize  BY <1>2
  <2>2. c \in CronState /\ e \in CronEntry  BY <1>1, <1>3
  <2> QED  BY <2>1, <2>2, SetEntry
<1> HIDE DEF d
<1>6. \A k \in 1..n : /\ d.entry[k].obj = c.entry[k].obj /\ d.entry[k].prev = c.entry[k].prev
                      /\ d.entry[k].next = c.entry[k].next
                      /\ k # i => d.entry[k].round = c.entry[k].round
  BY <1>2, <1>3, <1>5
<1>7. \A k \in 1..n : c.entry[k].obj \in Decaying /\ (c.entry[k].obj = o => k = i)  BY <1>1 DEF Holds
<1>8. F[o] = x /\ \A y \in Decaying : y # o => F[y] = E[y]  BY <1>7
<1> HIDE DEF F, o
<1>9. Holds(d, 1..n, F)
  <2>1. ASSUME NEW k \in 1..n
        PROVE  /\ d.entry[k].obj \in Decaying /\ d.entry[k].round # 0
               /\ F[d.entry[k].obj] = d.entry[k].round
    <3>1. CASE k = i
      <4>1. d.entry[k].obj = o /\ d.entry[k].round = x /\ o \in Decaying /\ x # 0
        BY <1>3, <1>5, <1>7, <3>1 DEF o
      <4> QED  BY <1>8, <4>1
    <3>2. CASE k # i
      <4>1. /\ c.entry[k].round # 0 /\ E[c.entry[k].obj] = c.entry[k].round  BY <1>1 DEF Holds
      <4>2. c.entry[k].obj \in Decaying /\ c.entry[k].obj # o  BY <1>7, <3>2
      <4>3. d.entry[k].obj = c.entry[k].obj /\ d.entry[k].round = c.entry[k].round  BY <1>6, <3>2
      <4> QED  BY <1>8, <4>1, <4>2, <4>3
    <3> QED  BY <3>1, <3>2
  <2>2. ASSUME NEW y \in Decaying, F[y] # 0 PROVE \E k \in 1..n : d.entry[k].obj = y
    <3>1. CASE y = o  BY <1>3, <1>5, <3>1
    <3>2. CASE y # o
      <4>1. PICK k \in 1..n : c.entry[k].obj = y  BY <1>1, <1>8, <2>2, <3>2 DEF Holds
      <4> QED  BY <1>6, <4>1
    <3> QED  BY <3>1, <3>2
  <2>3. \A j, k \in 1..n : d.entry[j].obj = d.entry[k].obj => j = k  BY <1>1, <1>6 DEF Holds
  <2> QED  BY <2>1, <2>2, <2>3 DEF Holds
<1>10. Linked(d, 1..n, r)
  <2> DEFINE P == 1..n
  <2>1. \A k \in P : /\ d.entry[k].obj = c.entry[k].obj /\ d.entry[k].prev = c.entry[k].prev
                     /\ d.entry[k].next = c.entry[k].next
    BY <1>6
  <2>2. Linked(c, P, r)  BY <1>1
  <2> HIDE DEF P
  <2>3. Linked(d, P, r)  BY <1>5, <2>1, <2>2, SameLinks
  <2> QED  BY <2>3 DEF P
<1>11. HeapBut(d, i)  BY <1>1, <1>2, <1>5, <1>6, HeapChanged
<1>12. Heaping(d, i, n, r, F)  BY <1>1, <1>5, <1>9, <1>10, <1>11 DEF Heaping
<1>13. Ordered(CronHeapify(d, i), n, r, F)  BY <1>12, HeapifyResult
<1> QED  BY <1>4, <1>13 DEF F, o

\* d has the entries at Q instead of P, which are those that E demands.
Spliced(c, d, P, Q, r, E) ==
    Linked(d, Q, r) /\ Holds(d, Q, E) /\ \A k \in P \cap Q : d.entry[k].round = c.entry[k].round

\* A new entry at n is the first of its chain.
NewEntry(c, o, x) == [obj |-> o, round |-> x, prev |-> -1, next |-> c.table[Hash(o)]]

LEMMA InsertStep ==
    ASSUME CronAssumption, NEW c \in CronState, NEW P \in SUBSET (0..CronSize), NEW B \in Nat, NEW r \in [Decaying -> 0..B],
           NEW E \in [Decaying -> Nat], Linked(c, P, r), Holds(c, P, E), NEW o \in Decaying, E[o] = 0,
           NEW n \in (0..CronSize) \ P, NEW x \in Nat \ {0},
           NEW c1 \in CronState, c1.table = c.table, c1.entry[n] = NewEntry(c, o, x),
           \A k \in (0..CronSize) \ {n} : c1.entry[k] = c.entry[k],
           NEW d, Relinked(c1, d, NewEntry(c, o, x), n, n)
    PROVE  Spliced(c, d, P, P \cup {n}, [r EXCEPT ![o] = B + 1], [E EXCEPT ![o] = x])
<1> DEFINE e == NewEntry(c, o, x)
           q == [r EXCEPT ![o] = B + 1]
           F == [E EXCEPT ![o] = x]
           h == Hash(o)
           first == c.table[h]
           Q == P \cup {n}
<1>1. h \in 0..(Buckets - 1) /\ n \in 0..CronSize /\ n \notin P /\ (\A k \in 0..CronSize : k # -1) /\ o # 0  BY CronNumbers
<1>2. first \in Link  BY <1>1 DEF CronState
<1>3. e \in CronEntry /\ e.obj = o /\ e.round = x /\ e.prev = -1 /\ e.next = first
  <2>1. -1 \in Link  BY CronNumbers DEF Link
  <2> QED  BY <1>2, <2>1 DEF CronEntry, NewEntry
<1>4. c1.entry[n] = e /\ Relinked(c1, d, e, n, n)  OBVIOUS
<1> HIDE DEF e
<1>5. first # -1 => first \in P /\ c.entry[first].prev = -1 /\ Hash(c.entry[first].obj) = h
  BY <1>1 DEF Linked
<1>6. \A k \in P : c.entry[k].obj \in Decaying /\ c.entry[k].obj # o /\ Hash(c.entry[k].obj) \in 0..(Buckets - 1)
  <2>1. \A k \in P : c.entry[k].obj \in Decaying /\ E[c.entry[k].obj] # 0
    <3>1. \A k \in P : /\ c.entry[k].obj \in Decaying /\ c.entry[k].round # 0
                       /\ E[c.entry[k].obj] = c.entry[k].round
      BY Zenon DEF Holds
    <3> QED  BY <3>1, Zenon
  <2>2. \A k \in P : c.entry[k].obj # o  BY <2>1, Zenon
  <2> QED  BY <2>1, <2>2, CronNumbers, Zenon
<1>7. q[o] = B + 1 /\ \A y \in Decaying : y # o => q[y] = r[y]  OBVIOUS
<1>8. F[o] = x /\ \A y \in Decaying : y # o => F[y] = E[y]  OBVIOUS
<1>9. \A y \in Decaying : r[y] < B + 1  OBVIOUS
<1> HIDE DEF q, F, h, first
<1>10. /\ d \in CronState /\ d.entries = c1.entries
       /\ \A k \in 0..CronSize :
                /\ d.entry[k].obj = c1.entry[k].obj /\ d.entry[k].round = c1.entry[k].round
                /\ k = e.next => d.entry[k].prev = n
                /\ k # e.next => d.entry[k].prev = c1.entry[k].prev
                /\ k = e.prev => d.entry[k].next = n
                /\ k # e.prev => d.entry[k].next = c1.entry[k].next
       /\ \A b \in 0..(Buckets - 1) :
                /\ e.prev = -1 /\ b = Hash(e.obj) => d.table[b] = n
                /\ e.prev # -1 \/ b # Hash(e.obj) => d.table[b] = c1.table[b]
  BY <1>4 DEF Relinked
<1>11. ASSUME NEW k \in P
       PROVE  /\ k # n /\ k # -1 /\ d.entry[k].obj = c.entry[k].obj /\ d.entry[k].round = c.entry[k].round
              /\ (k = first => d.entry[k].prev = n) /\ (k # first => d.entry[k].prev = c.entry[k].prev)
              /\ d.entry[k].next = c.entry[k].next
  <2>1. k \in 0..CronSize /\ k # n /\ k # -1  BY <1>1
  <2>2. c1.entry[k] = c.entry[k]  BY <2>1
  <2> QED  BY <1>3, <1>10, <2>1, <2>2
<1>12. d.entry[n].obj = o /\ d.entry[n].round = x /\ d.entry[n].prev = -1 /\ d.entry[n].next = first
  <2>1. n # first /\ n # -1  BY <1>1, <1>5
  <2> QED  BY <1>1, <1>3, <1>4, <1>10, <2>1
<1>13. d.table[h] = n /\ \A b \in 0..(Buckets - 1) : b # h => d.table[b] = c.table[b]
  BY <1>1, <1>3, <1>10 DEF h
<1>14. Holds(d, Q, F)
  <2>1. ASSUME NEW k \in Q
        PROVE  d.entry[k].obj \in Decaying /\ d.entry[k].round # 0 /\ F[d.entry[k].obj] = d.entry[k].round
    <3>1. CASE k = n  BY <1>8, <1>12, <3>1
    <3>2. CASE k \in P
      <4>1. c.entry[k].round # 0 /\ E[c.entry[k].obj] = c.entry[k].round  BY <3>2 DEF Holds
      <4> QED  BY <1>6, <1>8, <1>11, <3>2, <4>1
    <3> QED  BY <3>1, <3>2
  <2>2. ASSUME NEW y \in Decaying, F[y] # 0 PROVE \E k \in Q : d.entry[k].obj = y
    <3>1. CASE y = o  BY <1>12, <3>1
    <3>2. CASE y # o
      <4>1. PICK k \in P : c.entry[k].obj = y  BY <1>8, <2>2, <3>2 DEF Holds
      <4> QED  BY <1>11, <4>1
    <3> QED  BY <3>1, <3>2
  <2>3. ASSUME NEW j \in Q, NEW k \in Q, d.entry[j].obj = d.entry[k].obj PROVE j = k
    <3>1. CASE j = n \/ k = n  BY <1>6, <1>11, <1>12, <2>3, <3>1
    <3>2. CASE j \in P /\ k \in P
      <4>1. c.entry[j].obj = c.entry[k].obj  BY <1>11, <2>3, <3>2
      <4> QED  BY <3>2, <4>1 DEF Holds
    <3> QED  BY <3>1, <3>2
  <2> QED  BY <2>1, <2>2, <2>3 DEF Holds
<1>15. ASSUME NEW k \in Q, d.entry[k].next # -1
       PROVE  LET j == d.entry[k].next
              IN /\ j \in Q /\ d.entry[j].prev = k /\ Hash(d.entry[j].obj) = Hash(d.entry[k].obj)
                 /\ q[d.entry[j].obj] < q[d.entry[k].obj]
  <2> DEFINE j == d.entry[k].next
  <2>1. CASE k = n
    <3>1. j = first /\ j \in P /\ Hash(c.entry[j].obj) = h  BY <1>5, <1>12, <1>15, <2>1
    <3>2. d.entry[j].prev = n /\ d.entry[j].obj = c.entry[j].obj  BY <1>11, <3>1
    <3>3. q[c.entry[j].obj] < B + 1  BY <1>6, <1>7, <1>9, <3>1
    <3> QED  BY <1>7, <1>12, <2>1, <3>1, <3>2, <3>3 DEF h
  <2>2. CASE k \in P
    <3>1. j = c.entry[k].next /\ j # -1  BY <1>11, <1>15, <2>2
    <3>2. /\ j \in P /\ c.entry[j].prev = k /\ Hash(c.entry[j].obj) = Hash(c.entry[k].obj)
          /\ r[c.entry[j].obj] < r[c.entry[k].obj]
      BY <2>2, <3>1 DEF Linked
    <3>3. j # first  BY <1>5, <1>11, <2>2, <3>1, <3>2
    <3>4. d.entry[j].prev = k /\ d.entry[j].obj = c.entry[j].obj /\ d.entry[k].obj = c.entry[k].obj
      BY <1>11, <2>2, <3>2, <3>3
    <3>5. q[c.entry[j].obj] = r[c.entry[j].obj] /\ q[c.entry[k].obj] = r[c.entry[k].obj]  BY <1>6, <1>7, <2>2, <3>2
    <3> QED  BY <3>2, <3>4, <3>5
  <2> QED  BY <2>1, <2>2
<1>16. ASSUME NEW k \in Q, d.entry[k].prev # -1
       PROVE  d.entry[k].prev \in Q /\ d.entry[d.entry[k].prev].next = k
  <2>1. k \in P  BY <1>12, <1>16
  <2>2. CASE k = first  BY <1>11, <1>12, <2>1, <2>2
  <2>3. CASE k # first
    <3> DEFINE j == c.entry[k].prev
    <3>1. d.entry[k].prev = j /\ j # -1  BY <1>11, <1>16, <2>1, <2>3
    <3>2. j \in P /\ c.entry[j].next = k  BY <2>1, <3>1 DEF Linked
    <3>3. d.entry[j].next = k  BY <1>11, <3>2
    <3> QED  BY <3>1, <3>2, <3>3
  <2> QED  BY <2>2, <2>3
<1>17. ASSUME NEW k \in Q, d.entry[k].prev = -1 PROVE d.table[Hash(d.entry[k].obj)] = k
  <2>1. CASE k = n  BY <1>12, <1>13, <2>1 DEF h
  <2>2. CASE k \in P
    <3>1. k # first /\ c.entry[k].prev = -1  BY <1>1, <1>11, <1>17, <2>2
    <3>2. c.table[Hash(c.entry[k].obj)] = k  BY <2>2, <3>1 DEF Linked
    <3>3. Hash(c.entry[k].obj) # h  BY <3>1, <3>2 DEF first
    <3>4. Hash(c.entry[k].obj) \in 0..(Buckets - 1) /\ d.entry[k].obj = c.entry[k].obj  BY <1>6, <1>11, <2>2
    <3> QED  BY <1>13, <3>2, <3>3, <3>4
  <2> QED  BY <2>1, <2>2
<1>18. ASSUME NEW b \in 0..(Buckets - 1), d.table[b] # -1
       PROVE  d.table[b] \in Q /\ d.entry[d.table[b]].prev = -1 /\ Hash(d.entry[d.table[b]].obj) = b
  <2>1. CASE b = h  BY <1>12, <1>13, <2>1 DEF h
  <2>2. CASE b # h
    <3> DEFINE k == c.table[b]
    <3>1. d.table[b] = k  BY <1>13, <2>2
    <3>2. k \in P /\ c.entry[k].prev = -1 /\ Hash(c.entry[k].obj) = b  BY <1>18, <3>1 DEF Linked
    <3>3. k # first  BY <1>5, <1>11, <2>2, <3>2
    <3> QED  BY <1>11, <3>1, <3>2, <3>3
  <2> QED  BY <2>1, <2>2
<1>19. Linked(d, Q, q)  BY <1>15, <1>16, <1>17, <1>18 DEF Linked
<1> QED  BY <1>11, <1>14, <1>19 DEF q, F, Spliced

\* CronSet.
LEMMA CronSetResult ==
    ASSUME CronAssumption, NEW c, NEW m \in 0..CronSize, m < CronSize, NEW B \in Nat, NEW r \in [Decaying -> 0..B],
           NEW E \in [Decaying -> Nat], Ordered(c, m, r, E), NEW o \in Decaying, E[o] = 0,
           NEW delay \in Nat, roundNr \in Nat \ {0}
    PROVE  Ordered(CronSet(c, o, delay), m + 1, [r EXCEPT ![o] = B + 1], [E EXCEPT ![o] = roundNr + delay])
<1> DEFINE n == m + 1
           x == roundNr + delay
           e == NewEntry(c, o, x)
           c0 == [c EXCEPT !.entries = n]
           c1 == [c0 EXCEPT !.entry[n] = e]
           d == Relink(c1, e, n, n)
           q == [r EXCEPT ![o] = B + 1]
           F == [E EXCEPT ![o] = x]
           P == 1..m
<1>1. c \in CronState /\ c.entries = m /\ Linked(c, P, r) /\ Holds(c, P, E) /\ Heap(c)  BY DEF Ordered
<1>2. CronSize \in Nat /\ m \in Nat /\ n \in Nat /\ n \in 0..CronSize /\ n \in 1..n  BY CronNumbers
<1>3. n \in Link /\ P \in SUBSET (0..CronSize) /\ n \in (0..CronSize) \ P /\ 1..n = P \cup {n}  BY <1>2 DEF Link
<1>4. x \in Nat \ {0}  OBVIOUS
<1>5. CronSet(c, o, delay) = CronHeapify(d, n)
  <2>1. [c EXCEPT !.entries = n, !.entry[n] = e] = c1  OBVIOUS
  <2> HIDE DEF c1
  <2> QED  BY <1>1, <2>1 DEF CronSet, NewEntry
<1>6. e \in CronEntry
  <2>1. Hash(o) \in 0..(Buckets - 1) /\ -1 \in Link  BY <1>2, CronNumbers DEF Link
  <2>2. c.table[Hash(o)] \in Link  BY <1>1, <2>1 DEF CronState
  <2> QED  BY <1>4, <2>1, <2>2 DEF NewEntry, CronEntry
<1> HIDE DEF n, x, e, P
<1>7. c0 \in CronState /\ c0.entries = n /\ c0.entry = c.entry /\ c0.table = c.table  BY <1>1, <1>2, SetEntries
<1> HIDE DEF c0
<1>8. /\ c1 \in CronState /\ c1.entries = n /\ c1.table = c.table
      /\ c1.entry[n] = e /\ \A j \in (0..CronSize) \ {n} : c1.entry[j] = c.entry[j]
  BY <1>2, <1>6, <1>7, SetEntry
<1> HIDE DEF c1
<1>9. Relinked(c1, d, e, n, n)  BY <1>3, <1>6, <1>8, RelinkStep
<1>10. d \in CronState /\ d.entries = n  BY <1>8, <1>9 DEF Relinked
<1> HIDE DEF d
<1>11. Linked(d, P \cup {n}, q) /\ Holds(d, P \cup {n}, F) /\ \A k \in P : d.entry[k].round = c.entry[k].round
  <2>1. Spliced(c, d, P, P \cup {n}, q, F)
    BY <1>1, <1>3, <1>4, <1>8, <1>9, InsertStep, Zenon DEF e
  <2> HIDE DEF q, F
  <2> QED  BY <2>1 DEF Spliced
<1>12. q \in [Decaying -> Nat]  BY <1>2
<1> HIDE DEF q, F
<1>13. Linked(d, 1..n, q) /\ Holds(d, 1..n, F)  BY <1>3, <1>11
<1>14. HeapBut(d, n)
  <2>1. ASSUME NEW k \in 2..n, k # n PROVE d.entry[k \div 2].round <= d.entry[k].round
    <3>1. k \in Nat /\ k >= 2 /\ k <= m  BY <1>2, <2>1 DEF n
    <3>2. k \in 1..m /\ k \div 2 \in 1..m /\ k \in 2..m  BY <1>2, <3>1, Halves
    <3>3. c.entry[k \div 2].round <= c.entry[k].round  BY <1>1, <3>2 DEF Heap
    <3> QED  BY <1>11, <3>2, <3>3 DEF P
  <2>2. ASSUME NEW k \in 2..n PROVE k \div 2 # n
    <3>1. k \in Nat /\ k >= 2 /\ k <= n  BY <1>2
    <3> QED  BY <1>2, <3>1, Halves
  <2> QED  BY <1>10, <2>1, <2>2 DEF HeapBut
<1>15. Heaping(d, n, n, q, F)  BY <1>2, <1>10, <1>13, <1>14 DEF Heaping
<1>16. Ordered(CronHeapify(d, n), n, q, F)  BY <1>2, <1>12, <1>15, HeapifyResult
<1> QED  BY <1>5, <1>16 DEF n, q, F, x

\* An entry leaves its chain: its neighbours are linked to each other.
LEMMA RemoveStep ==
    ASSUME CronAssumption, NEW c \in CronState, NEW P \in SUBSET (0..CronSize), NEW r \in [Decaying -> Nat],
           NEW E \in [Decaying -> Nat], Linked(c, P, r), Holds(c, P, E), NEW i \in P,
           NEW d, Relinked(c, d, c.entry[i], c.entry[i].prev, c.entry[i].next)
    PROVE  Spliced(c, d, P, P \ {i}, r, [E EXCEPT ![c.entry[i].obj] = 0])
<1> DEFINE e == c.entry[i]
           o == e.obj
           prev == e.prev
           next == e.next
           F == [E EXCEPT ![o] = 0]
           Q == P \ {i}
<1>1. i \in 0..CronSize /\ \A k \in 0..CronSize : k # -1  BY CronNumbers
<1>2. /\ d \in CronState /\ d.entries = c.entries
      /\ \A k \in 0..CronSize :
                /\ d.entry[k].obj = c.entry[k].obj /\ d.entry[k].round = c.entry[k].round
                /\ k = next => d.entry[k].prev = prev
                /\ k # next => d.entry[k].prev = c.entry[k].prev
                /\ k = prev => d.entry[k].next = next
                /\ k # prev => d.entry[k].next = c.entry[k].next
      /\ \A b \in 0..(Buckets - 1) :
                /\ prev = -1 /\ b = Hash(o) => d.table[b] = next
                /\ prev # -1 \/ b # Hash(o) => d.table[b] = c.table[b]
  BY DEF Relinked
<1>3. \A k \in P : /\ c.entry[k].obj \in Decaying /\ r[c.entry[k].obj] \in Nat
                   /\ Hash(c.entry[k].obj) \in 0..(Buckets - 1) /\ (c.entry[k].obj = o => k = i)
  BY CronNumbers DEF Holds
<1>4. F[o] = 0 /\ \A y \in Decaying : y # o => F[y] = E[y]  BY <1>3
<1>5. /\ next # -1 => /\ next \in P /\ c.entry[next].prev = i
                      /\ Hash(c.entry[next].obj) = Hash(o) /\ r[c.entry[next].obj] < r[o]
      /\ prev # -1 => /\ prev \in P /\ c.entry[prev].next = i
      /\ prev = -1 => c.table[Hash(o)] = i
  BY DEF Linked
<1>6. prev # -1 => Hash(c.entry[prev].obj) = Hash(o) /\ r[o] < r[c.entry[prev].obj]
  <2> SUFFICES ASSUME prev # -1 PROVE Hash(c.entry[prev].obj) = Hash(o) /\ r[o] < r[c.entry[prev].obj]
    OBVIOUS
  <2>1. prev \in P /\ c.entry[prev].next = i /\ i # -1  BY <1>1, <1>5
  <2>2. Hash(c.entry[i].obj) = Hash(c.entry[prev].obj) /\ r[c.entry[i].obj] < r[c.entry[prev].obj]
    BY <2>1 DEF Linked
  <2> QED  BY <2>2
<1>7. (next # -1 => next # i) /\ (prev # -1 => prev # i)  BY <1>3, <1>5, <1>6
<1>8. i # -1 /\ o \in Decaying  BY <1>1, <1>3
<1>9. ASSUME NEW k \in P
      PROVE  /\ k # -1 /\ d.entry[k].obj = c.entry[k].obj /\ d.entry[k].round = c.entry[k].round
             /\ (k = next => d.entry[k].prev = prev) /\ (k # next => d.entry[k].prev = c.entry[k].prev)
             /\ (k = prev => d.entry[k].next = next) /\ (k # prev => d.entry[k].next = c.entry[k].next)
  BY <1>1, <1>2
<1> HIDE DEF prev, next, F, o
<1>10. ASSUME NEW k \in Q PROVE (c.entry[k].next = i => k = prev) /\ (c.entry[k].prev = i => k = next)
  BY <1>8 DEF Linked, prev, next
<1>11. Holds(d, Q, F)
  <2>1. ASSUME NEW k \in Q
        PROVE  d.entry[k].obj \in Decaying /\ d.entry[k].round # 0 /\ F[d.entry[k].obj] = d.entry[k].round
    <3>1. c.entry[k].round # 0 /\ E[c.entry[k].obj] = c.entry[k].round  BY DEF Holds
    <3>2. c.entry[k].obj \in Decaying /\ c.entry[k].obj # o  BY <1>3
    <3> QED  BY <1>4, <1>9, <3>1, <3>2
  <2>2. ASSUME NEW y \in Decaying, F[y] # 0 PROVE \E k \in Q : d.entry[k].obj = y
    <3>1. y # o  BY <1>4, <2>2
    <3>2. PICK k \in P : c.entry[k].obj = y  BY <1>4, <2>2, <3>1 DEF Holds
    <3>3. k # i  BY <3>1, <3>2 DEF o
    <3> QED  BY <1>9, <3>2, <3>3
  <2>3. ASSUME NEW j \in Q, NEW k \in Q, d.entry[j].obj = d.entry[k].obj PROVE j = k
    <3>1. c.entry[j].obj = c.entry[k].obj  BY <1>9, <2>3
    <3> QED  BY <3>1 DEF Holds
  <2> QED  BY <2>1, <2>2, <2>3 DEF Holds
<1>12. ASSUME NEW k \in Q, d.entry[k].next # -1
       PROVE  LET j == d.entry[k].next
              IN /\ j \in Q /\ d.entry[j].prev = k /\ Hash(d.entry[j].obj) = Hash(d.entry[k].obj)
                 /\ r[d.entry[j].obj] < r[d.entry[k].obj]
  <2> DEFINE j == d.entry[k].next
  <2>1. CASE k = prev
    <3>1. j = next /\ prev # -1 /\ next # -1  BY <1>9, <1>12, <2>1
    <3>2. j \in Q /\ d.entry[j].prev = k  BY <1>5, <1>7, <1>9, <2>1, <3>1
    <3>3. Hash(d.entry[j].obj) = Hash(o) /\ Hash(d.entry[k].obj) = Hash(o)  BY <1>5, <1>6, <1>9, <2>1, <3>1
    <3>4. r[c.entry[next].obj] < r[o] /\ r[o] < r[c.entry[prev].obj]  BY <1>5, <1>6, <3>1
    <3>5. r[c.entry[next].obj] \in Nat /\ r[o] \in Nat /\ r[c.entry[prev].obj] \in Nat  BY <1>3, <1>5, <1>8, <3>1
    <3>6. d.entry[j].obj = c.entry[next].obj /\ d.entry[k].obj = c.entry[prev].obj  BY <1>5, <1>9, <2>1, <3>1
    <3> QED  BY <3>2, <3>3, <3>4, <3>5, <3>6
  <2>2. CASE k # prev
    <3>1. j = c.entry[k].next /\ j # -1  BY <1>9, <1>12, <2>2
    <3>2. /\ j \in P /\ c.entry[j].prev = k /\ Hash(c.entry[j].obj) = Hash(c.entry[k].obj)
          /\ r[c.entry[j].obj] < r[c.entry[k].obj]
      BY <3>1 DEF Linked
    <3>3. j # i  BY <1>10, <2>2, <3>1
    <3>4. j # next  BY <1>5, <3>1, <3>2
    <3> QED  BY <1>9, <3>1, <3>2, <3>3, <3>4
  <2> QED  BY <2>1, <2>2
<1>13. ASSUME NEW k \in Q, d.entry[k].prev # -1
       PROVE  d.entry[k].prev \in Q /\ d.entry[d.entry[k].prev].next = k
  <2>1. CASE k = next
    <3>1. d.entry[k].prev = prev /\ prev # -1  BY <1>9, <1>13, <2>1
    <3> QED  BY <1>5, <1>7, <1>9, <2>1, <3>1
  <2>2. CASE k # next
    <3> DEFINE j == c.entry[k].prev
    <3>1. d.entry[k].prev = j /\ j # -1  BY <1>9, <1>13, <2>2
    <3>2. j \in P /\ c.entry[j].next = k  BY <3>1 DEF Linked
    <3>3. j # i  BY <1>10, <2>2
    <3>4. j # prev  BY <1>5, <3>1, <3>2
    <3>5. d.entry[j].next = k  BY <1>9, <3>2, <3>4
    <3> QED  BY <3>1, <3>2, <3>3, <3>5
  <2> QED  BY <2>1, <2>2
<1>14. ASSUME NEW k \in Q, d.entry[k].prev = -1 PROVE d.table[Hash(d.entry[k].obj)] = k
  <2>1. d.entry[k].obj = c.entry[k].obj /\ Hash(c.entry[k].obj) \in 0..(Buckets - 1)  BY <1>3, <1>9
  <2>2. CASE k = next
    <3>1. prev = -1 /\ next # -1  BY <1>9, <1>14, <2>2
    <3>2. Hash(c.entry[k].obj) = Hash(o)  BY <1>5, <2>2, <3>1
    <3> QED  BY <1>2, <2>1, <2>2, <3>1, <3>2
  <2>3. CASE k # next
    <3>1. c.entry[k].prev = -1  BY <1>9, <1>14, <2>3
    <3>2. c.table[Hash(c.entry[k].obj)] = k  BY <3>1 DEF Linked
    <3>3. prev # -1 \/ Hash(c.entry[k].obj) # Hash(o)  BY <1>5, <3>2
    <3> QED  BY <1>2, <2>1, <3>2, <3>3
  <2> QED  BY <2>2, <2>3
<1>15. ASSUME NEW b \in 0..(Buckets - 1), d.table[b] # -1
       PROVE  d.table[b] \in Q /\ d.entry[d.table[b]].prev = -1 /\ Hash(d.entry[d.table[b]].obj) = b
  <2>1. CASE prev = -1 /\ b = Hash(o)
    <3>1. d.table[b] = next /\ next # -1  BY <1>2, <1>15, <2>1
    <3> QED  BY <1>5, <1>7, <1>9, <2>1, <3>1
  <2>2. CASE ~(prev = -1 /\ b = Hash(o))
    <3> DEFINE k == c.table[b]
    <3>1. d.table[b] = k  BY <1>2, <2>2
    <3>2. k \in P /\ c.entry[k].prev = -1 /\ Hash(c.entry[k].obj) = b  BY <1>15, <3>1 DEF Linked
    <3>3. k # i  BY <2>2, <3>2 DEF prev, o
    <3>4. k # next  BY <1>5, <1>8, <1>9, <3>2
    <3> QED  BY <1>9, <3>1, <3>2, <3>3, <3>4
  <2> QED  BY <2>1, <2>2
<1>16. Linked(d, Q, r)  BY <1>12, <1>13, <1>14, <1>15 DEF Linked
<1> QED  BY <1>9, <1>11, <1>16 DEF F, o, Spliced

\* CronDelete.
LEMMA CronDeleteResult ==
    ASSUME CronAssumption, NEW c, NEW n \in 0..CronSize, NEW r \in [Decaying -> Nat], NEW E \in [Decaying -> Nat],
           Ordered(c, n, r, E), NEW i \in 1..n
    PROVE  Ordered(CronDelete(c, i), n - 1, r, [E EXCEPT ![c.entry[i].obj] = 0])
<1> DEFINE e == c.entry[i]
           f == Relink(c, e, e.prev, e.next)
           d == [f EXCEPT !.entries = n - 1]
           F == [E EXCEPT ![c.entry[i].obj] = 0]
           P == 1..n
           Q == P \ {i}
           m == n - 1
<1>1. c \in CronState /\ c.entries = n /\ Linked(c, P, r) /\ Holds(c, P, E) /\ Heap(c)  BY DEF Ordered
<1>2. /\ CronSize \in Nat /\ n \in Nat /\ n <= CronSize /\ m \in Nat /\ m \in 0..CronSize /\ n \in 1..n /\ n \in 0..CronSize
      /\ i \in 0..CronSize
  BY CronNumbers
<1>3. P \in SUBSET (0..CronSize) /\ i \in P  BY <1>2
<1>4. e \in CronEntry /\ e.prev \in Link /\ e.next \in Link  BY <1>1, <1>2 DEF CronState, CronEntry
<1>5. Relinked(c, f, e, e.prev, e.next)  BY <1>1, <1>4, RelinkStep
<1> HIDE DEF P, f
<1>6. Spliced(c, f, P, Q, r, F)  BY <1>1, <1>3, <1>5, RemoveStep, Zenon
<1>7. f \in CronState /\ f.entries = n  BY <1>1, <1>5 DEF Relinked
<1>8. d \in CronState /\ d.entries = m /\ d.entry = f.entry /\ d.table = f.table  BY <1>2, <1>7, SetEntries
<1>9. CronDelete(c, i) = IF i = n THEN d ELSE CronHeapify(CronMove(d, i, n), i)
  BY <1>1, <1>7 DEF CronDelete, f
<1> HIDE DEF d, F, Q
<1>10. Linked(f, Q, r) /\ Holds(f, Q, F) /\ \A k \in Q : f.entry[k].round = c.entry[k].round
  <2>1. \A k \in Q : k \in P \cap Q  BY DEF Q
  <2> QED  BY <1>6, <2>1 DEF Spliced
<1>11. Linked(d, Q, r) /\ Holds(d, Q, F) /\ \A k \in Q : d.entry[k].round = c.entry[k].round
  BY <1>8, <1>10, SameEntries
<1>12. \A k \in 1..c.entries : c.entry[k].round \in Nat  BY <1>1, RoundsType
<1>13. CASE i = n
  <2>1. Q = 1..m  BY <1>2, <1>13 DEF P, Q
  <2>2. Heap(d)
    <3> SUFFICES ASSUME NEW k \in 2..m PROVE d.entry[k \div 2].round <= d.entry[k].round
      BY <1>8 DEF Heap
    <3>1. k \in Nat /\ k >= 2 /\ k <= m  BY <1>2
    <3>2. k \in 1..m /\ k \div 2 \in 1..m /\ k \in 2..n  BY <1>2, <3>1, Halves
    <3>3. c.entry[k \div 2].round <= c.entry[k].round  BY <1>1, <3>2 DEF Heap
    <3> QED  BY <1>11, <2>1, <3>2, <3>3
  <2>3. Ordered(d, m, r, F)  BY <1>8, <1>11, <2>1, <2>2 DEF Ordered
  <2> QED  BY <1>9, <1>13, <2>3 DEF F
<1>14. CASE i # n
  <2> DEFINE g == CronMove(d, i, n)
             S == (Q \ {n}) \cup {i}
  <2>1. n \in Q /\ i \in (0..CronSize) \ Q /\ Q \in SUBSET (0..CronSize) /\ i \in 1..m  BY <1>2, <1>14 DEF P, Q
  <2>2. S = 1..m /\ \A k \in 1..m : k # i => k \in Q \ {n}  BY <1>2, <1>14 DEF P, Q
  <2>3. Moved(d, g, i, n, Q, S, r, F)  BY <1>8, <1>11, <2>1, CronMoveStep, Zenon
  <2> HIDE DEF g, S
  <2>4. /\ g \in CronState /\ g.entries = m /\ Linked(g, S, r) /\ Holds(g, S, F)
        /\ \A k \in Q \ {n} : g.entry[k].round = d.entry[k].round
    BY <1>8, <2>3 DEF Moved
  <2>5. \A k \in 1..m : k # i => g.entry[k].round = c.entry[k].round  BY <1>11, <2>2, <2>4
  <2>6. HeapBut(g, i)
    <3>1. m <= c.entries /\ c.entries \in Nat  BY <1>1, <1>2
    <3> HIDE DEF m
    <3> QED  BY <1>1, <1>2, <1>12, <2>1, <2>4, <2>5, <3>1, HeapChanged
  <2>7. Heaping(g, i, m, r, F)  BY <2>1, <2>2, <2>4, <2>6 DEF Heaping
  <2>8. Ordered(CronHeapify(g, i), m, r, F)
    <3> HIDE DEF m
    <3> QED  BY <1>2, <2>7, HeapifyResult
  <2> QED  BY <1>9, <1>14, <2>8 DEF g, F
<1> QED  BY <1>13, <1>14

\* The first entry of a heap is due before all others.
LEMMA HeapFirst ==
    ASSUME CronAssumption, NEW c \in CronState, Heap(c)
    PROVE  \A k \in 1..c.entries : c.entry[1].round <= c.entry[k].round
<1>1. /\ c.entries \in Nat
      /\ \A k \in 1..c.entries : c.entry[k].round \in Nat
  BY RoundsType
<1> SUFFICES ASSUME NEW b \in 1..c.entries, ~(c.entry[1].round <= c.entry[b].round) PROVE FALSE
  OBVIOUS
<1> DEFINE T == {k \in 1..c.entries : ~(c.entry[1].round <= c.entry[k].round)}
<1>2. T \subseteq Nat /\ T # {}  BY <1>1
<1>3. \A k \in T : k \in 1..c.entries /\ ~(c.entry[1].round <= c.entry[k].round)  OBVIOUS
<1>4. \A k \in 1..c.entries : k \notin T => c.entry[1].round <= c.entry[k].round  OBVIOUS
<1> HIDE DEF T
<1>5. PICK x \in T : \A y \in T : x <= y  BY <1>2, LeastNumber
<1>6. x \in 1..c.entries /\ 1 \in 1..c.entries /\ ~(c.entry[1].round <= c.entry[x].round)  BY <1>1, <1>3
<1>7. x # 1 /\ x \in Nat /\ x >= 2  BY <1>1, <1>6
<1>8. x \div 2 \in Nat /\ x \div 2 >= 1 /\ x \div 2 < x  BY <1>7, Halves
<1>9. x \div 2 \in 1..c.entries /\ x \in 2..c.entries  BY <1>1, <1>6, <1>7, <1>8
<1>10. x \div 2 \notin T  BY <1>5, <1>7, <1>8
<1>11. c.entry[1].round <= c.entry[x \div 2].round  BY <1>4, <1>9, <1>10
<1>12. c.entry[x \div 2].round <= c.entry[x].round  BY <1>9 DEF Heap
<1> QED  BY <1>1, <1>6, <1>9, <1>11, <1>12

\* The search along a chain ends, and finds every entry where it is.
LEMMA PositionResult ==
    ASSUME CronAssumption, NEW n \in 0..CronSize, NEW B \in Nat, NEW r \in [Decaying -> 0..B], NEW E,
           Ordered(cron, n, r, E), Tidied(cron), NEW p \in 1..n
    PROVE  Position(cron.entry[p].obj) = p
<1> DEFINE P == 1..n
           o == cron.entry[p].obj
           Body(f, i) == IF i = -1 \/ cron.entry[i].obj = o THEN i ELSE f[cron.entry[i].next]
           X == {i \in Link : i = -1 \/ cron.entry[i].obj = o}
           next == [i \in Link \ X |-> cron.entry[i].next]
           m == [i \in Link |-> IF i = -1 THEN 0 ELSE IF i \in P THEN r[cron.entry[i].obj] + 1 ELSE 1]
           out == [i \in X |-> i]
<1>1. cron \in CronState /\ cron.entries = n /\ Linked(cron, P, r) /\ Holds(cron, P, E)  BY DEF Ordered
<1>2. CronSize \in Nat /\ n \in Nat /\ n <= CronSize  BY CronNumbers
<1>3. /\ \A i \in Link : i # -1 => i \in 0..CronSize /\ cron.entry[i] \in CronEntry
      /\ \A i \in P : i \in Link /\ i # -1
      /\ -1 \in Link
  <2>1. \A i \in 0..CronSize : cron.entry[i] \in CronEntry  BY <1>1 DEF CronState
  <2> QED  BY <1>2, <2>1 DEF Link
<1>4. \A i \in Link : i # -1 => cron.entry[i].next \in Link  BY <1>3 DEF CronEntry
<1>5. \A i \in P : cron.entry[i].obj \in Decaying /\ r[cron.entry[i].obj] \in Nat /\ r[cron.entry[i].obj] <= B
  BY <1>1 DEF Holds
<1>6. \A i \in Link : i # -1 /\ i \notin P => cron.entry[i].next = -1
  <2> SUFFICES ASSUME NEW i \in Link, i # -1, i \notin P PROVE cron.entry[i].next = -1
    OBVIOUS
  <2>1. i \in (0..CronSize) \ (1..cron.entries)  BY <1>1, <1>3
  <2>2. cron.entry[i] = NoEntry  BY <2>1 DEF Tidied
  <2> QED  BY <2>2 DEF NoEntry
<1>7. p \in P /\ o \in Decaying  BY <1>5
<1> HIDE DEF P
<1>8. Loop(Link, m, X, next)
  <2>1. m \in [Link -> Nat]  BY <1>5
  <2>2. next \in [Link \ X -> Link]  BY <1>4
  <2>3. ASSUME NEW i \in Link \ X PROVE m[next[i]] < m[i]
    <3> DEFINE j == cron.entry[i].next
    <3>1. i \in Link /\ i # -1 /\ next[i] = j /\ j \in Link  BY <1>4
    <3>2. CASE j = -1
      <4>1. m[j] = 0  BY <3>1, <3>2
      <4>2. m[i] \in Nat /\ m[i] # 0  BY <1>5, <3>1
      <4> HIDE DEF m, next, j
      <4> QED  BY <3>1, <4>1, <4>2
    <3>3. CASE j # -1
      <4>1. i \in P  BY <1>6, <3>1, <3>3
      <4>2. j \in P /\ r[cron.entry[j].obj] < r[cron.entry[i].obj]  BY <1>1, <3>3, <4>1 DEF Linked
      <4>3. m[j] = r[cron.entry[j].obj] + 1 /\ m[i] = r[cron.entry[i].obj] + 1
        BY <3>1, <3>3, <4>1, <4>2
      <4>4. r[cron.entry[j].obj] \in Nat /\ r[cron.entry[i].obj] \in Nat  BY <1>5, <4>1, <4>2
      <4> HIDE DEF m, next, j
      <4> QED  BY <3>1, <4>2, <4>3, <4>4
    <3> QED  BY <3>2, <3>3
  <2>4. X \subseteq Link  OBVIOUS
  <2> HIDE DEF m, next, X
  <2> QED  BY <2>1, <2>2, <2>3, <2>4 DEF Loop
<1>9. out \in [X -> Link]  OBVIOUS
<1>10. PICK f \in [Link -> Link] : \A i \in Link : f[i] = IF i \in X THEN out[i] ELSE f[next[i]]
  <2> HIDE DEF X, m, next, out
  <2> QED  BY <1>8, <1>9, LoopEnds
<1>11. f = [i \in Link |-> Body(f, i)]
  <2>1. ASSUME NEW i \in Link PROVE f[i] = Body(f, i)
    <3>1. CASE i \in X
      <4>1. f[i] = out[i]  BY <1>10, <3>1
      <4> QED  BY <3>1, <4>1
    <3>2. CASE i \notin X
      <4>1. f[i] = f[next[i]] /\ next[i] = cron.entry[i].next  BY <1>10, <3>2
      <4> QED  BY <3>2, <4>1
    <3> QED  BY <3>1, <3>2
  <2> HIDE DEF Body
  <2> QED  BY <1>10, <2>1
<1>12. \E g : g = [i \in Link |-> Body(g, i)] /\ Position(o) = g[cron.table[Hash(o)]]
  BY <1>11, Zenon DEF Position
<1>13. PICK g : g = [i \in Link |-> Body(g, i)] /\ Position(o) = g[cron.table[Hash(o)]]
  BY <1>12
<1> HIDE DEF o
<1>14. ASSUME NEW i \in P
       PROVE  /\ cron.entry[i].obj = o => g[i] = i
              /\ cron.entry[i].obj # o => g[i] = g[cron.entry[i].next]
  <2>1. i \in Link /\ i # -1  BY <1>3
  <2>2. g[i] = Body(g, i)  BY <1>13, <2>1
  <2> QED  BY <2>1, <2>2
\* The entries of the chain from which the search finds p.
<1> DEFINE S == {k \in P : g[k] = p /\ Hash(cron.entry[k].obj) = Hash(o)}
           T == {B - r[cron.entry[k].obj] : k \in S}
<1>15. p \in S  BY <1>7, <1>14 DEF o
<1>16. ASSUME NEW k \in S, cron.entry[k].prev # -1
       PROVE  \E j \in S : r[cron.entry[k].obj] < r[cron.entry[j].obj]
  <2> DEFINE j == cron.entry[k].prev
  <2>1. k \in P /\ k # -1 /\ g[k] = p /\ Hash(cron.entry[k].obj) = Hash(o)  BY <1>3
  <2>2. j \in P /\ cron.entry[j].next = k  BY <1>1, <1>16, <2>1 DEF Linked
  <2>3. Hash(cron.entry[k].obj) = Hash(cron.entry[j].obj) /\ r[cron.entry[k].obj] < r[cron.entry[j].obj]
    BY <1>1, <2>1, <2>2 DEF Linked
  <2>4. g[j] = p
    <3>1. CASE cron.entry[j].obj = o
      <4>1. j = p  BY <1>1, <1>7, <2>2, <3>1 DEF Holds, o
      <4> QED  BY <1>14, <2>2, <3>1, <4>1
    <3>2. CASE cron.entry[j].obj # o  BY <1>14, <2>1, <2>2, <3>2
    <3> QED  BY <3>1, <3>2
  <2>5. j \in S  BY <2>1, <2>2, <2>3, <2>4
  <2> HIDE DEF S, j
  <2> QED  BY <2>3, <2>5
<1>17. \A k \in S : k \in P /\ g[k] = p /\ Hash(cron.entry[k].obj) = Hash(o)  OBVIOUS
<1> HIDE DEF S
<1>18. T \subseteq Nat /\ T # {}  BY <1>5, <1>15, <1>17
<1>19. PICK x \in T : \A y \in T : x <= y
  <2> HIDE DEF T
  <2> QED  BY <1>18, LeastNumber
<1>20. PICK k \in S : x = B - r[cron.entry[k].obj]  BY <1>19
<1>21. \A j \in S : B - r[cron.entry[k].obj] <= B - r[cron.entry[j].obj]  BY <1>19, <1>20
<1>22. cron.entry[k].prev = -1
  <2> SUFFICES ASSUME cron.entry[k].prev # -1 PROVE FALSE
    OBVIOUS
  <2>1. PICK j \in S : r[cron.entry[k].obj] < r[cron.entry[j].obj]  BY <1>16
  <2>2. r[cron.entry[k].obj] \in Nat /\ r[cron.entry[j].obj] \in Nat  BY <1>5, <1>17
  <2> QED  BY <1>21, <2>1, <2>2
<1>23. cron.table[Hash(cron.entry[k].obj)] = k  BY <1>1, <1>17, <1>22 DEF Linked
<1> QED  BY <1>13, <1>17, <1>23 DEF o

-----------------------------------------------------------------------------
(* The invariant of the cron system.                                       *)

Expiring(E) == {o \in Decaying : E[o] # 0}

\* Chains, contents and heap are in order, for some ranks of the objects; an
\* object that is entered gets the highest.
CronInv ==
    /\ cron \in CronState /\ roundNr \in Nat \ {0} /\ expires \in [Decaying -> Nat]
    /\ cron.entries = Cardinality(Expiring(expires))
    /\ \E B \in Nat : \E r \in [Decaying -> 0..B] : Ordered(cron, cron.entries, r, expires)
    /\ Tidied(cron)

\* An empty system is in order.
LEMMA CronStart == CronAssumption /\ CronInit => CronInv
<1> SUFFICES ASSUME CronAssumption, CronInit PROVE CronInv
  OBVIOUS
<1>1. CronSize \in Nat /\ Buckets \in Nat \ {0}  BY CronNumbers
<1>2. NoEntry \in CronEntry /\ -1 \in Link
  <2>1. -1 \in Link  BY <1>1 DEF Link
  <2> QED  BY <2>1 DEF NoEntry, CronEntry
<1>3. cron \in CronState /\ cron.entries = 0  BY <1>1, <1>2 DEF CronInit, CronState
<1>4. roundNr \in Nat \ {0} /\ expires \in [Decaying -> Nat] /\ \A o \in Decaying : expires[o] = 0  BY DEF CronInit
<1>5. Expiring(expires) = {} /\ Cardinality({}) = 0  BY <1>4, FS_EmptySet DEF Expiring
<1>6. Tidied(cron)  BY DEF CronInit, Tidied
<1>7. Ordered(cron, 0, [o \in Decaying |-> 0], expires)
  <2>1. 1..0 = {} /\ 2..0 = {}  OBVIOUS
  <2>2. \A b \in 0..(Buckets - 1) : cron.table[b] = -1  BY DEF CronInit
  <2>3. Linked(cron, 1..0, [o \in Decaying |-> 0])  BY <2>1, <2>2 DEF Linked
  <2>4. Holds(cron, 1..0, expires)  BY <1>4, <2>1 DEF Holds
  <2>5. Heap(cron)  BY <1>3, <2>1 DEF Heap
  <2> QED  BY <1>3, <2>3, <2>4, <2>5 DEF Ordered
<1>8. \E B \in Nat : \E r \in [Decaying -> 0..B] : Ordered(cron, cron.entries, r, expires)
  <2>1. 0 \in Nat /\ [o \in Decaying |-> 0] \in [Decaying -> 0..0]  OBVIOUS
  <2> QED  BY <1>3, <1>7, <2>1
<1> QED  BY <1>3, <1>4, <1>5, <1>6, <1>8 DEF CronInv

\* The objects that have to expire can be counted.
LEMMA ExpiringFinite ==
    ASSUME CronAssumption, NEW E
    PROVE  IsFiniteSet(Expiring(E)) /\ Cardinality(Expiring(E)) \in Nat
<1>1. Expiring(E) \subseteq Decaying /\ IsFiniteSet(Decaying)  BY DEF Expiring, CronAssumption
<1>2. IsFiniteSet(Expiring(E))  BY <1>1, FS_Subset
<1> QED  BY <1>2, FS_CardinalityType

\* A state in which all is in order.
LEMMA InOrder ==
    ASSUME CronAssumption, NEW c, NEW B \in Nat, NEW r \in [Decaying -> 0..B], NEW E \in [Decaying -> Nat],
           NEW n \in 0..CronSize, Ordered(c, n, r, E), n = Cardinality(Expiring(E)),
           cron' = Tidy(c), expires' = E, roundNr' \in Nat \ {0}
    PROVE  CronInv'
<1>1. Ordered(cron', n, r, E) /\ Tidied(cron')  BY TidyStep
<1>2. cron' \in CronState /\ cron'.entries = n  BY <1>1 DEF Ordered
<1>3. \E b \in Nat : \E q \in [Decaying -> 0..b] : Ordered(cron', cron'.entries, q, expires')  BY <1>1, <1>2
<1> QED  BY <1>1, <1>2, <1>3 DEF CronInv

\* cron_expire finds a free entry and enters the object.
LEMMA CronExpireStep ==
    ASSUME CronAssumption, CronInv, NEW o \in Decaying, NEW delay \in Delays, cron_expire(o, delay)
    PROVE  CronInv'
<1> DEFINE n == cron.entries
           E == expires'
<1>1. /\ cron \in CronState /\ roundNr \in Nat \ {0} /\ expires \in [Decaying -> Nat]
      /\ n = Cardinality(Expiring(expires)) /\ expires[o] = 0 /\ delay \in Nat
      /\ cron' = Tidy(CronSet(cron, o, delay)) /\ E = [expires EXCEPT ![o] = roundNr + delay] /\ roundNr' = roundNr
  BY DEF CronInv, cron_expire, CronAssumption
<1>2. PICK B \in Nat : \E r \in [Decaying -> 0..B] : Ordered(cron, n, r, expires)  BY DEF CronInv
<1>3. PICK r \in [Decaying -> 0..B] : Ordered(cron, n, r, expires)  BY <1>2
<1>4. E \in [Decaying -> Nat] /\ Expiring(E) = Expiring(expires) \cup {o} /\ o \notin Expiring(expires)
  <2>1. E \in [Decaying -> Nat] /\ E[o] # 0 /\ \A y \in Decaying : y # o => E[y] = expires[y]  BY <1>1
  <2> HIDE DEF E
  <2> QED  BY <1>1, <2>1 DEF Expiring
<1>5. Cardinality(Expiring(E)) = n + 1 /\ n \in 0..CronSize /\ n < CronSize /\ n + 1 \in 0..CronSize
  <2>1. IsFiniteSet(Expiring(expires))  BY ExpiringFinite
  <2>2. Cardinality(Expiring(E)) = n + 1
    <3> DEFINE W == Expiring(expires)
    <3>1. IsFiniteSet(W) /\ o \notin W  BY <1>4, <2>1
    <3> HIDE DEF W
    <3>2. Cardinality(W \cup {o}) = Cardinality(W) + 1  BY <3>1, FS_AddElement
    <3> QED  BY <1>1, <1>4, <3>2 DEF W
  <2>3. Expiring(E) \subseteq Decaying /\ IsFiniteSet(Decaying)  BY DEF Expiring, CronAssumption
  <2>4. Cardinality(Expiring(E)) <= CronSize  BY <2>3, FS_Subset DEF CronSize
  <2>5. n \in Nat /\ CronSize \in Nat  BY <1>1, RoundsType, CronNumbers
  <2> QED  BY <2>2, <2>4, <2>5
<1> DEFINE q == [r EXCEPT ![o] = B + 1]
<1>6. Ordered(CronSet(cron, o, delay), n + 1, q, E)  BY <1>1, <1>3, <1>5, CronSetResult
<1>7. q \in [Decaying -> 0..(B + 1)] /\ B + 1 \in Nat  OBVIOUS
<1> HIDE DEF q
<1> QED  BY <1>1, <1>4, <1>5, <1>6, <1>7, InOrder

\* The object is found.
LEMMA Found ==
    ASSUME CronAssumption, CronInv, NEW o \in Decaying, expires[o] # 0
    PROVE  /\ Position(o) \in 1..cron.entries /\ Position(o) # -1
           /\ cron.entry[Position(o)].obj = o /\ cron.entries \in 0..CronSize
<1> DEFINE n == cron.entries
<1>1. cron \in CronState /\ Tidied(cron)  BY DEF CronInv
<1>2. n \in Nat /\ n \in 0..CronSize  BY <1>1, RoundsType, CronNumbers
<1>3. PICK B \in Nat : \E r \in [Decaying -> 0..B] : Ordered(cron, n, r, expires)  BY DEF CronInv
<1>4. PICK r \in [Decaying -> 0..B] : Ordered(cron, n, r, expires)  BY <1>3
<1>5. PICK p \in 1..n : cron.entry[p].obj = o  BY <1>4 DEF Ordered, Holds
<1>6. Position(cron.entry[p].obj) = p  BY <1>1, <1>2, <1>4, PositionResult
<1> QED  BY <1>2, <1>5, <1>6

\* cron_change moves the entry of the object.
LEMMA CronChangeStep ==
    ASSUME CronAssumption, CronInv, NEW o \in Decaying, NEW delay \in Delays, cron_change(o, delay)
    PROVE  CronInv'
<1> DEFINE n == cron.entries
           E == expires'
           i == Position(o)
           x == roundNr + delay
<1>1. /\ cron \in CronState /\ roundNr \in Nat \ {0} /\ expires \in [Decaying -> Nat]
      /\ n = Cardinality(Expiring(expires)) /\ expires[o] # 0 /\ delay \in Nat
      /\ E = [expires EXCEPT ![o] = x] /\ roundNr' = roundNr
  BY DEF CronInv, cron_change, CronAssumption
<1>2. i \in 1..n /\ i # -1 /\ cron.entry[i].obj = o /\ n \in 0..CronSize  BY <1>1, Found
<1>3. cron' = Tidy(CronHeapify([cron EXCEPT !.entry[i].round = x], i))  BY <1>2 DEF cron_change
<1>4. PICK B \in Nat : \E r \in [Decaying -> 0..B] : Ordered(cron, n, r, expires)  BY DEF CronInv
<1>5. PICK r \in [Decaying -> 0..B] : Ordered(cron, n, r, expires)  BY <1>4
<1>6. E \in [Decaying -> Nat] /\ Expiring(E) = Expiring(expires)
  <2>1. E \in [Decaying -> Nat] /\ E[o] # 0 /\ \A y \in Decaying : y # o => E[y] = expires[y]  BY <1>1
  <2> HIDE DEF E
  <2> QED  BY <1>1, <2>1 DEF Expiring
<1>7. x \in Nat \ {0} /\ r \in [Decaying -> Nat]  BY <1>1
<1> HIDE DEF i, x, n
<1>8. Ordered(CronHeapify([cron EXCEPT !.entry[i].round = x], i), n, r, [expires EXCEPT ![cron.entry[i].obj] = x])
  BY <1>1, <1>2, <1>5, <1>7, ChangeResult, Zenon
<1>9. Ordered(CronHeapify([cron EXCEPT !.entry[i].round = x], i), n, r, E)  BY <1>1, <1>2, <1>8
<1> HIDE DEF E
<1> QED  BY <1>1, <1>2, <1>3, <1>5, <1>6, <1>9, InOrder DEF E

\* cron_stop removes the entry of the object.
LEMMA CronStopStep ==
    ASSUME CronAssumption, CronInv, NEW o \in Decaying, cron_stop(o)
    PROVE  CronInv'
<1> DEFINE n == cron.entries
           E == expires'
           i == Position(o)
<1>1. /\ cron \in CronState /\ roundNr \in Nat \ {0} /\ expires \in [Decaying -> Nat]
      /\ n = Cardinality(Expiring(expires)) /\ expires[o] # 0
      /\ E = [expires EXCEPT ![o] = 0] /\ roundNr' = roundNr
  BY DEF CronInv, cron_stop
<1>2. i \in 1..n /\ i # -1 /\ cron.entry[i].obj = o /\ n \in 0..CronSize  BY <1>1, Found
<1>3. cron' = Tidy(CronDelete(cron, i))  BY <1>2 DEF cron_stop
<1>4. PICK B \in Nat : \E r \in [Decaying -> 0..B] : Ordered(cron, n, r, expires)  BY DEF CronInv
<1>5. PICK r \in [Decaying -> 0..B] : Ordered(cron, n, r, expires)  BY <1>4
<1>6. E \in [Decaying -> Nat] /\ Expiring(E) = Expiring(expires) \ {o} /\ o \in Expiring(expires)
  <2>1. E \in [Decaying -> Nat] /\ E[o] = 0 /\ \A y \in Decaying : y # o => E[y] = expires[y]  BY <1>1
  <2> HIDE DEF E
  <2> QED  BY <1>1, <2>1 DEF Expiring
<1>7. Cardinality(Expiring(E)) = n - 1 /\ n - 1 \in 0..CronSize
  <2>1. IsFiniteSet(Expiring(expires))  BY ExpiringFinite
  <2>2. Cardinality(Expiring(E)) = n - 1
    <3> DEFINE W == Expiring(expires)
    <3>1. IsFiniteSet(W) /\ o \in W  BY <1>6, <2>1
    <3> HIDE DEF W
    <3>2. Cardinality(W \ {o}) = Cardinality(W) - 1  BY <3>1, FS_RemoveElement
    <3> QED  BY <1>1, <1>6, <3>2 DEF W
  <2>3. n \in Nat /\ CronSize \in Nat /\ n # 0 /\ n <= CronSize  BY <1>1, <1>2, RoundsType, CronNumbers
  <2> QED  BY <2>2, <2>3
<1>8. r \in [Decaying -> Nat]  OBVIOUS
<1> HIDE DEF i, n
<1>9. Ordered(CronDelete(cron, i), n - 1, r, [expires EXCEPT ![cron.entry[i].obj] = 0])
  BY <1>1, <1>2, <1>5, <1>8, CronDeleteResult, Zenon
<1>10. Ordered(CronDelete(cron, i), n - 1, r, E)  BY <1>1, <1>2, <1>9
<1> HIDE DEF E
<1> QED  BY <1>1, <1>3, <1>5, <1>6, <1>7, <1>10, InOrder DEF E

\* Every step keeps the invariant; in CronRound the first of the heap stops.
LEMMA CronStep == CronAssumption /\ CronInv /\ [CronNext]_cronVars => CronInv'
<1> SUFFICES ASSUME CronAssumption, CronInv, [CronNext]_cronVars PROVE CronInv'
  OBVIOUS
<1>1. CASE UNCHANGED cronVars
  <2>1. cron' = cron /\ roundNr' = roundNr /\ expires' = expires  BY <1>1 DEF cronVars
  <2> QED  BY <2>1 DEF CronInv
<1>2. CASE CronRound
  <2>1. CASE cron_check # 0
    <3>1. cron.entries # 0 /\ cron_check = cron.entry[1].obj /\ cron_stop(cron_check)
      BY <1>2, <2>1 DEF CronRound, cron_check
    <3>2. cron \in CronState /\ 1 \in 1..cron.entries
      <4>1. cron \in CronState  BY DEF CronInv
      <4>2. cron.entries \in Nat  BY <4>1, RoundsType
      <4> QED  BY <3>1, <4>1, <4>2
    <3>3. cron.entry[1].obj \in Decaying
      <4>1. Holds(cron, 1..cron.entries, expires)  BY DEF CronInv, Ordered
      <4> QED  BY <3>2, <4>1 DEF Holds
    <3> QED  BY <3>1, <3>3, CronStopStep
  <2>2. CASE cron_check = 0
    <3>1. roundNr' = roundNr + 1 /\ cron' = cron /\ expires' = expires  BY <1>2, <2>2 DEF CronRound
    <3>2. roundNr' \in Nat \ {0}  BY <3>1 DEF CronInv
    <3> QED  BY <3>1, <3>2 DEF CronInv
  <2> QED  BY <2>1, <2>2
<1>3. CASE \E o \in Decaying : cron_stop(o) \/ \E d \in Delays : cron_expire(o, d) \/ cron_change(o, d)
  <2>1. PICK o \in Decaying : cron_stop(o) \/ \E d \in Delays : cron_expire(o, d) \/ cron_change(o, d)  BY <1>3
  <2> QED  BY <2>1, CronStopStep, CronExpireStep, CronChangeStep
<1> QED  BY <1>1, <1>2, <1>3 DEF CronNext

\* The invariant says what CronOrdered does: a search finds every entry.
LEMMA CronInvOrdered ==
    ASSUME CronAssumption, CronInv
    PROVE  CronOrdered
<1> DEFINE n == cron.entries
<1>1. cron \in CronState /\ Tidied(cron) /\ n = Cardinality(Expiring(expires))  BY DEF CronInv
<1>2. n \in Nat /\ n \in 0..CronSize  BY <1>1, RoundsType, CronNumbers
<1>3. PICK B \in Nat : \E r \in [Decaying -> 0..B] : Ordered(cron, n, r, expires)  BY DEF CronInv
<1>4. PICK r \in [Decaying -> 0..B] : Ordered(cron, n, r, expires)  BY <1>3
<1>5. Linked(cron, 1..n, r) /\ Holds(cron, 1..n, expires) /\ Heap(cron)  BY <1>4 DEF Ordered
<1>6. {<<cron.entry[i].obj, cron.entry[i].round>> : i \in 1..n}
        = {<<o, expires[o]>> : o \in {o \in Decaying : expires[o] # 0}}
  <2>1. ASSUME NEW i \in 1..n
        PROVE  /\ cron.entry[i].obj \in Decaying /\ expires[cron.entry[i].obj] # 0
               /\ cron.entry[i].round = expires[cron.entry[i].obj]
    BY <1>5 DEF Holds
  <2>2. ASSUME NEW o \in Decaying, expires[o] # 0
        PROVE  \E i \in 1..n : cron.entry[i].obj = o /\ cron.entry[i].round = expires[o]
    <3>1. PICK i \in 1..n : cron.entry[i].obj = o  BY <1>5, <2>2 DEF Holds
    <3> QED  BY <2>1, <3>1
  <2> HIDE DEF n
  <2> QED  BY <2>1, <2>2
<1>7. ASSUME NEW i \in 1..n
      PROVE  /\ Position(cron.entry[i].obj) = i
             /\ cron.entry[i].next # -1 => cron.entry[cron.entry[i].next].prev = i
             /\ cron.entry[1].round <= cron.entry[i].round
  <2>1. Position(cron.entry[i].obj) = i  BY <1>1, <1>2, <1>4, PositionResult
  <2>2. cron.entry[i].next # -1 => cron.entry[cron.entry[i].next].prev = i  BY <1>5 DEF Linked
  <2>3. cron.entry[1].round <= cron.entry[i].round  BY <1>1, <1>5, HeapFirst
  <2> QED  BY <2>1, <2>2, <2>3
<1> QED  BY <1>1, <1>6, <1>7 DEF CronOrdered, Expiring

\* Whatever is entered, changed, stopped or expires: the entries are those of
\* the objects that have to expire, each is found through its bucket and its
\* chain is mended both ways, and the first of the heap is due before all
\* others (CronSet, CronDelete, CronMove and CronHeapify of map.cpp).
THEOREM CronKept == CronAssumption /\ CronSpec => []CronOrdered
<1>1. CronAssumption /\ CronInit => CronInv  BY CronStart
<1>2. CronAssumption /\ CronInv /\ [CronNext]_cronVars => CronInv'  BY CronStep
<1>3. CronAssumption /\ CronInv => CronOrdered  BY CronInvOrdered
<1>4. CronAssumption => CronAssumption'  BY DEF CronAssumption
<1> QED  BY <1>1, <1>2, <1>3, <1>4, PTL DEF CronSpec

-----------------------------------------------------------------------------
(***************************************************************************)
(* The conversation of an NPC, for any number of visitors.  What an NPC is *)
(* in is Sound where the players are: it has promised to become idle when  *)
(* it takes its leave, and those it talks to and those who wait are near.  *)
(* Every operation on its list keeps this; what starts the list, or makes  *)
(* the NPC yield, leaves it with a list that is being executed.            *)
(***************************************************************************)

NpcRecord ==
    [State : {"SLEEPING", "IDLE", "TALKING", "LEAVING"}, Interlocutor : Visitor \cup {Nobody},
     queue : Seq(Visitor), list : Seq({"Wait", "Talk", "Go", "Idle"}), LockToDo : BOOLEAN]

Places == [Visitor -> {"near", "sight", "gone"}]

Promised(n) == n.State = "LEAVING" => Contains(n.list, "Idle")
Heard(n, where) == n.State = "TALKING" => n.Interlocutor \in Visitor /\ where[n.Interlocutor] = "near"
InLine(queue, where) == IsInjective(queue) /\ \A i \in DOMAIN queue : where[queue[i]] = "near"
Attentive(n) == n.State # "SLEEPING" => n.LockToDo

Sound(n, where) ==
    n \in NpcRecord /\ Promised(n) /\ Heard(n, where) /\ InLine(n.queue, where)

NpcInv == place \in Places /\ Sound(npc, place) /\ Attentive(npc)

LEMMA NpcFields ==
    ASSUME NEW n \in NpcRecord
    PROVE  /\ n.State \in {"SLEEPING", "IDLE", "TALKING", "LEAVING"}
           /\ n.Interlocutor \in Visitor \cup {Nobody} /\ n.queue \in Seq(Visitor)
           /\ n.list \in Seq({"Wait", "Talk", "Go", "Idle"}) /\ n.LockToDo \in BOOLEAN
BY DEF NpcRecord

LEMMA AppendHolds ==
    ASSUME NEW S, NEW s \in Seq(S), NEW e \in S, NEW d
    PROVE  Contains(Append(s, e), d) <=> Contains(s, d) \/ d = e
BY DEF Contains

\* Clearing the list makes the change of state that was promised.
LEMMA ClearListStep ==
    ASSUME NEW n \in NpcRecord
    PROVE  /\ ClearList(n) \in NpcRecord
           /\ ClearList(n).Interlocutor = n.Interlocutor /\ ClearList(n).queue = n.queue
           /\ ClearList(n).list = <<>> /\ ClearList(n).LockToDo = FALSE
           /\ ClearList(n).State \in {"IDLE", n.State}
           /\ Promised(n) => ClearList(n).State # "LEAVING"
<1> DEFINE s == IF Contains(n.list, "Idle") THEN "IDLE" ELSE n.State
           r == [n EXCEPT !.list = <<>>, !.LockToDo = FALSE, !.State = s]
<1>1. ClearList(n) = r  BY DEF ClearList
<1>2. s \in {"SLEEPING", "IDLE", "TALKING", "LEAVING"} /\ s \in {"IDLE", n.State} /\ (Promised(n) => s # "LEAVING")
  BY NpcFields DEF Promised
<1>3. <<>> \in Seq({"Wait", "Talk", "Go", "Idle"})  OBVIOUS
<1> HIDE DEF s
<1>4. /\ r \in NpcRecord /\ r.Interlocutor = n.Interlocutor /\ r.queue = n.queue
      /\ r.list = <<>> /\ r.LockToDo = FALSE /\ r.State = s
  BY <1>2, <1>3 DEF NpcRecord
<1> HIDE DEF r
<1> QED  BY <1>1, <1>2, <1>4

\* An entry is added to the list, or is all of a new one.
LEMMA AddEntryStep ==
    ASSUME NEW n \in NpcRecord, NEW e \in {"Wait", "Talk", "Go", "Idle"}
    PROVE  /\ AddEntry(n, e) \in NpcRecord
           /\ AddEntry(n, e).Interlocutor = n.Interlocutor /\ AddEntry(n, e).queue = n.queue
           /\ AddEntry(n, e).list # <<>> /\ AddEntry(n, e).LockToDo = FALSE
           /\ AddEntry(n, e).State \in {"IDLE", n.State}
           /\ Promised(n) => Promised(AddEntry(n, e))
           /\ ~n.LockToDo => AddEntry(n, e).State = n.State
           /\ ~n.LockToDo /\ e = "Idle" => Promised(AddEntry(n, e))
<1> DEFINE m == IF n.LockToDo THEN ClearList(n) ELSE n
<1>1. AddEntry(n, e) = [m EXCEPT !.list = Append(m.list, e)]  BY DEF AddEntry
<1>2. m \in NpcRecord /\ m.Interlocutor = n.Interlocutor /\ m.queue = n.queue /\ m.LockToDo = FALSE
  BY ClearListStep, NpcFields
<1>3. m.State \in {"IDLE", n.State} /\ (Promised(n) => Promised(m)) /\ (~n.LockToDo => m = n)
  BY ClearListStep, NpcFields DEF Promised
<1> HIDE DEF m
<1>4. m.list \in Seq({"Wait", "Talk", "Go", "Idle"})  BY <1>2, NpcFields
<1>5. Append(m.list, e) \in Seq({"Wait", "Talk", "Go", "Idle"}) /\ Append(m.list, e) # <<>>  BY <1>4
<1>6. Contains(Append(m.list, e), "Idle") <=> Contains(m.list, "Idle") \/ "Idle" = e
  BY <1>4, AppendHolds
<1> DEFINE r == [m EXCEPT !.list = Append(m.list, e)]
<1>7. /\ r \in NpcRecord /\ r.Interlocutor = m.Interlocutor /\ r.queue = m.queue
      /\ r.list = Append(m.list, e) /\ r.LockToDo = m.LockToDo /\ r.State = m.State
  BY <1>2, <1>5 DEF NpcRecord
<1> HIDE DEF r
<1>8. Promised(m) => Promised(r)  BY <1>6, <1>7 DEF Promised
<1>9. e = "Idle" => Promised(r)  BY <1>6, <1>7 DEF Promised
<1>10. AddEntry(n, e) = r  BY <1>1 DEF r
<1> QED  BY <1>2, <1>3, <1>5, <1>7, <1>8, <1>9, <1>10

LEMMA StartListStep ==
    ASSUME NEW n \in NpcRecord
    PROVE  /\ StartList(n) \in NpcRecord
           /\ StartList(n).State = n.State /\ StartList(n).Interlocutor = n.Interlocutor
           /\ StartList(n).queue = n.queue /\ StartList(n).list = n.list
           /\ n.list # <<>> => StartList(n).LockToDo = TRUE
           /\ n.LockToDo => StartList(n).LockToDo = TRUE
<1>1. (n.list # <<>> \/ n.LockToDo) \in BOOLEAN  OBVIOUS
<1>2. n.LockToDo \in BOOLEAN  BY NpcFields
<1>3. StartList(n) = [n EXCEPT !.LockToDo = (n.list # <<>> \/ n.LockToDo)]  BY DEF StartList
<1> QED  BY <1>1, <1>2, <1>3 DEF NpcRecord

\* A list that is added to and started.
LEMMA WaitsOn ==
    ASSUME NEW n \in NpcRecord
    PROVE  LET r == StartList(AddEntry(n, "Wait"))
           IN  /\ r \in NpcRecord /\ r.Interlocutor = n.Interlocutor /\ r.queue = n.queue
               /\ r.LockToDo = TRUE /\ r.State \in {"IDLE", n.State}
               /\ Promised(n) => Promised(r)
<1> DEFINE m == AddEntry(n, "Wait")
<1>1. /\ m \in NpcRecord /\ m.Interlocutor = n.Interlocutor /\ m.queue = n.queue
      /\ m.list # <<>> /\ m.State \in {"IDLE", n.State} /\ (Promised(n) => Promised(m))
  BY AddEntryStep
<1> HIDE DEF m
<1>2. /\ StartList(m) \in NpcRecord
      /\ StartList(m).State = m.State /\ StartList(m).Interlocutor = m.Interlocutor
      /\ StartList(m).queue = m.queue /\ StartList(m).list = m.list /\ StartList(m).LockToDo = TRUE
  BY <1>1, StartListStep
<1>3. Promised(m) => Promised(StartList(m))  BY <1>2 DEF Promised
<1>4. StartList(AddEntry(n, "Wait")) = StartList(m)  BY DEF m
<1> QED  BY <1>1, <1>2, <1>3, <1>4

\* An NPC that yields has a list.
LEMMA YieldsOn ==
    ASSUME NEW n \in NpcRecord
    PROVE  /\ Yield(n) \in NpcRecord
           /\ Yield(n).Interlocutor = n.Interlocutor /\ Yield(n).queue = n.queue
           /\ Yield(n).LockToDo = TRUE /\ Yield(n).State \in {"IDLE", n.State}
           /\ Promised(n) => Promised(Yield(n))
<1>1. CASE n.LockToDo
  <2>1. Yield(n) = n  BY <1>1 DEF Yield
  <2>2. n.LockToDo = TRUE  BY <1>1, NpcFields
  <2> QED  BY <2>1, <2>2
<1>2. CASE ~n.LockToDo
  <2>1. Yield(n) = StartList(AddEntry(n, "Wait"))  BY <1>2 DEF Yield
  <2> QED  BY <2>1, WaitsOn
<1> QED  BY <1>1, <1>2

LEMMA NewState ==
    ASSUME NEW n \in NpcRecord, NEW state \in {"SLEEPING", "IDLE", "TALKING", "LEAVING"}
    PROVE  LET m == ChangeState(n, state, FALSE)
           IN  /\ m \in NpcRecord /\ m.State = state /\ m.Interlocutor = n.Interlocutor
               /\ m.queue = n.queue /\ m.list = n.list /\ m.LockToDo = n.LockToDo
BY DEF ChangeState, NpcRecord

LEMMA BecomesIdle ==
    ASSUME NEW n \in NpcRecord
    PROVE  LET m == ChangeState(n, "IDLE", TRUE)
           IN  /\ m \in NpcRecord /\ m.State = "IDLE" /\ m.Interlocutor = n.Interlocutor
               /\ m.queue = n.queue /\ m.LockToDo = TRUE
<1> DEFINE k == [n EXCEPT !.State = "IDLE"]
<1>1. k \in NpcRecord /\ k.State = "IDLE" /\ k.Interlocutor = n.Interlocutor /\ k.queue = n.queue
  BY DEF NpcRecord
<1>2. ChangeState(n, "IDLE", TRUE) = Yield(k)  BY DEF ChangeState
<1> HIDE DEF k
<1> QED  BY <1>1, <1>2, YieldsOn

-----------------------------------------------------------------------------
(* Those who wait.                                                         *)

\* Who is taken out of the queue leaves the others in it, once each.
LEMMA RemoveOne ==
    ASSUME NEW q \in Seq(Visitor), NEW i \in 1 .. Len(q)
    PROVE  /\ RemoveAt(q, i) \in Seq(Visitor) /\ Len(RemoveAt(q, i)) = Len(q) - 1
           /\ \A j \in 1 .. Len(q) - 1 : RemoveAt(q, i)[j] = IF j < i THEN q[j] ELSE q[j + 1]
<1> DEFINE a == SubSeq(q, 1, i - 1)
           b == SubSeq(q, i + 1, Len(q))
<1>1. Len(q) \in Nat /\ i \in Nat /\ 1 <= i /\ i <= Len(q)  OBVIOUS
<1>2. a \in Seq(Visitor) /\ Len(a) = i - 1 /\ \A j \in 1 .. i - 1 : a[j] = q[j]
  BY <1>1
<1>3. b \in Seq(Visitor) /\ Len(b) = Len(q) - i /\ \A j \in 1 .. Len(q) - i : b[j] = q[i + j]
  BY <1>1
<1>4. RemoveAt(q, i) = a \o b  BY DEF RemoveAt
<1> HIDE DEF a, b
<1>5. a \o b \in Seq(Visitor) /\ Len(a \o b) = Len(q) - 1
  <2>1. a \o b \in Seq(Visitor) /\ Len(a \o b) = Len(a) + Len(b)  BY <1>2, <1>3, ConcatProperties
  <2> QED  BY <1>1, <1>2, <1>3, <2>1
<1>6. ASSUME NEW j \in 1 .. Len(q) - 1 PROVE (a \o b)[j] = IF j < i THEN q[j] ELSE q[j + 1]
  <2>1. CASE j < i
    BY <1>1, <1>2, <1>3, <2>1
  <2>2. CASE ~(j < i)
    <3>1. (a \o b)[j] = b[j - (i - 1)]  BY <1>1, <1>2, <1>3, <2>2
    <3>2. j - (i - 1) \in 1 .. Len(q) - i /\ i + (j - (i - 1)) = j + 1  BY <1>1, <2>2
    <3> QED  BY <1>3, <2>2, <3>1, <3>2
  <2> QED  BY <2>1, <2>2
<1> QED  BY <1>4, <1>5, <1>6

\* The loop over the queue leaves those who are still near: all whom the move
\* does not concern have been, and nobody waits twice.
LEMMA StayStep ==
    ASSUME NEW queue, NEW p, NEW where
    PROVE  /\ queue \in Seq(Visitor) /\ IsInjective(queue)
           /\ \A i \in DOMAIN queue : p \in {queue[i], Nobody} \/ where[queue[i]] = "near"
           => Stay(queue, p, where) \in Seq(Visitor) /\ InLine(Stay(queue, p, where), where)
<1>0. SUFFICES ASSUME queue \in Seq(Visitor), IsInjective(queue),
                      \A i \in DOMAIN queue : p \in {queue[i], Nobody} \/ where[queue[i]] = "near"
               PROVE  Stay(queue, p, where) \in Seq(Visitor) /\ InLine(Stay(queue, p, where), where)
  OBVIOUS
<1> DEFINE D == (Nat \ {0}) \X Seq(Visitor)
           Kept(t) == p \notin {t[2][t[1]], Nobody} \/ where[t[2][t[1]]] = "near"
           Body(f, t) == IF t[1] > Len(t[2]) THEN t[2]
                         ELSE IF Kept(t) THEN f[<<t[1] + 1, t[2]>>]
                         ELSE f[<<t[1], RemoveAt(t[2], t[1])>>]
           X == {t \in D : t[1] > Len(t[2])}
           next == [t \in D \ X |-> IF Kept(t) THEN <<t[1] + 1, t[2]>> ELSE <<t[1], RemoveAt(t[2], t[1])>>]
           m == [t \in D |-> IF t[1] > Len(t[2]) THEN 0 ELSE Len(t[2]) + 1 - t[1]]
           out == [t \in X |-> t[2]]
           V == Seq(Visitor)
<1>1. ASSUME NEW t \in D PROVE t[1] \in Nat /\ t[1] > 0 /\ t[2] \in Seq(Visitor) /\ Len(t[2]) \in Nat /\ t = <<t[1], t[2]>>
  OBVIOUS
<1>2. ASSUME NEW t \in D \ X
      PROVE  /\ t[1] \in 1 .. Len(t[2])
             /\ RemoveAt(t[2], t[1]) \in Seq(Visitor) /\ Len(RemoveAt(t[2], t[1])) = Len(t[2]) - 1
  <2>1. t[1] \in 1 .. Len(t[2])  BY <1>1
  <2> QED  BY <1>1, <2>1, RemoveOne
<1>3. Loop(D, m, X, next)
  <2>1. m \in [D -> Nat]
    <3> SUFFICES ASSUME NEW t \in D PROVE (IF t[1] > Len(t[2]) THEN 0 ELSE Len(t[2]) + 1 - t[1]) \in Nat
      OBVIOUS
    <3> QED  BY <1>1
  <2>2. ASSUME NEW t \in D \ X PROVE next[t] \in D /\ m[next[t]] < m[t]
    <3>1. t \in D /\ t[1] \in 1 .. Len(t[2]) /\ t[1] \in Nat /\ t[2] \in Seq(Visitor) /\ Len(t[2]) \in Nat
      BY <1>1, <1>2
    <3>2. m[t] = Len(t[2]) + 1 - t[1]  BY <3>1
    <3>3. CASE Kept(t)
      <4> DEFINE u == <<t[1] + 1, t[2]>>
      <4>1. next[t] = u  BY <3>3
      <4>2. u \in D /\ u[1] = t[1] + 1 /\ u[2] = t[2]  BY <3>1
      <4> HIDE DEF u
      <4>3. m[u] = IF u[1] > Len(u[2]) THEN 0 ELSE Len(u[2]) + 1 - u[1]  BY <4>2
      <4> QED  BY <3>1, <3>2, <4>1, <4>2, <4>3
    <3>4. CASE ~Kept(t)
      <4> DEFINE u == <<t[1], RemoveAt(t[2], t[1])>>
      <4>1. next[t] = u  BY <3>4
      <4>2. u \in D /\ u[1] = t[1] /\ Len(u[2]) = Len(t[2]) - 1  BY <1>2, <3>1
      <4> HIDE DEF u
      <4>3. m[u] = IF u[1] > Len(u[2]) THEN 0 ELSE Len(u[2]) + 1 - u[1]  BY <4>2
      <4> QED  BY <3>1, <3>2, <4>1, <4>2, <4>3
    <3> QED  BY <3>3, <3>4
  <2>3. next \in [D \ X -> D]
    <3>1. \A t \in D \ X : next[t] \in D  BY <2>2
    <3>2. next = [t \in D \ X |-> next[t]]  OBVIOUS
    <3> HIDE DEF next, X, D, m
    <3> QED  BY <3>1, <3>2
  <2>4. X \subseteq D  OBVIOUS
  <2> HIDE DEF m, next, X, D
  <2> QED  BY <2>1, <2>2, <2>3, <2>4 DEF Loop
<1>4. out \in [X -> V]  OBVIOUS
<1>7. \E g : g = [t \in D |-> Body(g, t)] /\ Stay(queue, p, where) = g[<<1, queue>>]
  <2>1. PICK f \in [D -> V] : \A t \in D : f[t] = IF t \in X THEN out[t] ELSE f[next[t]]
    <3> HIDE DEF D, X, m, next, out, Body, Kept, V
    <3> QED  BY <1>3, <1>4, LoopEnds
  <2>2. f = [t \in D |-> Body(f, t)]
    <3>1. ASSUME NEW t \in D PROVE f[t] = Body(f, t)
      <4>1. CASE t \in X
        <5>1. f[t] = out[t]  BY <2>1, <4>1
        <5> QED  BY <4>1, <5>1
      <4>2. CASE t \notin X
        <5>1. f[t] = f[next[t]] /\ ~(t[1] > Len(t[2]))  BY <2>1, <4>2
        <5>2. CASE Kept(t)
          <6>1. next[t] = <<t[1] + 1, t[2]>>  BY <4>2, <5>2
          <6> QED  BY <5>1, <5>2, <6>1
        <5>3. CASE ~Kept(t)
          <6>1. next[t] = <<t[1], RemoveAt(t[2], t[1])>>  BY <4>2, <5>3
          <6> QED  BY <5>1, <5>3, <6>1
        <5> QED  BY <5>2, <5>3
      <4> QED  BY <4>1, <4>2
    <3> HIDE DEF Body, D
    <3> QED  BY <2>1, <3>1
  <2> QED  BY <2>2, Zenon DEF Stay
<1>8. PICK g : g = [t \in D |-> Body(g, t)] /\ Stay(queue, p, where) = g[<<1, queue>>]
  BY <1>7
<1>9. ASSUME NEW t \in D PROVE g[t] = Body(g, t)
  <2> HIDE DEF Body, D
  <2> QED  BY <1>8
<1>10. \A t \in D \ X : g[t] = g[next[t]]
  <2> SUFFICES ASSUME NEW t \in D \ X PROVE g[t] = g[next[t]]
    OBVIOUS
  <2>1. g[t] = Body(g, t) /\ ~(t[1] > Len(t[2]))  BY <1>9
  <2>2. CASE Kept(t)
    <3>1. next[t] = <<t[1] + 1, t[2]>>  BY <2>2
    <3> QED  BY <2>1, <2>2, <3>1
  <2>3. CASE ~Kept(t)
    <3>1. next[t] = <<t[1], RemoveAt(t[2], t[1])>>  BY <2>3
    <3> QED  BY <2>1, <2>3, <3>1
  <2> QED  BY <2>2, <2>3
<1>11. \A t \in X : g[t] = t[2]
  <2> SUFFICES ASSUME NEW t \in X PROVE g[t] = t[2]
    OBVIOUS
  <2>1. g[t] = Body(g, t)  BY <1>9
  <2> QED  BY <2>1
<1> DEFINE Fine(q, i) == /\ \A j, k \in 1 .. Len(q) : q[j] = q[k] => j = k
                         /\ \A j \in 1 .. Len(q) : p \in {q[j], Nobody} \/ where[q[j]] = "near"
                         /\ \A j \in 1 .. Len(q) : j < i => where[q[j]] = "near"
           I == {t \in D : Fine(t[2], t[1])}
           J == {q \in Seq(Visitor) : InLine(q, where)}
<1>12. <<1, queue>> \in I
  <2>1. <<1, queue>> \in D  BY <1>0
  <2>2. Fine(queue, 1)  BY <1>0 DEF IsInjective
  <2> QED  BY <2>1, <2>2
<1>13. ASSUME NEW t \in I \ X PROVE next[t] \in I
  <2>1. t \in D \ X /\ Fine(t[2], t[1])  OBVIOUS
  <2>2. PICK q, i : q \in Seq(Visitor) /\ i \in 1 .. Len(q) /\ t[2] = q /\ t[1] = i /\ Len(q) \in Nat
    BY <2>1, <1>1, <1>2
  <2>3. Fine(q, i)  BY <2>1, <2>2
  <2>4. CASE Kept(t)
    <3>1. next[t] = <<i + 1, q>>  BY <2>1, <2>2, <2>4
    <3>2. <<i + 1, q>> \in D  BY <2>2
    <3>3. where[q[i]] = "near"  BY <2>2, <2>3, <2>4
    <3>4. Fine(q, i + 1)  BY <2>2, <2>3, <3>3
    <3> DEFINE u == <<i + 1, q>>
    <3>5. u[1] = i + 1 /\ u[2] = q  OBVIOUS
    <3> HIDE DEF u, Fine, D, next
    <3>6. u \in D /\ Fine(u[2], u[1])  BY <3>2, <3>4, <3>5 DEF u
    <3>7. u \in I  BY <3>6
    <3> QED  BY <3>1, <3>7 DEF u
  <2>5. CASE ~Kept(t)
    <3>1. next[t] = <<i, RemoveAt(q, i)>>  BY <2>1, <2>2, <2>5
    <3>2. /\ RemoveAt(q, i) \in Seq(Visitor) /\ Len(RemoveAt(q, i)) = Len(q) - 1
          /\ \A j \in 1 .. Len(q) - 1 : RemoveAt(q, i)[j] = IF j < i THEN q[j] ELSE q[j + 1]
      BY <2>2, RemoveOne
    <3> DEFINE r == RemoveAt(q, i)
    <3> HIDE DEF r
    <3>3. \A j \in 1 .. Len(q) - 1 : r[j] = IF j < i THEN q[j] ELSE q[j + 1]  BY <3>2 DEF r
    <3>4. r \in Seq(Visitor) /\ Len(r) = Len(q) - 1  BY <3>2 DEF r
    <3>5. Fine(r, i)
      <4>1. ASSUME NEW j \in 1 .. Len(r), NEW k \in 1 .. Len(r), r[j] = r[k] PROVE j = k
        <5>1. (IF j < i THEN j ELSE j + 1) \in 1 .. Len(q) /\ (IF k < i THEN k ELSE k + 1) \in 1 .. Len(q)
          BY <2>2, <3>4
        <5>2. r[j] = q[IF j < i THEN j ELSE j + 1] /\ r[k] = q[IF k < i THEN k ELSE k + 1]
          BY <2>2, <3>3, <3>4
        <5>3. (IF j < i THEN j ELSE j + 1) = (IF k < i THEN k ELSE k + 1)  BY <2>3, <4>1, <5>1, <5>2
        <5> QED  BY <2>2, <3>4, <5>3
      <4>2. ASSUME NEW j \in 1 .. Len(r)
            PROVE  (p \in {r[j], Nobody} \/ where[r[j]] = "near") /\ (j < i => where[r[j]] = "near")
        <5>1. CASE j < i
          <6>1. j \in 1 .. Len(q) /\ r[j] = q[j]  BY <2>2, <3>3, <3>4, <5>1
          <6> QED  BY <2>3, <5>1, <6>1
        <5>2. CASE ~(j < i)
          <6>1. j + 1 \in 1 .. Len(q) /\ r[j] = q[j + 1]  BY <2>2, <3>3, <3>4, <5>2
          <6> QED  BY <2>3, <5>2, <6>1
        <5> QED  BY <5>1, <5>2
      <4> QED  BY <4>1, <4>2
    <3>6. next[t] = <<i, r>>  BY <3>1 DEF r
    <3>7. <<i, r>> \in D  BY <2>2, <3>4
    <3> DEFINE u == <<i, r>>
    <3>8. u[1] = i /\ u[2] = r  OBVIOUS
    <3> HIDE DEF u, Fine, D, next
    <3>9. u \in D /\ Fine(u[2], u[1])  BY <3>5, <3>7, <3>8 DEF u
    <3>10. u \in I  BY <3>9
    <3> QED  BY <3>6, <3>10 DEF u
  <2> QED  BY <2>4, <2>5
<1>14. ASSUME NEW t \in I \cap X PROVE g[t] \in J
  <2>1. g[t] = t[2] /\ t \in D /\ Fine(t[2], t[1]) /\ t[1] > Len(t[2])  BY <1>11
  <2>2. t[2] \in Seq(Visitor) /\ t[1] \in Nat /\ Len(t[2]) \in Nat  BY <1>1, <2>1
  <2>3. InLine(t[2], where)
    <3>1. DOMAIN t[2] = 1 .. Len(t[2])  BY <2>2
    <3>2. \A j \in 1 .. Len(t[2]) : j < t[1]  BY <2>1, <2>2
    <3> QED  BY <2>1, <3>1, <3>2 DEF InLine, IsInjective
  <2> QED  BY <2>1, <2>2, <2>3
<1>15. g[<<1, queue>>] \in J
  <2>1. I \subseteq D  OBVIOUS
  <2> HIDE DEF J, X, D, next, m, out, I, Body, Kept, Fine, V
  <2> QED  BY <1>3, <1>10, <1>12, <1>13, <1>14, <2>1, LoopKeeps
<1> QED  BY <1>8, <1>15

-----------------------------------------------------------------------------
(* Reactions.                                                              *)

\* What a reaction works on, when it began with n: only an NPC that was talking
\* is talking, and one whose reaction has not begun its list is as attentive as
\* before.
Reaction == [n : NpcRecord, where : Places, start : BOOLEAN]

Faithful(x, n) ==
    /\ x \in Reaction /\ Promised(x.n) /\ x.n.Interlocutor = n.Interlocutor
    /\ x.n.State \in {"IDLE", "LEAVING", n.State}

LEMMA BeginStep ==
    ASSUME NEW n \in NpcRecord, NEW where \in Places, Promised(n)
    PROVE  Faithful(Begin(n, where), n) /\ Begin(n, where).n = n /\ Begin(n, where).where = where
           /\ Begin(n, where).start = FALSE
BY DEF Begin, Faithful, Reaction

LEMMA ReactionFields ==
    ASSUME NEW x \in Reaction
    PROVE  x.n \in NpcRecord /\ x.where \in Places /\ x.start \in BOOLEAN
BY DEF Reaction

\* The NPC of a reaction is replaced.
LEMMA ReactionWith ==
    ASSUME NEW x \in Reaction, NEW m \in NpcRecord
    PROVE  LET z == [x EXCEPT !.n = m]
           IN  z \in Reaction /\ z.n = m /\ z.where = x.where /\ z.start = x.start
BY DEF Reaction

LEMMA AnsweredStep ==
    ASSUME NEW n, NEW x, Faithful(x, n)
    PROVE  LET y == Answered(x)
           IN  /\ Faithful(y, n) /\ y.where = x.where /\ y.start = TRUE
               /\ y.n.queue = x.n.queue /\ y.n.LockToDo = FALSE
<1> DEFINE a == AddEntry(x.n, "Wait")
           b == AddEntry(a, "Talk")
<1>1. x \in Reaction /\ x.n \in NpcRecord /\ Promised(x.n) /\ x.n.Interlocutor = n.Interlocutor
      /\ x.n.State \in {"IDLE", "LEAVING", n.State}
  BY ReactionFields DEF Faithful
<1>2. /\ a \in NpcRecord /\ a.Interlocutor = x.n.Interlocutor /\ a.queue = x.n.queue
      /\ a.LockToDo = FALSE /\ a.State \in {"IDLE", x.n.State} /\ Promised(a)
  BY <1>1, AddEntryStep
<1> HIDE DEF a
<1>3. /\ b \in NpcRecord /\ b.Interlocutor = a.Interlocutor /\ b.queue = a.queue
      /\ b.LockToDo = FALSE /\ b.State \in {"IDLE", a.State} /\ Promised(b)
  BY <1>2, AddEntryStep
<1>4. Answered(x) = [x EXCEPT !.n = b, !.start = TRUE]  BY DEF Answered, a
<1> HIDE DEF b
<1> DEFINE y == [x EXCEPT !.n = b, !.start = TRUE]
<1>5. y \in Reaction /\ y.n = b /\ y.where = x.where /\ y.start = TRUE
  BY <1>1, <1>3 DEF Reaction
<1> HIDE DEF y
<1>6. Faithful(y, n)  BY <1>1, <1>2, <1>3, <1>5 DEF Faithful
<1>7. Answered(x) = y  BY <1>4 DEF y
<1> QED  BY <1>2, <1>3, <1>5, <1>6, <1>7

LEMMA DismissedStep ==
    ASSUME NEW n, NEW x, Faithful(x, n), NEW situation, x.start => x.n.LockToDo = FALSE
    PROVE  LET y == Dismissed(x, situation)
           IN  /\ Faithful(y, n) /\ y.where = x.where /\ y.n.queue = x.n.queue
               /\ y.n.State \in {"IDLE", "LEAVING"}
               /\ x.start \/ situation # "ADDRESSQUEUE" => y.start = TRUE
               /\ y.start \/ y.n.State = "IDLE"
<1>1. x \in Reaction /\ x.n \in NpcRecord /\ Promised(x.n) /\ x.n.Interlocutor = n.Interlocutor
      /\ x.start \in BOOLEAN
  BY ReactionFields DEF Faithful
<1>2. CASE x.start
  <2> DEFINE a == ChangeState(x.n, "LEAVING", FALSE)
             b == AddEntry(a, "Idle")
             y == [x EXCEPT !.n = b]
  <2>1. /\ a \in NpcRecord /\ a.State = "LEAVING" /\ a.Interlocutor = x.n.Interlocutor
        /\ a.queue = x.n.queue /\ a.LockToDo = x.n.LockToDo
    BY <1>1, NewState
  <2> HIDE DEF a
  <2>2. /\ b \in NpcRecord /\ b.Interlocutor = a.Interlocutor /\ b.queue = a.queue
        /\ b.State = a.State /\ Promised(b)
    BY <1>2, <2>1, AddEntryStep
  <2>3. Dismissed(x, situation) = y  BY <1>2 DEF Dismissed, a
  <2> HIDE DEF b
  <2>4. y \in Reaction /\ y.n = b /\ y.where = x.where /\ y.start = x.start
    BY <1>1, <2>2, ReactionWith
  <2> HIDE DEF y
  <2>5. Faithful(y, n)  BY <1>1, <2>1, <2>2, <2>4 DEF Faithful
  <2> QED  BY <1>1, <1>2, <2>1, <2>2, <2>3, <2>4, <2>5
<1>3. CASE ~x.start
  <2> DEFINE a == ChangeState(x.n, "IDLE", FALSE)
             b == situation # "ADDRESSQUEUE"
             y == [x EXCEPT !.n = a, !.start = b]
  <2>1. a \in NpcRecord /\ a.State = "IDLE" /\ a.Interlocutor = x.n.Interlocutor /\ a.queue = x.n.queue
    BY <1>1, NewState
  <2>2. Dismissed(x, situation) = y  BY <1>3 DEF Dismissed
  <2>3. b \in BOOLEAN /\ (situation # "ADDRESSQUEUE" => b = TRUE)  OBVIOUS
  <2> HIDE DEF a, b
  <2>4. y \in Reaction /\ y.n = a /\ y.where = x.where /\ y.start = b
    BY <1>1, <2>1, <2>3 DEF Reaction
  <2> HIDE DEF y
  <2>5. Faithful(y, n)  BY <1>1, <2>1, <2>4 DEF Faithful, Promised
  <2> QED  BY <1>3, <2>1, <2>2, <2>3, <2>4, <2>5
<1> QED  BY <1>2, <1>3

\* Who is near may join those who wait.
LEMMA EnqueueStep ==
    ASSUME NEW n \in NpcRecord, NEW p \in Visitor, NEW where, where[p] = "near"
    PROVE  LET m == Enqueue(n, p)
           IN  /\ m \in NpcRecord /\ m.State = n.State /\ m.Interlocutor = n.Interlocutor
               /\ m.list = n.list /\ m.LockToDo = n.LockToDo
               /\ InLine(n.queue, where) => InLine(m.queue, where)
<1>1. CASE Contains(n.queue, p)
  BY <1>1 DEF Enqueue
<1>2. CASE ~Contains(n.queue, p)
  <2> DEFINE q == n.queue
             r == Append(q, p)
             m == [n EXCEPT !.queue = r]
  <2>1. Enqueue(n, p) = m  BY <1>2 DEF Enqueue
  <2>2. q \in Seq(Visitor)  BY NpcFields
  <2>3. r \in Seq(Visitor) /\ Len(r) = Len(q) + 1 /\ Len(q) \in Nat /\ r[Len(q) + 1] = p
        /\ \A i \in 1 .. Len(q) : r[i] = q[i]
    BY <2>2
  <2>4. DOMAIN r = 1 .. Len(q) + 1 /\ DOMAIN q = 1 .. Len(q)  BY <2>2, <2>3
  <2>5. \A i \in 1 .. Len(q) : q[i] # p  BY <1>2 DEF Contains
  <2> HIDE DEF q, r
  <2>6. m \in NpcRecord /\ m.State = n.State /\ m.Interlocutor = n.Interlocutor
        /\ m.list = n.list /\ m.LockToDo = n.LockToDo /\ m.queue = r
    BY <2>3 DEF NpcRecord
  <2>7. ASSUME InLine(q, where) PROVE InLine(r, where)
    <3>1. ASSUME NEW i \in 1 .. Len(q) + 1 PROVE where[r[i]] = "near"
      BY <2>3, <2>4, <2>7 DEF InLine
    <3>2. ASSUME NEW i \in 1 .. Len(q) + 1, NEW j \in 1 .. Len(q) + 1, r[i] = r[j] PROVE i = j
      <4>1. CASE i = Len(q) + 1
        BY <2>3, <2>5, <3>2, <4>1
      <4>2. CASE j = Len(q) + 1
        BY <2>3, <2>5, <3>2, <4>2
      <4>3. CASE i # Len(q) + 1 /\ j # Len(q) + 1
        <5>1. i \in 1 .. Len(q) /\ j \in 1 .. Len(q)  BY <2>3, <4>3
        <5> QED  BY <2>3, <2>4, <2>7, <3>2, <5>1 DEF InLine, IsInjective
      <4> QED  BY <4>1, <4>2, <4>3
    <3> QED  BY <2>4, <3>1, <3>2 DEF InLine, IsInjective
  <2>8. q = n.queue  BY DEF q
  <2> HIDE DEF m
  <2> QED  BY <2>1, <2>6, <2>7, <2>8
<1> QED  BY <1>1, <1>2

\* Reply, Idle and Queue: one who is answered is answered by a list that will be
\* started, and so is one who is dismissed, unless he came from the queue.
Outcome(y, n, where, acts, situation) ==
    /\ Faithful(y, n) /\ y.where = where /\ InLine(y.n.queue, where)
    /\ "Reply" \in acts => y.start = TRUE
    /\ "Idle" \in acts /\ situation # "ADDRESSQUEUE" => y.start = TRUE
    /\ "Idle" \in acts => y.n.State \in {"IDLE", "LEAVING"}
    /\ "Idle" \in acts => y.start \/ y.n.State = "IDLE"
    /\ acts = {} => y.n = n /\ y.start = FALSE
    /\ "Queue" \notin acts => y.n.queue = n.queue

Near(n, where) == n.Interlocutor \in Visitor /\ where[n.Interlocutor] = "near"

LEMMA ReactedStep ==
    ASSUME NEW n \in NpcRecord, NEW where \in Places, Promised(n), InLine(n.queue, where),
           NEW situation, NEW acts, "Queue" \notin acts \/ Near(n, where)
    PROVE  Outcome(Reacted(Begin(n, where), acts, situation), n, where, acts, situation)
<1> DEFINE x == Begin(n, where)
           a == IF "Reply" \in acts THEN Answered(x) ELSE x
           b == IF "Idle" \in acts THEN Dismissed(a, situation) ELSE a
           c == IF "Queue" \in acts THEN [b EXCEPT !.n = Enqueue(b.n, b.n.Interlocutor)] ELSE b
<1>1. Reacted(Begin(n, where), acts, situation) = c  BY DEF Reacted
<1>2. Faithful(x, n) /\ x.n = n /\ x.where = where /\ x.start = FALSE
  BY BeginStep
<1> HIDE DEF x
<1>3. /\ Faithful(a, n) /\ a.where = where /\ a.n.queue = n.queue
      /\ "Reply" \in acts => a.start = TRUE
      /\ "Reply" \notin acts => a = x
      /\ a.start => a.n.LockToDo = FALSE
  BY <1>2, AnsweredStep
<1> HIDE DEF a
<1>4. /\ Faithful(b, n) /\ b.where = where /\ b.n.queue = n.queue
      /\ "Reply" \in acts => b.start = TRUE
      /\ "Idle" \in acts /\ situation # "ADDRESSQUEUE" => b.start = TRUE
      /\ "Idle" \in acts => b.n.State \in {"IDLE", "LEAVING"}
      /\ "Idle" \in acts => b.start \/ b.n.State = "IDLE"
      /\ "Idle" \notin acts => b = a
  <2>1. CASE "Idle" \in acts
    <3>1. b = Dismissed(a, situation)  BY <2>1
    <3>2. /\ Faithful(Dismissed(a, situation), n) /\ Dismissed(a, situation).where = a.where
          /\ Dismissed(a, situation).n.queue = a.n.queue
          /\ Dismissed(a, situation).n.State \in {"IDLE", "LEAVING"}
          /\ a.start \/ situation # "ADDRESSQUEUE" => Dismissed(a, situation).start = TRUE
          /\ Dismissed(a, situation).start \/ Dismissed(a, situation).n.State = "IDLE"
      BY <1>3, DismissedStep
    <3> HIDE DEF b
    <3> QED  BY <1>3, <2>1, <3>1, <3>2
  <2>2. CASE "Idle" \notin acts
    <3>1. b = a  BY <2>2
    <3> HIDE DEF b
    <3> QED  BY <1>3, <2>2, <3>1
  <2> QED  BY <2>1, <2>2
<1> HIDE DEF b
<1>5. /\ Faithful(c, n) /\ c.where = where /\ InLine(c.n.queue, where) /\ c.start = b.start
      /\ c.n.State = b.n.State /\ ("Queue" \notin acts => c = b)
  <2>1. CASE "Queue" \in acts
    <3> DEFINE m == Enqueue(b.n, b.n.Interlocutor)
    <3>1. b \in Reaction /\ b.n \in NpcRecord /\ b.n.Interlocutor = n.Interlocutor /\ Promised(b.n)
          /\ b.n.State \in {"IDLE", "LEAVING", n.State}
      BY <1>4, ReactionFields DEF Faithful
    <3>2. b.n.Interlocutor \in Visitor /\ where[b.n.Interlocutor] = "near" /\ InLine(b.n.queue, where)
      BY <1>4, <2>1, <3>1 DEF Near
    <3>3. /\ m \in NpcRecord /\ m.State = b.n.State /\ m.Interlocutor = b.n.Interlocutor
          /\ m.list = b.n.list /\ InLine(m.queue, where)
      BY <3>1, <3>2, EnqueueStep
    <3>4. c = [b EXCEPT !.n = m]  BY <2>1
    <3> HIDE DEF m, c
    <3>5. c \in Reaction /\ c.n = m /\ c.where = b.where /\ c.start = b.start
      BY <3>1, <3>3, <3>4, ReactionWith
    <3>6. Promised(m)  BY <3>1, <3>3 DEF Promised
    <3>7. Faithful(c, n)  BY <3>1, <3>3, <3>5, <3>6 DEF Faithful
    <3> QED  BY <1>4, <2>1, <3>3, <3>5, <3>7
  <2>2. CASE "Queue" \notin acts
    <3>1. c = b  BY <2>2
    <3> HIDE DEF c
    <3> QED  BY <1>4, <3>1
  <2> QED  BY <2>1, <2>2
<1> HIDE DEF c
<1>6. b.start \in BOOLEAN  BY <1>4, ReactionFields DEF Faithful
<1>7. acts = {} => c = x  BY <1>3, <1>4, <1>5
<1>8. Outcome(c, n, where, acts, situation)
  BY <1>2, <1>3, <1>4, <1>5, <1>6, <1>7 DEF Outcome
<1> QED  BY <1>1, <1>8

\* A reaction that has begun a list starts it.
LEMMA FinishedStep ==
    ASSUME NEW x \in Reaction
    PROVE  LET y == Finished(x)
           IN  /\ y \in Reaction /\ y.where = x.where
               /\ y.n.Interlocutor = x.n.Interlocutor /\ y.n.queue = x.n.queue
               /\ y.n.State \in {"IDLE", x.n.State}
               /\ Promised(x.n) => Promised(y.n)
               /\ x.start => y.n.LockToDo = TRUE
               /\ ~x.start => y.n = x.n
<1>1. x.n \in NpcRecord /\ x.start \in BOOLEAN  BY ReactionFields
<1>2. CASE x.start
  <2> DEFINE m == StartList(AddEntry(x.n, "Wait"))
  <2>1. /\ m \in NpcRecord /\ m.Interlocutor = x.n.Interlocutor /\ m.queue = x.n.queue
        /\ m.LockToDo = TRUE /\ m.State \in {"IDLE", x.n.State} /\ (Promised(x.n) => Promised(m))
    BY <1>1, WaitsOn
  <2>2. Finished(x) = [x EXCEPT !.n = m]  BY <1>2 DEF Finished
  <2> HIDE DEF m
  <2>3. [x EXCEPT !.n = m] \in Reaction /\ [x EXCEPT !.n = m].n = m /\ [x EXCEPT !.n = m].where = x.where
    BY <2>1, ReactionWith
  <2> QED  BY <1>2, <2>1, <2>2, <2>3
<1>3. CASE ~x.start
  <2>1. Finished(x) = [x EXCEPT !.n = x.n]  BY <1>3 DEF Finished
  <2>2. [x EXCEPT !.n = x.n] \in Reaction /\ [x EXCEPT !.n = x.n].n = x.n /\ [x EXCEPT !.n = x.n].where = x.where
    BY <1>1, ReactionWith
  <2> QED  BY <1>1, <1>3, <2>1, <2>2
<1> QED  BY <1>2, <1>3

\* Whoever the NPC says goodbye to, it is idle then and has a list.
LEMMA VanishStep ==
    ASSUME NEW n \in NpcRecord, NEW where \in Places, Promised(n), InLine(n.queue, where),
           NEW k \in Vanish(n, where)
    PROVE  /\ k \in NpcRecord /\ k.State = "IDLE" /\ k.LockToDo = TRUE
           /\ k.Interlocutor = n.Interlocutor /\ k.queue = n.queue
<1>1. PICK acts \in Behaviour("VANISH") :
          k = ChangeState(Finished(Reacted(Begin(n, where), acts, "VANISH")).n, "IDLE", TRUE)
  BY DEF Vanish
<1>2. "Queue" \notin acts
  <2>1. acts \in {{}, {"Reply"}, {"Idle"}, {"Reply", "Idle"}}  BY DEF Behaviour
  <2> QED  BY <2>1
<1> DEFINE x == Reacted(Begin(n, where), acts, "VANISH")
           y == Finished(x)
<1>a. Outcome(x, n, where, acts, "VANISH")  BY <1>2, ReactedStep
<1> HIDE DEF x
<1>3. Faithful(x, n) /\ x.n.queue = n.queue  BY <1>2, <1>a DEF Outcome
<1>4. x \in Reaction /\ x.n.Interlocutor = n.Interlocutor  BY <1>3 DEF Faithful
<1>5. y \in Reaction /\ y.n.Interlocutor = x.n.Interlocutor /\ y.n.queue = x.n.queue  BY <1>4, FinishedStep
<1>6. k = ChangeState(y.n, "IDLE", TRUE)  BY <1>1 DEF x
<1> HIDE DEF y
<1>7. y.n \in NpcRecord  BY <1>5, ReactionFields
<1> QED  BY <1>3, <1>4, <1>5, <1>6, <1>7, BecomesIdle

\* The NPC after a move: the others are where they were, those who have gone do
\* not wait, and the NPC does not talk to one who has gone.
Noticed(k, n, to) ==
    /\ Sound(k, to) /\ k.Interlocutor = n.Interlocutor
    /\ k.State \in {"IDLE", n.State}
    /\ k.LockToDo = TRUE \/ (k.LockToDo = n.LockToDo /\ k.State = n.State)

LEMMA MoveStep ==
    ASSUME NEW n, NEW where, Sound(n, where), NEW to \in Places, NEW p,
           p = Nobody \/ \A q \in Visitor : q # p => to[q] = where[q],
           NEW k \in MoveStimulus(n, p, to)
    PROVE  Noticed(k, n, to)
<1> DEFINE q == Stay(n.queue, p, to)
           m == [n EXCEPT !.queue = q]
           vanished == m.State = "TALKING" /\ p \in {m.Interlocutor, Nobody} /\ to[m.Interlocutor] # "near"
           lost == m.State = "LEAVING" /\ p = Nobody /\ to[m.Interlocutor] = "gone"
           after == IF vanished THEN Vanish(m, to)
                    ELSE {m} \cup (IF lost THEN {ChangeState(m, "IDLE", TRUE)} ELSE {})
<1>1. n \in NpcRecord /\ Promised(n) /\ Heard(n, where) /\ InLine(n.queue, where)  BY DEF Sound
<1>2. n.queue \in Seq(Visitor) /\ n.LockToDo \in BOOLEAN  BY <1>1, NpcFields
<1>3. q \in Seq(Visitor) /\ InLine(q, to)
  <2>1. IsInjective(n.queue)  BY <1>1 DEF InLine
  <2>2. ASSUME NEW i \in DOMAIN n.queue PROVE p \in {n.queue[i], Nobody} \/ to[n.queue[i]] = "near"
    <3>1. where[n.queue[i]] = "near" /\ n.queue[i] \in Visitor  BY <1>1, <1>2 DEF InLine
    <3> QED  BY <3>1
  <2> QED  BY <1>2, <2>1, <2>2, StayStep
<1>4. PICK a \in after :
          k = IF a.State = "SLEEPING" /\ p # Nobody /\ to[p] # "gone" THEN ChangeState(a, "IDLE", TRUE) ELSE a
  BY Zenon DEF MoveStimulus
<1> HIDE DEF q
<1>5. /\ m \in NpcRecord /\ m.State = n.State /\ m.Interlocutor = n.Interlocutor /\ m.queue = q
      /\ m.list = n.list /\ m.LockToDo = n.LockToDo
  BY <1>1, <1>3 DEF NpcRecord
<1> HIDE DEF m
<1>6. Promised(m)  BY <1>1, <1>5 DEF Promised
<1>7. Noticed(a, n, to)
  <2>1. CASE vanished
    <3>1. a \in Vanish(m, to)  BY <2>1
    <3>2. /\ a \in NpcRecord /\ a.State = "IDLE" /\ a.LockToDo = TRUE
          /\ a.Interlocutor = m.Interlocutor /\ a.queue = m.queue
      BY <1>3, <1>5, <1>6, <3>1, VanishStep
    <3>3. Sound(a, to)  BY <1>3, <1>5, <3>2 DEF Sound, Promised, Heard
    <3> QED  BY <1>5, <3>2, <3>3 DEF Noticed
  <2>2. CASE ~vanished
    <3>1. a = m \/ a = ChangeState(m, "IDLE", TRUE)  BY <2>2
    <3>2. ASSUME m.State = "TALKING" PROVE m.Interlocutor \in Visitor /\ to[m.Interlocutor] = "near"
      <4>1. m.Interlocutor \in Visitor /\ where[m.Interlocutor] = "near"  BY <1>1, <1>5, <3>2 DEF Heard
      <4>2. to[m.Interlocutor] = "near" \/ p \notin {m.Interlocutor, Nobody}  BY <2>2, <3>2
      <4> QED  BY <4>1, <4>2
    <3>3. Sound(m, to)  BY <1>3, <1>5, <1>6, <3>2 DEF Sound, Heard
    <3>4. CASE a = m
      BY <1>2, <1>5, <3>3, <3>4 DEF Noticed
    <3>5. CASE a = ChangeState(m, "IDLE", TRUE)
      <4>1. /\ a \in NpcRecord /\ a.State = "IDLE" /\ a.LockToDo = TRUE
            /\ a.Interlocutor = m.Interlocutor /\ a.queue = m.queue
        BY <1>5, <3>5, BecomesIdle
      <4>2. Sound(a, to)  BY <1>3, <1>5, <4>1 DEF Sound, Promised, Heard
      <4> QED  BY <1>5, <4>1, <4>2 DEF Noticed
    <3> QED  BY <3>1, <3>4, <3>5
  <2> QED  BY <2>1, <2>2
<1>8. CASE k = a
  BY <1>7, <1>8
<1>9. CASE k = ChangeState(a, "IDLE", TRUE)
  <2>1. a \in NpcRecord /\ a.Interlocutor = n.Interlocutor /\ InLine(a.queue, to)  BY <1>7 DEF Noticed, Sound
  <2>2. /\ k \in NpcRecord /\ k.State = "IDLE" /\ k.Interlocutor = a.Interlocutor
        /\ k.queue = a.queue /\ k.LockToDo = TRUE
    BY <1>9, <2>1, BecomesIdle
  <2>3. Sound(k, to)  BY <2>1, <2>2 DEF Sound, Promised, Heard
  <2> QED  BY <2>1, <2>2, <2>3 DEF Noticed
<1> QED  BY <1>4, <1>8, <1>9

\* A reaction without Teleport ends with a list, if the NPC does anything; only
\* one from the queue may be left without an answer.
Ended(x, n, where, situation) ==
    /\ x \in Reaction /\ x.where = where /\ Promised(x.n) /\ InLine(x.n.queue, where)
    /\ x.n.Interlocutor = n.Interlocutor /\ x.n.State \in {"IDLE", "LEAVING", n.State}
    /\ \/ x.n.LockToDo = TRUE
       \/ x.n = n /\ situation \notin {"ADDRESS", "ADDRESSQUEUE"}
       \/ x.n.State = "IDLE" /\ situation = "ADDRESSQUEUE"

LEMMA FinishedEnds ==
    ASSUME NEW n \in NpcRecord, NEW where \in Places, Promised(n), InLine(n.queue, where),
           NEW situation, NEW acts, "Queue" \notin acts \/ Near(n, where),
           acts = {} \/ "Reply" \in acts \/ "Idle" \in acts,
           situation \in {"ADDRESS", "ADDRESSQUEUE"} => acts # {}
    PROVE  Ended(Finished(Reacted(Begin(n, where), acts, situation)), n, where, situation)
<1> DEFINE x == Reacted(Begin(n, where), acts, situation)
           y == Finished(x)
<1>1. Outcome(x, n, where, acts, situation)  BY ReactedStep
<1> HIDE DEF x
<1>2. /\ x \in Reaction /\ Promised(x.n) /\ x.n.Interlocutor = n.Interlocutor
      /\ x.n.State \in {"IDLE", "LEAVING", n.State} /\ x.where = where /\ InLine(x.n.queue, where)
  BY <1>1 DEF Outcome, Faithful
<1>3. /\ y \in Reaction /\ y.where = x.where
      /\ y.n.Interlocutor = x.n.Interlocutor /\ y.n.queue = x.n.queue
      /\ y.n.State \in {"IDLE", x.n.State}
      /\ Promised(x.n) => Promised(y.n)
      /\ x.start => y.n.LockToDo = TRUE
      /\ ~x.start => y.n = x.n
  BY <1>2, FinishedStep
<1> HIDE DEF y
<1>4. \/ y.n.LockToDo = TRUE
      \/ y.n = n /\ situation \notin {"ADDRESS", "ADDRESSQUEUE"}
      \/ y.n.State = "IDLE" /\ situation = "ADDRESSQUEUE"
  <2>1. CASE x.start
    BY <1>3, <2>1
  <2>2. CASE ~x.start
    <3>1. y.n = x.n  BY <1>3, <2>2
    <3>2. "Reply" \notin acts  BY <1>1, <2>2 DEF Outcome
    <3>3. CASE acts = {}
      BY <1>1, <3>1, <3>3 DEF Outcome
    <3>4. CASE "Idle" \in acts
      BY <1>1, <2>2, <3>1, <3>4 DEF Outcome
    <3> QED  BY <3>2, <3>3, <3>4
  <2> QED  BY <2>1, <2>2
<1>5. Ended(y, n, where, situation)  BY <1>2, <1>3, <1>4 DEF Ended
<1> QED  BY <1>5 DEF x, y

LEMMA ReactEnds ==
    ASSUME NEW n \in NpcRecord, NEW where \in Places, Promised(n), InLine(n.queue, where),
           NEW situation \in {"ADDRESS", "ADDRESSQUEUE", "BUSY", "VANISH"},
           situation # "BUSY" \/ Near(n, where), NEW x \in react(n, where, situation)
    PROVE  Ended(x, n, where, situation)
<1>1. PICK acts \in Behaviour(situation) :
          x \in {Finished(y) : y \in IF "Teleport" \in acts
                                     THEN Teleport(Reacted(Begin(n, where), acts, situation))
                                     ELSE {Reacted(Begin(n, where), acts, situation)}}
  BY Zenon DEF react
<1>2. /\ "Teleport" \notin acts /\ ("Queue" \notin acts \/ situation = "BUSY")
      /\ acts = {} \/ "Reply" \in acts \/ "Idle" \in acts
      /\ situation \in {"ADDRESS", "ADDRESSQUEUE"} => acts # {}
  <2>1. CASE situation \in {"ADDRESS", "ADDRESSQUEUE"}
    <3>1. acts \in {{"Reply"}, {"Idle"}, {"Reply", "Idle"}}  BY <2>1 DEF Behaviour
    <3> QED  BY <2>1, <3>1
  <2>2. CASE situation = "BUSY"
    <3>1. acts \in {{}, {"Reply"}, {"Reply", "Queue"}}  BY <2>2 DEF Behaviour
    <3> QED  BY <2>2, <3>1
  <2>3. CASE situation = "VANISH"
    <3>1. acts \in {{}, {"Reply"}, {"Idle"}, {"Reply", "Idle"}}  BY <2>3 DEF Behaviour
    <3> QED  BY <2>3, <3>1
  <2> QED  BY <2>1, <2>2, <2>3
<1>3. x = Finished(Reacted(Begin(n, where), acts, situation))  BY <1>1, <1>2, Zenon
<1>4. "Queue" \notin acts \/ Near(n, where)  BY <1>2
<1>5. Ended(Finished(Reacted(Begin(n, where), acts, situation)), n, where, situation)
  BY <1>2, <1>4, FinishedEnds
<1> QED  BY <1>3, <1>5

\* What the interlocutor says is answered, also when the answer takes him away:
\* the NPC notices it in the middle of its reaction.
LEMMA DefaultEnds ==
    ASSUME NEW n, NEW where \in Places, Sound(n, where), Near(n, where),
           NEW x \in react(n, where, "DEFAULT")
    PROVE  /\ x.where \in Places /\ Sound(x.n, x.where)
           /\ x.n.LockToDo = TRUE \/ x.n = n
<1>1. n \in NpcRecord /\ Promised(n) /\ InLine(n.queue, where)  BY DEF Sound
<1>2. PICK acts \in Behaviour("DEFAULT") :
          x \in {Finished(y) : y \in IF "Teleport" \in acts
                                     THEN Teleport(Reacted(Begin(n, where), acts, "DEFAULT"))
                                     ELSE {Reacted(Begin(n, where), acts, "DEFAULT")}}
  BY Zenon DEF react
<1>3. /\ "Queue" \notin acts /\ (acts = {} \/ "Reply" \in acts)
      /\ "Teleport" \in acts => "Reply" \in acts
  <2>1. acts \in {{}, {"Reply"}, {"Reply", "Idle"}, {"Reply", "Idle", "Teleport"}, {"Reply", "Teleport"}}
    BY DEF Behaviour
  <2> QED  BY <2>1
<1>4. CASE "Teleport" \notin acts
  <2>1. x = Finished(Reacted(Begin(n, where), acts, "DEFAULT"))  BY <1>2, <1>4, Zenon
  <2>2. Ended(x, n, where, "DEFAULT")  BY <1>1, <1>3, <2>1, FinishedEnds
  <2>3. /\ x \in Reaction /\ x.where = where /\ Promised(x.n) /\ InLine(x.n.queue, where)
        /\ x.n.Interlocutor = n.Interlocutor /\ x.n.State \in {"IDLE", "LEAVING", n.State}
        /\ x.n.LockToDo = TRUE \/ x.n = n
    BY <2>2 DEF Ended
  <2>4. Heard(x.n, where)  BY <2>3 DEF Heard, Near
  <2>5. x.n \in NpcRecord  BY <2>3, ReactionFields
  <2> QED  BY <2>3, <2>4, <2>5 DEF Sound
<1>5. CASE "Teleport" \in acts
  <2> DEFINE y == Reacted(Begin(n, where), acts, "DEFAULT")
             p == y.n.Interlocutor
             to == [y.where EXCEPT ![p] = "gone"]
  <2>1. PICK z \in Teleport(y) : x = Finished(z)  BY <1>2, <1>5, Zenon
  <2>2. PICK k \in MoveStimulus(y.n, p, to) : z = [y EXCEPT !.n = k, !.where = to]
    BY <2>1, Zenon DEF Teleport
  <2>3. Outcome(y, n, where, acts, "DEFAULT")  BY <1>1, <1>3, ReactedStep
  <2> HIDE DEF y
  <2>4. /\ y \in Reaction /\ Promised(y.n) /\ p = n.Interlocutor /\ y.where = where
        /\ y.n.State \in {"IDLE", "LEAVING", n.State} /\ InLine(y.n.queue, where) /\ y.start = TRUE
    BY <1>3, <1>5, <2>3 DEF Outcome, Faithful
  <2>5. y.n \in NpcRecord  BY <2>4, ReactionFields
  <2> HIDE DEF p
  <2>6. Sound(y.n, where)  BY <2>4, <2>5 DEF Sound, Heard, Near, p
  <2>7. to \in Places /\ \A q \in Visitor : q # p => to[q] = where[q]  BY <2>4 DEF Places
  <2> HIDE DEF to
  <2>8. Noticed(k, y.n, to)  BY <2>2, <2>6, <2>7, MoveStep
  <2>9. Sound(k, to) /\ k \in NpcRecord  BY <2>8 DEF Noticed, Sound
  <2>10. z \in Reaction /\ z.n = k /\ z.where = to /\ z.start = TRUE  BY <2>2, <2>4, <2>7, <2>9 DEF Reaction
  <2>11. /\ x \in Reaction /\ x.where = z.where
         /\ x.n.Interlocutor = z.n.Interlocutor /\ x.n.queue = z.n.queue
         /\ x.n.State \in {"IDLE", z.n.State}
         /\ (Promised(z.n) => Promised(x.n)) /\ x.n.LockToDo = TRUE
    BY <2>1, <2>10, FinishedStep
  <2>12. x.n \in NpcRecord  BY <2>11, ReactionFields
  <2>13. Promised(k) /\ Heard(k, to) /\ InLine(k.queue, to)  BY <2>9 DEF Sound
  <2>14. Heard(x.n, to)  BY <2>10, <2>11, <2>13 DEF Heard
  <2>15. Sound(x.n, to)  BY <2>10, <2>11, <2>12, <2>13, <2>14 DEF Sound
  <2> QED  BY <2>7, <2>10, <2>11, <2>15
<1> QED  BY <1>4, <1>5

\* Another interlocutor.
LEMMA NewInterlocutor ==
    ASSUME NEW n \in NpcRecord, NEW p \in Visitor \cup {Nobody}
    PROVE  LET m == [n EXCEPT !.Interlocutor = p]
           IN  /\ m \in NpcRecord /\ m.Interlocutor = p /\ m.State = n.State
               /\ m.queue = n.queue /\ m.list = n.list /\ m.LockToDo = n.LockToDo
BY DEF NpcRecord

\* The NPC turns to p: its list is empty, and its answer is started.
LEMMA Turned ==
    ASSUME NEW n \in NpcRecord, NEW p \in Visitor
    PROVE  LET m == [ChangeState(ClearList(n), "TALKING", FALSE) EXCEPT !.Interlocutor = p]
           IN  /\ m \in NpcRecord /\ m.Interlocutor = p /\ m.State = "TALKING"
               /\ m.queue = n.queue /\ m.list = <<>> /\ m.LockToDo = FALSE
<1> DEFINE a == ClearList(n)
           b == ChangeState(a, "TALKING", FALSE)
<1>1. a \in NpcRecord /\ a.queue = n.queue /\ a.list = <<>> /\ a.LockToDo = FALSE  BY ClearListStep
<1> HIDE DEF a
<1>2. /\ b \in NpcRecord /\ b.State = "TALKING" /\ b.queue = a.queue
      /\ b.list = a.list /\ b.LockToDo = a.LockToDo
  BY <1>1, NewState
<1> HIDE DEF b
<1> DEFINE m == [b EXCEPT !.Interlocutor = p]
<1>3. /\ m \in NpcRecord /\ m.Interlocutor = p /\ m.State = b.State
      /\ m.queue = b.queue /\ m.list = b.list /\ m.LockToDo = b.LockToDo
  BY <1>2, NewInterlocutor
<1> HIDE DEF m
<1>4. [ChangeState(ClearList(n), "TALKING", FALSE) EXCEPT !.Interlocutor = p] = m  BY DEF a, b, m
<1> QED  BY <1>1, <1>2, <1>3, <1>4

\* A player who speaks is answered, is put off, or becomes the interlocutor.
LEMMA TalkStep ==
    ASSUME NpcInv, NEW p \in Visitor, place[p] = "near", NEW x \in TalkStimulus(npc, p)
    PROVE  x.where \in Places /\ Sound(x.n, x.where) /\ Attentive(x.n)
<1>1. /\ place \in Places /\ Sound(npc, place) /\ Attentive(npc) /\ npc \in NpcRecord
      /\ Promised(npc) /\ Heard(npc, place) /\ InLine(npc.queue, place)
  BY DEF NpcInv, Sound
<1>2. CASE (npc.State = "TALKING" \/ npc.queue # <<>>) /\ p = npc.Interlocutor
  <2>1. x \in react(npc, place, "DEFAULT")  BY <1>2, Zenon DEF TalkStimulus
  <2>2. Near(npc, place)  BY <1>2 DEF Near
  <2>3. x.where \in Places /\ Sound(x.n, x.where) /\ (x.n.LockToDo = TRUE \/ x.n = npc)
    BY <1>1, <2>1, <2>2, DefaultEnds
  <2> QED  BY <1>1, <2>3 DEF Attentive
<1>3. CASE (npc.State = "TALKING" \/ npc.queue # <<>>) /\ p # npc.Interlocutor
  <2> DEFINE m == [npc EXCEPT !.Interlocutor = p]
  <2>1. PICK y \in react(m, place, "BUSY") : x = [y EXCEPT !.n.Interlocutor = npc.Interlocutor]
    BY <1>3, Zenon DEF TalkStimulus
  <2>2. /\ m \in NpcRecord /\ m.Interlocutor = p /\ m.State = npc.State
        /\ m.queue = npc.queue /\ m.list = npc.list /\ m.LockToDo = npc.LockToDo
    BY <1>1, NewInterlocutor
  <2>3. npc = [m EXCEPT !.Interlocutor = npc.Interlocutor]  BY <1>1 DEF NpcRecord
  <2> HIDE DEF m
  <2>4. Promised(m) /\ InLine(m.queue, place) /\ Near(m, place)  BY <1>1, <2>2 DEF Promised, Near
  <2>5. Ended(y, m, place, "BUSY")  BY <1>1, <2>1, <2>2, <2>4, ReactEnds
  <2>6. /\ y \in Reaction /\ y.where = place /\ Promised(y.n) /\ InLine(y.n.queue, place)
        /\ y.n.State \in {"IDLE", "LEAVING", m.State}
        /\ y.n.LockToDo = TRUE \/ y.n = m
    BY <2>5 DEF Ended
  <2>7. y.n \in NpcRecord /\ npc.Interlocutor \in Visitor \cup {Nobody}  BY <1>1, <2>6, ReactionFields, NpcFields
  <2> DEFINE k == [y.n EXCEPT !.Interlocutor = npc.Interlocutor]
  <2>8. /\ k \in NpcRecord /\ k.Interlocutor = npc.Interlocutor /\ k.State = y.n.State
        /\ k.queue = y.n.queue /\ k.list = y.n.list /\ k.LockToDo = y.n.LockToDo
    BY <2>7, NewInterlocutor
  <2>9. x = [y EXCEPT !.n = k]  BY <2>1
  <2>10. y.n = m => k = npc  BY <2>3
  <2> HIDE DEF k
  <2>11. x.n = k /\ x.where = place  BY <2>6, <2>8, <2>9, ReactionWith
  <2>12. Heard(k, place)  BY <1>1, <2>2, <2>6, <2>8 DEF Heard
  <2>13. Promised(k)  BY <2>6, <2>8 DEF Promised
  <2>14. Sound(k, place)  BY <2>6, <2>8, <2>12, <2>13 DEF Sound
  <2>15. Attentive(k)  BY <1>1, <2>6, <2>8, <2>10 DEF Attentive
  <2> QED  BY <1>1, <2>11, <2>14, <2>15
<1>4. CASE ~(npc.State = "TALKING" \/ npc.queue # <<>>)
  <2> DEFINE m == [ChangeState(ClearList(npc), "TALKING", FALSE) EXCEPT !.Interlocutor = p]
  <2>1. x \in react(m, place, "ADDRESS")  BY <1>4, Zenon DEF TalkStimulus
  <2>2. /\ m \in NpcRecord /\ m.Interlocutor = p /\ m.State = "TALKING" /\ m.queue = npc.queue
    BY <1>1, Turned
  <2> HIDE DEF m
  <2>3. Promised(m) /\ InLine(m.queue, place)  BY <1>1, <2>2 DEF Promised
  <2>4. Ended(x, m, place, "ADDRESS")  BY <1>1, <2>1, <2>2, <2>3, ReactEnds
  <2>5. /\ x \in Reaction /\ x.where = place /\ Promised(x.n) /\ InLine(x.n.queue, place)
        /\ x.n.Interlocutor = p /\ x.n.LockToDo = TRUE
    BY <2>2, <2>4 DEF Ended
  <2>6. x.n \in NpcRecord  BY <2>5, ReactionFields
  <2> QED  BY <1>1, <2>5, <2>6 DEF Sound, Heard, Attentive
<1> QED  BY <1>2, <1>3, <1>4

-----------------------------------------------------------------------------
(* The end of a list: the next of those who wait is served.                *)

\* Those behind the first ones.
LEMMA Behind ==
    ASSUME NEW q \in Seq(Visitor), NEW i \in 1 .. Len(q), NEW where, InLine(q, where)
    PROVE  LET r == SubSeq(q, i, Len(q))
           IN  /\ r \in Seq(Visitor) /\ r # <<>> /\ Tail(r) \in Seq(Visitor)
               /\ Head(r) \in Visitor /\ where[Head(r)] = "near" /\ InLine(Tail(r), where)
<1> DEFINE r == SubSeq(q, i, Len(q))
           t == Tail(r)
<1>1. Len(q) \in Nat /\ i \in Nat /\ 1 <= i /\ i <= Len(q) /\ DOMAIN q = 1 .. Len(q)  OBVIOUS
<1>2. /\ r \in Seq(Visitor) /\ Len(r) = Len(q) - i + 1
      /\ \A j \in 1 .. Len(q) - i + 1 : r[j] = q[i + j - 1]
  BY <1>1
<1> HIDE DEF r
<1>3. r # <<>> /\ Head(r) = r[1] /\ r[1] = q[i]
  <2>1. 1 \in 1 .. Len(q) - i + 1 /\ i + 1 - 1 = i  BY <1>1
  <2> QED  BY <1>2, <2>1
<1>4. t \in Seq(Visitor) /\ Len(t) = Len(q) - i /\ \A j \in 1 .. Len(q) - i : t[j] = r[j + 1]
  <2>1. t \in Seq(Visitor) /\ Len(t) = Len(r) - 1 /\ \A j \in 1 .. Len(t) : t[j] = r[j + 1]
    BY <1>2, <1>3, HeadTailProperties
  <2>2. Len(t) = Len(q) - i  BY <1>1, <1>2, <2>1
  <2> QED  BY <2>1, <2>2
<1> HIDE DEF t
<1>5. \A j \in 1 .. Len(q) - i : t[j] = q[i + j] /\ i + j \in DOMAIN q
  <2> SUFFICES ASSUME NEW j \in 1 .. Len(q) - i PROVE t[j] = q[i + j] /\ i + j \in DOMAIN q
    OBVIOUS
  <2>1. j + 1 \in 1 .. Len(q) - i + 1 /\ i + (j + 1) - 1 = i + j /\ i + j \in 1 .. Len(q)  BY <1>1
  <2> QED  BY <1>1, <1>2, <1>4, <2>1
<1>6. DOMAIN t = 1 .. Len(q) - i  BY <1>1, <1>4
<1>7. InLine(t, where)
  <2>1. \A j \in DOMAIN t : where[t[j]] = "near"  BY <1>5, <1>6 DEF InLine
  <2>2. ASSUME NEW j \in DOMAIN t, NEW k \in DOMAIN t, t[j] = t[k] PROVE j = k
    <3>1. q[i + j] = q[i + k] /\ i + j \in DOMAIN q /\ i + k \in DOMAIN q  BY <1>5, <1>6, <2>2
    <3>2. i + j = i + k  BY <3>1 DEF InLine, IsInjective
    <3> QED  BY <1>1, <1>6, <3>2
  <2> QED  BY <2>1, <2>2 DEF InLine, IsInjective
<1>8. Head(r) \in Visitor /\ where[Head(r)] = "near"
  <2>1. q[i] \in Visitor /\ where[q[i]] = "near"  BY <1>1 DEF InLine
  <2> QED  BY <1>3, <2>1
<1> QED  BY <1>2, <1>3, <1>4, <1>7, <1>8 DEF r, t

\* The state of an NPC that has looked at its queue.
Served(m) == Sound(m, place) /\ (m.State = "IDLE" \/ m.LockToDo = TRUE)

\* Who is asked is served, or the NPC is idle.
LEMMA ServeStep ==
    ASSUME place \in Places, NEW n, Sound(n, place), n.State = "IDLE", NEW m \in ServeQueue(n)
    PROVE  Served(m)
<1>1. n \in NpcRecord /\ n.queue \in Seq(Visitor) /\ InLine(n.queue, place)
  BY NpcFields DEF Sound
<1>2. CASE n.queue = <<>>
  <2>1. m = n  BY <1>2 DEF ServeQueue
  <2> QED  BY <2>1 DEF Served
<1>3. CASE n.queue # <<>>
  <2>1. PICK i \in 1 .. Len(n.queue) : m \in Serve([n EXCEPT !.queue = SubSeq(n.queue, i, Len(n.queue))])
    BY <1>3, Zenon DEF ServeQueue
  <2> DEFINE r == SubSeq(n.queue, i, Len(n.queue))
             a == [n EXCEPT !.queue = r]
             b == [a EXCEPT !.queue = Tail(a.queue)]
             p == Head(a.queue)
             k == [ChangeState(ClearList(b), "TALKING", FALSE) EXCEPT !.Interlocutor = p]
  <2>2. PICK x \in react(k, place, "ADDRESSQUEUE") : m = x.n
    BY <2>1, Zenon DEF Serve
  <2>3. /\ r \in Seq(Visitor) /\ Tail(r) \in Seq(Visitor)
        /\ Head(r) \in Visitor /\ place[Head(r)] = "near" /\ InLine(Tail(r), place)
    BY <1>1, Behind
  <2> HIDE DEF r
  <2>4. a \in NpcRecord /\ a.queue = r  BY <1>1, <2>3 DEF NpcRecord
  <2> HIDE DEF a
  <2>5. b \in NpcRecord /\ b.queue = Tail(r)  BY <2>3, <2>4 DEF NpcRecord
  <2>6. p \in Visitor /\ place[p] = "near"  BY <2>3, <2>4
  <2> HIDE DEF b, p
  <2>7. k \in NpcRecord /\ k.Interlocutor = p /\ k.State = "TALKING" /\ k.queue = b.queue
    BY <2>5, <2>6, Turned
  <2> HIDE DEF k
  <2>8. Promised(k) /\ InLine(k.queue, place)  BY <2>3, <2>5, <2>7 DEF Promised
  <2>9. Ended(x, k, place, "ADDRESSQUEUE")  BY <2>2, <2>7, <2>8, ReactEnds
  <2>10. /\ x \in Reaction /\ Promised(x.n) /\ InLine(x.n.queue, place)
         /\ x.n.Interlocutor = p /\ (x.n.LockToDo = TRUE \/ x.n.State = "IDLE")
    BY <2>7, <2>9 DEF Ended
  <2>11. x.n \in NpcRecord  BY <2>10, ReactionFields
  <2> QED  BY <2>2, <2>6, <2>10, <2>11 DEF Served, Sound, Heard
<1> QED  BY <1>2, <1>3

\* One that is idle goes for a walk, or sleeps when nobody is there.
LEMMA WanderStep ==
    ASSUME NEW n, Served(n), NEW m \in Wander(n)
    PROVE  Sound(m, place) /\ Attentive(m)
<1>1. /\ Sound(n, place) /\ n \in NpcRecord /\ InLine(n.queue, place) /\ n.LockToDo \in BOOLEAN
      /\ n.list \in Seq({"Wait", "Talk", "Go", "Idle"}) /\ (n.State = "IDLE" \/ n.LockToDo = TRUE)
  BY NpcFields DEF Served, Sound
<1>2. CASE n.State # "IDLE" \/ n.LockToDo
  <2>1. m = n  BY <1>2 DEF Wander
  <2> QED  BY <1>1, <1>2, <2>1 DEF Attentive
<1>3. CASE ~(n.State # "IDLE" \/ n.LockToDo) /\ \A p \in Visitor : place[p] = "gone"
  <2>1. m = ChangeState(n, "SLEEPING", FALSE)  BY <1>3 DEF Wander
  <2>2. m \in NpcRecord /\ m.State = "SLEEPING" /\ m.queue = n.queue  BY <1>1, <2>1, NewState
  <2> QED  BY <1>1, <2>2 DEF Sound, Promised, Heard, Attentive
<1>4. CASE ~(n.State # "IDLE" \/ n.LockToDo) /\ ~\A p \in Visitor : place[p] = "gone"
  <2>1. PICK l \in {<<"Go", "Wait">>, <<"Wait">>} : m = StartList([n EXCEPT !.list = n.list \o l])
    BY <1>4, Zenon DEF Wander
  <2> DEFINE s == n.list \o l
             k == [n EXCEPT !.list = s]
  <2>2. s \in Seq({"Wait", "Talk", "Go", "Idle"}) /\ s # <<>>
    <3>1. l \in Seq({"Wait", "Talk", "Go", "Idle"}) /\ Len(l) > 0 /\ Len(l) \in Nat
      <4>1. CASE l = <<"Go", "Wait">>
        BY <4>1
      <4>2. CASE l = <<"Wait">>
        BY <4>2
      <4> QED  BY <4>1, <4>2
    <3>2. s \in Seq({"Wait", "Talk", "Go", "Idle"}) /\ Len(s) = Len(n.list) + Len(l)
      BY <1>1, <3>1, ConcatProperties
    <3>3. Len(s) > 0  BY <1>1, <3>1, <3>2
    <3> QED  BY <3>2, <3>3
  <2> HIDE DEF s
  <2>3. k \in NpcRecord /\ k.State = n.State /\ k.queue = n.queue /\ k.list = s  BY <1>1, <2>2 DEF NpcRecord
  <2> HIDE DEF k
  <2>4. m = StartList(k)  BY <2>1 DEF k, s
  <2>5. m \in NpcRecord /\ m.State = k.State /\ m.queue = k.queue /\ m.LockToDo = TRUE
    BY <2>2, <2>3, <2>4, StartListStep
  <2> QED  BY <1>1, <1>4, <2>3, <2>5 DEF Sound, Promised, Heard, Attentive
<1> QED  BY <1>2, <1>3, <1>4

\* At the end of its list the NPC waits for its interlocutor, or turns away from
\* him, and looks at its queue.
LEMMA EndOfListStep ==
    ASSUME place \in Places, NEW n, Sound(n, place), n.State # "LEAVING", NEW m \in EndOfList(n)
    PROVE  Sound(m, place) /\ Attentive(m)
<1>1. n \in NpcRecord /\ Promised(n) /\ Heard(n, place) /\ InLine(n.queue, place)  BY DEF Sound
<1> DEFINE awake == IF n.State = "TALKING"
                    THEN {ChangeState(x.n, "IDLE", FALSE) : x \in react(n, place, "VANISH")} ELSE {n}
<1>2. CASE n.State = "TALKING" /\ quiet < Patience
  <2>1. m = StartList(AddEntry(n, "Wait"))  BY <1>2 DEF EndOfList
  <2>2. /\ m \in NpcRecord /\ m.Interlocutor = n.Interlocutor /\ m.queue = n.queue
        /\ m.LockToDo = TRUE /\ m.State \in {"IDLE", n.State} /\ Promised(m)
    BY <1>1, <2>1, WaitsOn
  <2> QED  BY <1>1, <2>2 DEF Sound, Heard, Attentive
<1>3. CASE ~(n.State = "TALKING" /\ quiet < Patience)
  <2>1. PICK k \in awake : m \in IF k.State = "IDLE" THEN UNION {Wander(j) : j \in ServeQueue(k)} ELSE {k}
    BY <1>3, Zenon DEF EndOfList
  <2>2. Sound(k, place) /\ k.State \in {"IDLE", "SLEEPING"}
    <3>1. CASE n.State = "TALKING"
      <4>1. PICK x \in react(n, place, "VANISH") : k = ChangeState(x.n, "IDLE", FALSE)  BY <2>1, <3>1
      <4>2. Ended(x, n, place, "VANISH")  BY <1>1, <4>1, ReactEnds
      <4>3. x.n \in NpcRecord /\ InLine(x.n.queue, place)  BY <4>2, ReactionFields DEF Ended
      <4>4. k \in NpcRecord /\ k.State = "IDLE" /\ k.queue = x.n.queue  BY <4>1, <4>3, NewState
      <4> QED  BY <4>3, <4>4 DEF Sound, Promised, Heard
    <3>2. CASE n.State # "TALKING"
      <4>1. k = n  BY <2>1, <3>2
      <4>2. n.State \in {"SLEEPING", "IDLE", "TALKING", "LEAVING"}  BY <1>1, NpcFields
      <4> QED  BY <3>2, <4>1, <4>2
    <3> QED  BY <3>1, <3>2
  <2> HIDE DEF awake
  <2>3. CASE k.State = "IDLE"
    <3>1. PICK j \in ServeQueue(k) : m \in Wander(j)  BY <2>1, <2>3
    <3>2. Served(j)  BY <2>2, <2>3, <3>1, ServeStep
    <3> QED  BY <3>1, <3>2, WanderStep
  <2>4. CASE k.State # "IDLE"
    <3>1. m = k  BY <2>1, <2>4
    <3> QED  BY <2>2, <2>4, <3>1 DEF Attentive
  <2> QED  BY <2>3, <2>4
<1> QED  BY <1>2, <1>3

\* One entry of the list.
LEMMA ExecuteStep ==
    ASSUME NpcInv, ExecuteNpc
    PROVE  NpcInv'
<1>1. /\ place \in Places /\ place' = place /\ Sound(npc, place) /\ npc \in NpcRecord /\ npc.LockToDo
      /\ Promised(npc) /\ Heard(npc, place) /\ InLine(npc.queue, place)
  BY DEF NpcInv, Sound, ExecuteNpc
<1> DEFINE m == [npc EXCEPT !.list = Tail(npc.list)]
<1>2. npc' \in IF npc.list = <<>> THEN EndOfList(ClearList(npc))
               ELSE IF Head(npc.list) = "Idle" THEN {ChangeState(m, "IDLE", TRUE)}
               ELSE IF Head(npc.list) = "Go" THEN {m, Yield(ClearList(m))}
               ELSE {m}
  BY Zenon DEF ExecuteNpc
<1>3. SUFFICES Sound(npc', place) /\ Attentive(npc')
  BY <1>1 DEF NpcInv
<1>4. CASE npc.list = <<>>
  <2> DEFINE a == ClearList(npc)
  <2>1. npc' \in EndOfList(a)  BY <1>2, <1>4
  <2>2. /\ a \in NpcRecord /\ a.Interlocutor = npc.Interlocutor /\ a.queue = npc.queue
        /\ a.State \in {"IDLE", npc.State} /\ a.State # "LEAVING"
    BY <1>1, ClearListStep
  <2> HIDE DEF a
  <2>3. Sound(a, place)  BY <1>1, <2>2 DEF Sound, Promised, Heard
  <2> QED  BY <1>1, <2>1, <2>2, <2>3, EndOfListStep
<1>5. CASE npc.list # <<>>
  <2> DEFINE l == npc.list
             S == {"Wait", "Talk", "Go", "Idle"}
  <2>1. l \in Seq(S) /\ l # <<>>  BY <1>1, <1>5, NpcFields
  <2>2. Tail(l) \in Seq(S) /\ (Head(l) # "Idle" /\ Contains(l, "Idle") => Contains(Tail(l), "Idle"))
    <3> HIDE DEF l, S
    <3>1. /\ Tail(l) \in Seq(S) /\ Len(Tail(l)) = Len(l) - 1 /\ Len(l) \in Nat
          /\ \A i \in 1 .. Len(Tail(l)) : Tail(l)[i] = l[i + 1]
      BY <2>1, HeadTailProperties
    <3>2. Head(l) = l[1]  BY <2>1
    <3>3. ASSUME Head(l) # "Idle", Contains(l, "Idle") PROVE Contains(Tail(l), "Idle")
      <4>1. PICK i \in 1 .. Len(l) : l[i] = "Idle"  BY <3>3 DEF Contains
      <4>2. i - 1 \in 1 .. Len(Tail(l)) /\ (i - 1) + 1 = i  BY <3>1, <3>2, <3>3, <4>1
      <4>3. Tail(l)[i - 1] = "Idle"  BY <3>1, <4>1, <4>2
      <4> QED  BY <4>2, <4>3 DEF Contains
    <3> QED  BY <3>1, <3>3
  <2>3. /\ m \in NpcRecord /\ m.State = npc.State /\ m.Interlocutor = npc.Interlocutor
        /\ m.queue = npc.queue /\ m.list = Tail(npc.list) /\ m.LockToDo = npc.LockToDo
    BY <1>1, <2>2 DEF NpcRecord
  <2>4. Head(npc.list) # "Idle" => Promised(m)  BY <1>1, <2>2, <2>3 DEF Promised
  <2> HIDE DEF m, l
  <2>5. CASE Head(npc.list) = "Idle"
    <3>1. npc' = ChangeState(m, "IDLE", TRUE)  BY <1>2, <1>5, <2>5
    <3>2. npc' \in NpcRecord /\ npc'.State = "IDLE" /\ npc'.queue = m.queue /\ npc'.LockToDo = TRUE
      BY <2>3, <3>1, BecomesIdle
    <3> QED  BY <1>1, <2>3, <3>2 DEF Sound, Promised, Heard, Attentive
  <2>6. CASE Head(npc.list) # "Idle" /\ npc' = m
    BY <1>1, <2>3, <2>4, <2>6 DEF Sound, Heard, Attentive
  <2>7. CASE Head(npc.list) # "Idle" /\ npc' = Yield(ClearList(m))
    <3> DEFINE a == ClearList(m)
    <3>1. /\ a \in NpcRecord /\ a.Interlocutor = m.Interlocutor /\ a.queue = m.queue
          /\ a.State \in {"IDLE", m.State} /\ a.State # "LEAVING"
      BY <2>3, <2>4, <2>7, ClearListStep
    <3> HIDE DEF a
    <3>2. Promised(a)  BY <3>1 DEF Promised
    <3>3. npc' = Yield(a)  BY <2>7 DEF a
    <3>4. /\ npc' \in NpcRecord /\ npc'.Interlocutor = a.Interlocutor /\ npc'.queue = a.queue
          /\ npc'.LockToDo = TRUE /\ npc'.State \in {"IDLE", a.State} /\ Promised(npc')
      BY <3>1, <3>2, <3>3, YieldsOn
    <3> QED  BY <1>1, <2>3, <3>1, <3>4 DEF Sound, Heard, Attentive
  <2> QED  BY <1>2, <1>5, <2>5, <2>6, <2>7
<1> QED  BY <1>4, <1>5

-----------------------------------------------------------------------------
\* Whatever the players and the NPC do, it stays attentive and sound.
LEMMA NpcStep ==
    ASSUME NpcInv, [NpcNext]_npcVars
    PROVE  NpcInv'
<1>1. place \in Places /\ Sound(npc, place) /\ Attentive(npc)  BY DEF NpcInv
<1>2. ASSUME NEW p \in Visitor, Say(p) PROVE NpcInv'
  <2>1. PICK x \in TalkStimulus(npc, p) : npc' = x.n /\ place' = x.where  BY <1>2, Zenon DEF Say
  <2>2. place[p] = "near"  BY <1>2 DEF Say
  <2>3. x.where \in Places /\ Sound(x.n, x.where) /\ Attentive(x.n)  BY <2>1, <2>2, TalkStep
  <2> QED  BY <2>1, <2>3 DEF NpcInv
<1>3. ASSUME NEW p \in Visitor, Walk(p) PROVE NpcInv'
  <2>1. place' \in Places /\ \A q \in Visitor : q # p => place'[q] = place[q]
    BY <1>1, <1>3 DEF Walk, Places
  <2>2. npc' \in MoveStimulus(npc, p, place')  BY <1>3 DEF Walk
  <2>3. Noticed(npc', npc, place')  BY <1>1, <2>1, <2>2, MoveStep
  <2> QED  BY <1>1, <2>1, <2>3 DEF NpcInv, Noticed, Attentive
<1>4. ASSUME Pushed PROVE NpcInv'
  <2>1. place' \in Places  BY <1>1, <1>4 DEF Pushed, Places
  <2>2. npc' \in MoveStimulus(npc, Nobody, place')  BY <1>4 DEF Pushed
  <2>3. Noticed(npc', npc, place')  BY <1>1, <2>1, <2>2, MoveStep
  <2> QED  BY <1>1, <2>1, <2>3 DEF NpcInv, Noticed, Attentive
<1>5. CASE ExecuteNpc
  BY <1>5, ExecuteStep
<1>6. CASE Silence
  BY <1>1, <1>6 DEF Silence, NpcInv
<1>7. CASE UNCHANGED npcVars
  BY <1>1, <1>7 DEF npcVars, NpcInv
<1> QED  BY <1>2, <1>3, <1>4, <1>5, <1>6, <1>7 DEF NpcNext

\* Conversations go on: for any number of visitors, however they come, talk and
\* go, and wherever the NPC is pushed, one that is awake has a list to work on, one
\* that takes its leave will become idle, and whoever it talks to, and whoever
\* waits in its queue, once each, is still near.
THEOREM ConversationKept == NpcSpec => []ConversationGoesOn
<1>1. NpcInit => NpcInv
  <2> SUFFICES ASSUME NpcInit PROVE NpcInv
    OBVIOUS
  <2>1. <<>> \in Seq(Visitor) /\ <<>> \in Seq({"Wait", "Talk", "Go", "Idle"})  OBVIOUS
  <2>2. /\ npc \in NpcRecord /\ npc.State = "SLEEPING" /\ npc.queue = <<>>
    BY <2>1 DEF NpcInit, NpcRecord
  <2>3. InLine(npc.queue, place)  BY <2>2 DEF InLine, IsInjective
  <2>4. place \in Places  BY DEF NpcInit, Places
  <2> QED  BY <2>2, <2>3, <2>4 DEF NpcInv, Sound, Promised, Heard, Attentive
<1>2. NpcInv /\ [NpcNext]_npcVars => NpcInv'
  BY NpcStep
<1>3. NpcInv => ConversationGoesOn
  BY DEF NpcInv, Sound, Promised, Heard, InLine, Attentive, ConversationGoesOn
<1> QED  BY <1>1, <1>2, <1>3, PTL DEF NpcSpec

=============================================================================
